------------------------------ MODULE AccessProofs -----------------------------
(***************************************************************************)
(* Who gets in and what they reach: what holds of the sessions for any     *)
(* number of accounts, tokens, OAuth states and overlapping requests; then *)
(* of the invitations, and last of the rows that requests meet.            *)
(***************************************************************************)
EXTENDS Sessions, Workspaces, Tenancy, FiniteSetTheorems, TLAPS

TokenRow == [status : {"absent", "live", "revoked", "expired"},
             user : Emails \cup {NoOne}, family : Tokens \cup {NoOne}]
StateRow == [status : {"absent", "live", "consumed"}, user : Emails \cup {NoOne}]
Request == [op : Ops, phase : {"idle", "checked", "locked", "ending", "exchanging"},
            email : Emails \cup {NoOne}, token : Tokens \cup {NoOne},
            state : States \cup {NoOne}, seen : SUBSET Tokens]

\* The tables and the requests are of their types.
TablesTyped ==
  /\ users \subseteq Emails /\ token \in [Tokens -> TokenRow]
  /\ rowLock \in [Tokens -> Requests \cup {Free}] /\ state \in [States -> StateRow]
  /\ req \in [Requests -> Request] /\ ended \subseteq Tokens /\ slipped \subseteq Tokens
  /\ granted \in [States -> Nat]

\* What a request holds fits what it is doing; a refresh holds the lock of its token,
\* which is not revoked while the refresh may still rotate it.
HoldsWhatItNeeds(r) ==
  /\ req[r].phase = "idle" <=> req[r].op = "none"
  /\ req[r].op = "signup" => req[r].email \in Emails
  /\ req[r].op \in {"refresh", "logout"} =>
       req[r].token \in Tokens /\ Issued(req[r].token)
  /\ req[r].op = "refresh" => rowLock[req[r].token] = r /\ req[r].phase \in {"locked", "ending"}
  /\ req[r].phase = "locked" => req[r].op = "refresh" /\ token[req[r].token].status # "revoked"
  /\ req[r].phase = "ending" => req[r].op = "refresh"
  /\ req[r].op = "callback" => req[r].state \in States
RequestsHold == \A r \in Requests : HoldsWhatItNeeds(r)

\* A row that is there has a family, which the token that started it belongs to.
FamiliesStand ==
  \A t \in Tokens : Issued(t) =>
    token[t].user \in Emails /\ token[t].family \in Tokens /\ Issued(token[t].family)

\* A request that is to end a family has seen every token of it that is not revoked,
\* unless a rotation slipped through.
Ending(r) == req[r].op = "logout" \/ req[r].phase = "ending"
EndersSee ==
  \A r \in Requests : Ending(r) =>
    /\ \A u \in req[r].seen : Issued(u)
    /\ \A u \in Tokens :
         Issued(u) /\ token[u].family = token[req[r].token].family =>
           token[u].status = "revoked" \/ u \in req[r].seen \/ token[u].family \in slipped
LogoutSees == \A r \in Requests : req[r].op = "logout" => req[r].seen = {req[r].token}
EndedWereIssued == \A f \in ended : Issued(f)

TokenInvariant ==
  /\ TablesTyped /\ RequestsHold /\ FamiliesStand /\ OneLiveToken
  /\ EndersSee /\ LogoutSees /\ EndedWereIssued /\ EndedIsOver

LEMMA TypesAgree == TablesTyped <=> SessionTypeOK
BY DEF TablesTyped, SessionTypeOK, TokenRow, StateRow, Request

LEMMA IdleRequest == Done \in Request /\ NoToken \in TokenRow /\ NoState \in StateRow
BY DEF Done, Request, Ops, NoToken, TokenRow, NoState, StateRow

LEMMA TokensStart == SessionInit => TokenInvariant
<1> SUFFICES ASSUME SessionInit PROVE TokenInvariant
  OBVIOUS
<1>1. TablesTyped
  BY IdleRequest DEF SessionInit, TablesTyped
<1>2. RequestsHold /\ EndersSee /\ LogoutSees
  BY DEF SessionInit, RequestsHold, HoldsWhatItNeeds, EndersSee, LogoutSees, Ending, Done
<1>3. FamiliesStand /\ OneLiveToken /\ EndedIsOver /\ EndedWereIssued
  BY DEF SessionInit, FamiliesStand, OneLiveToken, EndedIsOver, EndedWereIssued, Issued, NoToken
<1> QED
  BY <1>1, <1>2, <1>3 DEF TokenInvariant

-------------------------------------------------------------------------------
\* What a step does to the types.
LEMMA TypesKept == TokenInvariant /\ [SessionNext]_sessionVars => TablesTyped'
<1> SUFFICES ASSUME TokenInvariant, [SessionNext]_sessionVars PROVE TablesTyped'
  OBVIOUS
<1>0. TablesTyped /\ RequestsHold /\ FamiliesStand
  BY DEF TokenInvariant
<1>f. ASSUME NEW u \in Emails, NEW f \in Tokens PROVE Row(u, f) \in TokenRow
  BY DEF Row, TokenRow
<1>s. ASSUME NEW u \in Emails, NEW t \in Tokens, Start(u, t) PROVE token' \in [Tokens -> TokenRow]
  BY <1>0, <1>f, <1>s DEF Start, TablesTyped
<1>u. ASSUME NEW r \in Requests, Unlock(r) PROVE rowLock' \in [Tokens -> Requests \cup {Free}]
  BY <1>0, <1>u DEF Unlock, TablesTyped
<1>v. ASSUME NEW U, Revoked(U) PROVE token' \in [Tokens -> TokenRow]
  BY <1>0, <1>v DEF Revoked, TablesTyped, TokenRow
<1>d. ASSUME NEW r \in Requests, req' = [req EXCEPT ![r] = Done] PROVE req' \in [Requests -> Request]
  BY <1>0, <1>d, IdleRequest DEF TablesTyped
<1>1. ASSUME NEW r \in Requests, NEW e \in Emails, CheckEmail(r, e) PROVE TablesTyped'
  <2>1. [Done EXCEPT !.op = "signup", !.phase = "checked", !.email = e] \in Request
    BY IdleRequest DEF Request, Ops
  <2> QED
    BY <1>0, <1>1, <2>1 DEF CheckEmail, TablesTyped
<1>2. ASSUME NEW r \in Requests, NEW t \in Tokens, SignUp(r, t) PROVE TablesTyped'
  <2>1. req[r].email \in Emails
    BY <1>0, <1>2 DEF SignUp, RequestsHold, HoldsWhatItNeeds
  <2>2. token' \in [Tokens -> TokenRow] /\ users' \subseteq Emails
    BY <1>0, <1>2, <1>s, <2>1 DEF SignUp, TablesTyped
  <2> QED
    BY <1>0, <1>2, <1>d, <2>2 DEF SignUp, TablesTyped
<1>3. ASSUME NEW r \in Requests, NEW t \in Tokens, PresentToken(r, t) PROVE TablesTyped'
  <2> DEFINE seen == IF token[t].status = "revoked"
                     THEN {u \in Family(token[t].family) : token[u].status # "revoked"} ELSE {}
  <2>1. seen \in SUBSET Tokens
    BY DEF Family
  <2> HIDE DEF seen
  <2>2. [Done EXCEPT !.op = "refresh", !.token = t, !.seen = seen,
           !.phase = IF token[t].status = "revoked" THEN "ending" ELSE "locked"] \in Request
    BY <2>1, IdleRequest DEF Request, Ops
  <2>3. req' \in [Requests -> Request]
    BY <1>0, <1>3, <2>2 DEF PresentToken, TablesTyped, seen, Done
  <2>4. rowLock' \in [Tokens -> Requests \cup {Free}]
    BY <1>0, <1>3 DEF PresentToken, TakeLock, TablesTyped
  <2> QED
    BY <1>0, <1>3, <2>3, <2>4 DEF PresentToken, TablesTyped
<1>4. ASSUME NEW r \in Requests, NEW n \in Tokens, Rotate(r, n) PROVE TablesTyped'
  <2> DEFINE t == req[r].token
  <2>1. t \in Tokens /\ token[t].user \in Emails /\ token[t].family \in Tokens
    BY <1>0, <1>4 DEF Rotate, RequestsHold, HoldsWhatItNeeds, FamiliesStand
  <2>2. Row(token[t].user, token[t].family) \in TokenRow
    BY <1>f, <2>1
  <2>3. token' \in [Tokens -> TokenRow]
    <3>1. token \in [Tokens -> TokenRow]
      BY <1>0 DEF TablesTyped
    <3>2. [token[t] EXCEPT !.status = "revoked"] \in TokenRow
      BY <2>1, <3>1 DEF TokenRow
    <3>3. token' = [[token EXCEPT ![t] = [token[t] EXCEPT !.status = "revoked"]]
                      EXCEPT ![n] = Row(token[t].user, token[t].family)]
      BY <1>4, <2>1, <3>1 DEF Rotate
    <3> QED
      BY <2>2, <3>1, <3>2, <3>3
  <2>4. slipped' \subseteq Tokens
    BY <1>0, <1>4, <2>1 DEF Rotate, TablesTyped
  <2> QED
    BY <1>0, <1>4, <1>d, <1>u, <2>3, <2>4 DEF Rotate, TablesTyped
<1>5. ASSUME NEW r \in Requests, NEW t \in Tokens, FindToken(r, t) PROVE TablesTyped'
  <2>1. [Done EXCEPT !.op = "logout", !.phase = "checked", !.token = t, !.seen = {t}] \in Request
    BY IdleRequest DEF Request, Ops
  <2> QED
    BY <1>0, <1>5, <2>1 DEF FindToken, TablesTyped
<1>6. ASSUME NEW r \in Requests, Refuse(r) \/ Abort(r) PROVE TablesTyped'
  BY <1>0, <1>6, <1>d, <1>u DEF Refuse, Abort, TablesTyped
<1>7. ASSUME NEW r \in Requests, EndFamily(r) PROVE TablesTyped'
  <2>1. token[req[r].token].family \in Tokens
    BY <1>0, <1>7 DEF EndFamily, RequestsHold, HoldsWhatItNeeds, FamiliesStand
  <2> QED
    BY <1>0, <1>7, <1>d, <1>u, <1>v, <2>1 DEF EndFamily, TablesTyped
<1>8. ASSUME NEW r \in Requests, LogOut(r) PROVE TablesTyped'
  <2>1. token[req[r].token].family \in Tokens
    BY <1>0, <1>8 DEF LogOut, RequestsHold, HoldsWhatItNeeds, FamiliesStand
  <2> QED
    BY <1>0, <1>8, <1>d, <1>v, <2>1 DEF LogOut, TablesTyped
<1>9. ASSUME NEW r \in Requests, NEW s \in States, Consume(r, s) PROVE TablesTyped'
  <2>1. [Done EXCEPT !.op = "callback", !.phase = "exchanging", !.state = s] \in Request
    BY IdleRequest DEF Request, Ops
  <2>2. state' \in [States -> StateRow]
    BY <1>0, <1>9 DEF Consume, Marked, TablesTyped, StateRow
  <2> QED
    BY <1>0, <1>9, <2>1, <2>2 DEF Consume, TablesTyped
<1>10. ASSUME NEW r \in Requests, NEW e \in Emails, NEW t \in Tokens, FinishOAuth(r, e, t)
       PROVE  TablesTyped'
  <2> DEFINE s == req[r].state
  <2>1. s \in States /\ granted \in [States -> Nat]
    BY <1>0, <1>10 DEF FinishOAuth, RequestsHold, HoldsWhatItNeeds, TablesTyped
  <2>2. granted' = [granted EXCEPT ![s] = granted[s] + 1]
    BY <1>10 DEF FinishOAuth
  <2>3. granted' \in [States -> Nat]
    BY <2>1, <2>2
  <2> QED
    BY <1>0, <1>10, <1>d, <1>s, <2>3 DEF FinishOAuth, TablesTyped
<1>11. ASSUME NEW e \in Emails, NEW t \in Tokens, SignIn(e, t) PROVE TablesTyped'
  BY <1>0, <1>11, <1>s DEF SignIn, TablesTyped
<1>12. ASSUME NEW t \in Tokens, Expire(t) PROVE TablesTyped'
  <2>1. token' \in [Tokens -> TokenRow]
    BY <1>0, <1>12 DEF Expire, TablesTyped, TokenRow
  <2> QED
    BY <1>0, <1>12, <2>1 DEF Expire, TablesTyped
<1>13. ASSUME NEW s \in States, NEW u \in Emails \cup {NoOne}, StartOAuth(s, u) PROVE TablesTyped'
  <2>1. state' \in [States -> StateRow]
    BY <1>0, <1>13 DEF StartOAuth, TablesTyped, StateRow
  <2> QED
    BY <1>0, <1>13, <2>1 DEF StartOAuth, TablesTyped
<1>14. CASE UNCHANGED sessionVars
  BY <1>0, <1>14 DEF sessionVars, TablesTyped
<1> QED
  BY <1>1, <1>2, <1>3, <1>4, <1>5, <1>6, <1>7, <1>8, <1>9, <1>10, <1>11, <1>12, <1>13, <1>14
  DEF SessionNext

-------------------------------------------------------------------------------
\* Steps that leave the tokens alone.
StartsOrEnds ==
  \/ \E r \in Requests :
       \/ \E e \in Emails : CheckEmail(r, e)
       \/ Refuse(r) \/ Abort(r)
       \/ \E t \in Tokens : PresentToken(r, t) \/ FindToken(r, t)
       \/ \E s \in States : Consume(r, s)
  \/ \E s \in States, u \in Emails \cup {NoOne} : StartOAuth(s, u)
  \/ UNCHANGED sessionVars

LEMMA TokensStay == StartsOrEnds => UNCHANGED <<token, ended, slipped>>
BY DEF StartsOrEnds, CheckEmail, Refuse, Abort, PresentToken, FindToken, Consume, StartOAuth,
       sessionVars

\* What a row keeps: it stays there with its family, and once revoked it stays revoked.
RowsKept ==
  \A t \in Tokens : Issued(t) =>
    /\ Issued(t)' /\ token'[t].family = token[t].family /\ token'[t].user = token[t].user
    /\ token[t].status = "revoked" => token'[t].status = "revoked"

LEMMA StartAdds ==
  ASSUME TablesTyped, NEW u \in Emails, NEW t \in Tokens, Start(u, t)
  PROVE  /\ ~Issued(t) /\ Issued(t)' /\ token'[t] = Row(u, t)
         /\ \A v \in Tokens \ {t} : token'[v] = token[v]
         /\ RowsKept
BY DEF TablesTyped, Start, Issued, Row, RowsKept

LEMMA RevokedKeeps ==
  ASSUME TablesTyped, NEW U \in SUBSET Tokens, Revoked(U), \A t \in U : Issued(t)
  PROVE  /\ RowsKept
         /\ \A t \in Tokens : /\ Issued(t)' <=> Issued(t)
                              /\ token'[t].family = token[t].family
                              /\ token'[t].status = IF t \in U THEN "revoked" ELSE token[t].status
<1>1. \A t \in Tokens : token'[t] = IF t \in U THEN [token[t] EXCEPT !.status = "revoked"] ELSE token[t]
  BY DEF Revoked
<1>2. \A t \in Tokens : token[t] \in TokenRow
  BY DEF TablesTyped
<1> QED
  BY <1>1, <1>2 DEF RowsKept, Issued, TokenRow

LEMMA RotateMoves ==
  ASSUME TokenInvariant, NEW r \in Requests, NEW n \in Tokens, Rotate(r, n)
  PROVE  LET t == req[r].token
         IN /\ t \in Tokens /\ Issued(t) /\ t # n /\ ~Issued(n) /\ token[t].family \in Tokens
            /\ token[t].status # "revoked" /\ rowLock[t] = r
            /\ token'[n] = Row(token[t].user, token[t].family)
            /\ token'[t] = [token[t] EXCEPT !.status = "revoked"]
            /\ \A v \in Tokens \ {t, n} : token'[v] = token[v]
            /\ RowsKept
<1> DEFINE t == req[r].token
<1>1. t \in Tokens /\ Issued(t) /\ token[t].status # "revoked" /\ rowLock[t] = r
  BY DEF Rotate, TokenInvariant, RequestsHold, HoldsWhatItNeeds
<1>2. token[t].family \in Tokens
  BY <1>1 DEF TokenInvariant, FamiliesStand
<1>3. ~Issued(n) /\ t # n
  BY <1>1 DEF Rotate
<1>4. token \in [Tokens -> TokenRow]
  BY DEF TokenInvariant, TablesTyped
<1>5. token'[n] = Row(token[t].user, token[t].family)
  BY <1>1, <1>3, <1>4 DEF Rotate
<1>6. token'[t] = [token[t] EXCEPT !.status = "revoked"]
  BY <1>1, <1>3, <1>4 DEF Rotate
<1>7. \A v \in Tokens \ {t, n} : token'[v] = token[v]
  BY <1>1, <1>3, <1>4 DEF Rotate
<1>8. RowsKept
  <2> SUFFICES ASSUME NEW v \in Tokens, Issued(v)
               PROVE  /\ Issued(v)' /\ token'[v].family = token[v].family /\ token'[v].user = token[v].user
                      /\ token[v].status = "revoked" => token'[v].status = "revoked"
    BY DEF RowsKept
  <2>1. CASE v = t
    BY <1>4, <1>6, <2>1 DEF Issued, TokenRow
  <2>2. CASE v # t
    BY <1>3, <1>7, <2>2 DEF Issued
  <2> QED
    BY <2>1, <2>2
<1> QED
  BY <1>1, <1>2, <1>3, <1>5, <1>6, <1>7, <1>8

LEMMA ExpireKeeps ==
  ASSUME TablesTyped, NEW t \in Tokens, Expire(t)
  PROVE  /\ RowsKept /\ token[t].status = "live" /\ token'[t].status = "expired"
         /\ \A v \in Tokens \ {t} : token'[v] = token[v]
         /\ \A v \in Tokens : (Issued(v)' <=> Issued(v)) /\ token'[v].family = token[v].family
BY DEF TablesTyped, TokenRow, Expire, Alive, Issued, RowsKept

\* The tokens a request revokes.
LEMMA Enders ==
  ASSUME TokenInvariant, NEW r \in Requests, EndFamily(r) \/ LogOut(r)
  PROVE  LET t == req[r].token
             S == req[r].seen
         IN /\ t \in Tokens /\ Issued(t) /\ token[t].family \in Tokens
            /\ S \in SUBSET Tokens /\ \A u \in S : Issued(u)
            /\ Ending(r) /\ Revoked(S) /\ ended' = ended \cup {token[t].family}
            /\ slipped' = slipped
            /\ \A u \in S : rowLock[u] \in {r, Free}
<1> DEFINE t == req[r].token
           S == req[r].seen
<1>1. Ending(r) /\ req[r].op \in {"refresh", "logout"} /\ slipped' = slipped
      /\ ended' = ended \cup {token[t].family}
  BY DEF EndFamily, LogOut, Ending
<1>2. t \in Tokens /\ Issued(t)
  BY <1>1 DEF TokenInvariant, RequestsHold, HoldsWhatItNeeds
<1>3. token[t].family \in Tokens
  BY <1>2 DEF TokenInvariant, FamiliesStand
<1>4. S \in SUBSET Tokens /\ \A u \in S : Issued(u)
  BY <1>1 DEF TokenInvariant, TablesTyped, Request, EndersSee
<1>5. Revoked(S) /\ \A u \in S : rowLock[u] \in {r, Free}
  <2>1. CASE EndFamily(r)
    BY <2>1 DEF EndFamily
  <2>2. CASE LogOut(r)
    <3>1. S = {t}
      BY <2>2 DEF LogOut, TokenInvariant, LogoutSees
    <3> QED
      BY <2>2, <3>1 DEF LogOut
  <2> QED
    BY <2>1, <2>2
<1> QED
  BY <1>1, <1>2, <1>3, <1>4, <1>5

-------------------------------------------------------------------------------
\* What a step does to the tokens.
Starts == \E u \in Emails, t \in Tokens : Start(u, t) /\ UNCHANGED <<ended, slipped>>
Ends == \E r \in Requests : EndFamily(r) \/ LogOut(r)
Rotates == \E r \in Requests, n \in Tokens : Rotate(r, n)
Expires == \E t \in Tokens : Expire(t)

LEMMA Kinds ==
  ASSUME TokenInvariant, [SessionNext]_sessionVars
  PROVE  \/ UNCHANGED <<token, ended, slipped>>
         \/ Starts \/ Ends \/ Rotates \/ Expires
<1>1. ASSUME NEW r \in Requests, NEW t \in Tokens, SignUp(r, t)
      PROVE  UNCHANGED <<token, ended, slipped>> \/ Starts
  <2>1. req[r].email \in Emails
    BY <1>1 DEF SignUp, TokenInvariant, RequestsHold, HoldsWhatItNeeds
  <2> QED
    BY <1>1, <2>1 DEF SignUp, Starts
<1>2. ASSUME NEW e \in Emails, NEW t \in Tokens,
             SignIn(e, t) \/ \E r \in Requests : FinishOAuth(r, e, t)
      PROVE  Starts
  BY <1>2 DEF SignIn, FinishOAuth, Starts
<1>3. ASSUME StartsOrEnds PROVE UNCHANGED <<token, ended, slipped>>
  BY <1>3, TokensStay
<1> QED
  BY <1>1, <1>2, <1>3 DEF SessionNext, StartsOrEnds, Ends, Rotates, Expires

LEMMA RowsAreKept ==
  ASSUME TokenInvariant, [SessionNext]_sessionVars
  PROVE  RowsKept
<1>0. TablesTyped
  BY DEF TokenInvariant
<1>1. CASE UNCHANGED <<token, ended, slipped>>
  BY <1>1 DEF RowsKept, Issued
<1>2. CASE Starts
  BY <1>0, <1>2, StartAdds DEF Starts
<1>3. ASSUME NEW r \in Requests, EndFamily(r) \/ LogOut(r) PROVE RowsKept
  <2>1. req[r].seen \in SUBSET Tokens /\ Revoked(req[r].seen) /\ \A u \in req[r].seen : Issued(u)
    BY <1>3, Enders
  <2> QED
    BY <1>0, <2>1, RevokedKeeps
<1>4. CASE Rotates
  BY <1>4, RotateMoves DEF Rotates
<1>5. CASE Expires
  BY <1>0, <1>5, ExpireKeeps DEF Expires
<1> QED
  BY <1>1, <1>2, <1>3, <1>4, <1>5, Kinds DEF Ends

LEMMA FamiliesKept == TokenInvariant /\ [SessionNext]_sessionVars => FamiliesStand'
<1> SUFFICES ASSUME TokenInvariant, [SessionNext]_sessionVars,
                    NEW v \in Tokens, Issued(v)'
             PROVE  (/\ token[v].user \in Emails /\ token[v].family \in Tokens
                     /\ Issued(token[v].family))'
  BY DEF FamiliesStand
<1>0. TablesTyped /\ FamiliesStand /\ RowsKept
  BY RowsAreKept DEF TokenInvariant
<1>1. CASE Issued(v)
  BY <1>0, <1>1 DEF FamiliesStand, RowsKept
<1>2. CASE ~Issued(v)
  <2>1. CASE UNCHANGED <<token, ended, slipped>>
    BY <1>2, <2>1 DEF Issued
  <2>2. CASE Starts
    <3>1. PICK u \in Emails, t \in Tokens : Start(u, t)
      BY <2>2 DEF Starts
    <3>2. v = t /\ token'[v] = Row(u, t)
      BY <1>0, <1>2, <3>1, StartAdds DEF Issued
    <3> QED
      BY <3>2 DEF Row
  <2>3. CASE Ends
    <3>1. PICK r \in Requests : EndFamily(r) \/ LogOut(r)
      BY <2>3 DEF Ends
    <3>2. req[r].seen \in SUBSET Tokens /\ Revoked(req[r].seen) /\ \A u \in req[r].seen : Issued(u)
      BY <3>1, Enders
    <3> QED
      BY <1>0, <1>2, <3>2, RevokedKeeps
  <2>4. CASE Rotates
    <3>1. PICK r \in Requests, n \in Tokens : Rotate(r, n)
      BY <2>4 DEF Rotates
    <3> DEFINE t == req[r].token
    <3>2. /\ t \in Tokens /\ Issued(t) /\ t # n /\ \A w \in Tokens \ {t, n} : token'[w] = token[w]
          /\ token'[n] = Row(token[t].user, token[t].family)
      BY <3>1, RotateMoves
    <3>3. v = n
      BY <1>2, <3>2 DEF Issued
    <3> QED
      BY <1>0, <3>2, <3>3 DEF Row, FamiliesStand, RowsKept
  <2>5. CASE Expires
    BY <1>0, <1>2, <2>5, ExpireKeeps DEF Expires
  <2> QED
    BY <2>1, <2>2, <2>3, <2>4, <2>5, Kinds
<1> QED
  BY <1>1, <1>2

LEMMA OneStaysLive == TokenInvariant /\ [SessionNext]_sessionVars => OneLiveToken'
<1> DEFINE Usable(v) == token[v].status \in {"live", "expired"}
<1> SUFFICES ASSUME TokenInvariant, [SessionNext]_sessionVars,
                    NEW v \in Tokens, NEW w \in Tokens, Usable(v)', Usable(w)',
                    token'[v].family = token'[w].family
             PROVE  v = w
  BY DEF OneLiveToken
<1>0. TablesTyped /\ FamiliesStand /\ OneLiveToken
  BY DEF TokenInvariant
<1>1. CASE /\ Usable(v)' => Usable(v) /\ token'[v].family = token[v].family
           /\ Usable(w)' => Usable(w) /\ token'[w].family = token[w].family
  BY <1>0, <1>1 DEF OneLiveToken
<1>2. CASE Starts
  <2>1. PICK u \in Emails, t \in Tokens : Start(u, t)
    BY <1>2 DEF Starts
  <2>2. ~Issued(t) /\ token'[t] = Row(u, t) /\ \A x \in Tokens \ {t} : token'[x] = token[x]
    BY <1>0, <2>1, StartAdds
  <2>3. ASSUME NEW x \in Tokens \ {t}, Usable(x) PROVE token[x].family # t
    BY <1>0, <2>2, <2>3 DEF FamiliesStand, Issued
  <2> QED
    BY <1>1, <2>2, <2>3 DEF Row
<1>3. CASE Ends
  <2>1. PICK r \in Requests : EndFamily(r) \/ LogOut(r)
    BY <1>3 DEF Ends
  <2>2. req[r].seen \in SUBSET Tokens /\ Revoked(req[r].seen) /\ \A u \in req[r].seen : Issued(u)
    BY <2>1, Enders
  <2> QED
    BY <1>0, <1>1, <2>2, RevokedKeeps
<1>4. CASE Rotates
  <2>1. PICK r \in Requests, n \in Tokens : Rotate(r, n)
    BY <1>4 DEF Rotates
  <2>2. PICK t \in Tokens :
          /\ Issued(t) /\ token[t].status # "revoked" /\ t # n
          /\ token'[n] = Row(token[t].user, token[t].family)
          /\ token'[t] = [token[t] EXCEPT !.status = "revoked"]
          /\ \A x \in Tokens \ {t, n} : token'[x] = token[x]
    BY <2>1, RotateMoves
  <2>3. Usable(t) /\ ~Usable(t)'
    BY <1>0, <2>2 DEF TablesTyped, TokenRow, Issued
  <2>4. ASSUME NEW x \in Tokens \ {t, n}, Usable(x) PROVE token[x].family # token[t].family
    BY <1>0, <2>2, <2>3, <2>4 DEF OneLiveToken
  <2>5. token'[n].family = token[t].family
    BY <2>2 DEF Row
  <2>6. v # t /\ w # t
    BY <2>3
  <2>7. CASE v # n /\ w # n
    BY <1>1, <2>2, <2>6, <2>7
  <2>8. CASE v = n /\ w # n
    BY <2>2, <2>4, <2>5, <2>6, <2>8
  <2>9. CASE v # n /\ w = n
    BY <2>2, <2>4, <2>5, <2>6, <2>9
  <2> QED
    BY <2>7, <2>8, <2>9
<1>5. CASE Expires
  BY <1>0, <1>1, <1>5, ExpireKeeps DEF Expires
<1>6. CASE UNCHANGED <<token, ended, slipped>>
  BY <1>1, <1>6
<1> QED
  BY <1>2, <1>3, <1>4, <1>5, <1>6, Kinds

LEMMA RequestsKept == TokenInvariant /\ [SessionNext]_sessionVars => RequestsHold'
<1> SUFFICES ASSUME TokenInvariant, [SessionNext]_sessionVars PROVE RequestsHold'
  OBVIOUS
<1>0. TablesTyped /\ RequestsHold /\ RowsKept
  BY RowsAreKept DEF TokenInvariant
<1>t. req \in [Requests -> Request] /\ rowLock \in [Tokens -> Requests \cup {Free}]
  BY <1>0 DEF TablesTyped
\* The other requests: their locks stay, and the tokens they have locked unrevoked.
<1>a. ASSUME NEW r \in Requests, \A q \in Requests \ {r} : req'[q] = req[q],
             HoldsWhatItNeeds(r)',
             \A q \in Requests \ {r}, t \in Tokens : rowLock[t] = q =>
               rowLock'[t] = q /\ (token[t].status # "revoked" => token'[t].status # "revoked")
      PROVE  RequestsHold'
  <2> SUFFICES ASSUME NEW q \in Requests \ {r} PROVE HoldsWhatItNeeds(q)'
    BY <1>a DEF RequestsHold
  <2>1. req'[q] = req[q] /\ HoldsWhatItNeeds(q)
    BY <1>0, <1>a DEF RequestsHold
  <2>2. req[q].op \in {"refresh", "logout"} => req[q].token \in Tokens /\ Issued(req[q].token)'
    BY <1>0, <2>1 DEF HoldsWhatItNeeds, RowsKept
  <2>3. req[q].op = "refresh" => rowLock'[req[q].token] = q
    BY <1>a, <2>1 DEF HoldsWhatItNeeds
  <2>4. req[q].phase = "locked" => token'[req[q].token].status # "revoked"
    BY <1>a, <2>1 DEF HoldsWhatItNeeds
  <2> QED
    BY <2>1, <2>2, <2>3, <2>4 DEF HoldsWhatItNeeds
\* A request that is over needs nothing.
<1>b. ASSUME NEW r \in Requests, req' = [req EXCEPT ![r] = Done]
      PROVE  HoldsWhatItNeeds(r)' /\ \A q \in Requests \ {r} : req'[q] = req[q]
  BY <1>t, <1>b DEF HoldsWhatItNeeds, Done
<1>u. ASSUME NEW r \in Requests, Unlock(r)
      PROVE  \A q \in Requests \ {r}, t \in Tokens : rowLock[t] = q => rowLock'[t] = q
  BY <1>u DEF Unlock
<1>c. ASSUME NEW r \in Requests, UNCHANGED <<token, rowLock>>
      PROVE  \A q \in Requests \ {r}, t \in Tokens : rowLock[t] = q =>
               rowLock'[t] = q /\ (token[t].status # "revoked" => token'[t].status # "revoked")
  BY <1>c
<1>s. ASSUME NEW u \in Emails, NEW n \in Tokens, Start(u, n)
      PROVE  \A t \in Tokens : token[t].status # "revoked" => token'[t].status # "revoked"
  <2>1. token'[n] = Row(u, n) /\ \A t \in Tokens \ {n} : token'[t] = token[t]
    BY <1>0, <1>s, StartAdds
  <2>2. token'[n].status # "revoked"
    BY <2>1 DEF Row
  <2> QED
    BY <2>1, <2>2
<1>1. ASSUME NEW r \in Requests, NEW e \in Emails, CheckEmail(r, e) PROVE RequestsHold'
  <2>1. HoldsWhatItNeeds(r)' /\ \A q \in Requests \ {r} : req'[q] = req[q]
    BY <1>1, <1>t DEF CheckEmail, HoldsWhatItNeeds, Done
  <2> QED
    BY <1>1, <1>a, <1>c, <2>1 DEF CheckEmail
<1>2. ASSUME NEW r \in Requests, NEW t \in Tokens, SignUp(r, t) PROVE RequestsHold'
  <2>1. HoldsWhatItNeeds(r)' /\ \A q \in Requests \ {r} : req'[q] = req[q]
    BY <1>2, <1>b DEF SignUp
  <2>2. req[r].email \in Emails
    BY <1>0, <1>2 DEF SignUp, RequestsHold, HoldsWhatItNeeds
  <2>3. \A v \in Tokens : token[v].status # "revoked" => token'[v].status # "revoked"
    BY <1>2, <1>s, <2>2 DEF SignUp
  <2>4. rowLock' = rowLock
    BY <1>2 DEF SignUp
  <2> QED
    BY <1>a, <2>1, <2>3, <2>4
<1>3. ASSUME NEW r \in Requests, NEW t \in Tokens, PresentToken(r, t) PROVE RequestsHold'
  <2>1. \A q \in Requests \ {r} : req'[q] = req[q]
    BY <1>3, <1>t DEF PresentToken
  <2>2. /\ req'[r].op = "refresh" /\ req'[r].token = t
        /\ req'[r].phase = IF token[t].status = "revoked" THEN "ending" ELSE "locked"
    BY <1>3, <1>t DEF PresentToken, Done
  <2>3. token' = token /\ Issued(t) /\ rowLock[t] = Free /\ rowLock' = [rowLock EXCEPT ![t] = r]
    BY <1>3 DEF PresentToken, TakeLock
  <2>4. HoldsWhatItNeeds(r)'
    BY <1>t, <2>2, <2>3 DEF HoldsWhatItNeeds, Issued
  <2>5. \A q \in Requests \ {r}, v \in Tokens : rowLock[v] = q => rowLock'[v] = q
    BY <1>t, <2>3, SessionConstants
  <2> QED
    BY <1>a, <2>1, <2>3, <2>4, <2>5
<1>4. ASSUME NEW r \in Requests, NEW n \in Tokens, Rotate(r, n) PROVE RequestsHold'
  <2>1. HoldsWhatItNeeds(r)' /\ \A q \in Requests \ {r} : req'[q] = req[q]
    BY <1>4, <1>b DEF Rotate
  <2>2. PICK t \in Tokens :
          /\ rowLock[t] = r /\ token'[n] = Row(token[t].user, token[t].family)
          /\ \A v \in Tokens \ {t, n} : token'[v] = token[v]
    <3>1. /\ req[r].token \in Tokens /\ rowLock[req[r].token] = r
          /\ token'[n] = Row(token[req[r].token].user, token[req[r].token].family)
          /\ \A v \in Tokens \ {req[r].token, n} : token'[v] = token[v]
      BY <1>4, RotateMoves
    <3> QED
      BY <3>1
  <2>3. \A q \in Requests \ {r}, v \in Tokens : rowLock[v] = q => rowLock'[v] = q
    BY <1>4, <1>u DEF Rotate
  <2>4. \A v \in Tokens \ {t} : token[v].status # "revoked" => token'[v].status # "revoked"
    BY <2>2 DEF Row
  <2>5. \A q \in Requests \ {r} : rowLock[t] # q
    BY <2>2
  <2> QED
    BY <1>a, <2>1, <2>3, <2>4, <2>5
<1>5. ASSUME NEW r \in Requests, NEW t \in Tokens, FindToken(r, t) PROVE RequestsHold'
  <2>1. HoldsWhatItNeeds(r)' /\ \A q \in Requests \ {r} : req'[q] = req[q]
    BY <1>5, <1>t DEF FindToken, HoldsWhatItNeeds, Done, Issued
  <2> QED
    BY <1>5, <1>a, <1>c, <2>1 DEF FindToken
<1>6. ASSUME NEW r \in Requests, Refuse(r) \/ Abort(r) PROVE RequestsHold'
  <2>1. HoldsWhatItNeeds(r)' /\ \A q \in Requests \ {r} : req'[q] = req[q]
    BY <1>6, <1>b DEF Refuse, Abort
  <2>2. token' = token /\ \A q \in Requests \ {r}, v \in Tokens : rowLock[v] = q => rowLock'[v] = q
    BY <1>6, <1>u DEF Refuse, Abort
  <2> QED
    BY <1>a, <2>1, <2>2
<1>7. ASSUME NEW r \in Requests, EndFamily(r) \/ LogOut(r) PROVE RequestsHold'
  <2>1. HoldsWhatItNeeds(r)' /\ \A q \in Requests \ {r} : req'[q] = req[q]
    BY <1>7, <1>b DEF EndFamily, LogOut
  <2>2. \A q \in Requests \ {r}, v \in Tokens : rowLock[v] = q => rowLock'[v] = q
    BY <1>7, <1>u DEF EndFamily, LogOut
  <2>3. PICK S \in SUBSET Tokens :
          Revoked(S) /\ (\A u \in S : Issued(u)) /\ \A u \in S : rowLock[u] \in {r, Free}
    BY <1>7, Enders
  <2>4. \A v \in Tokens \ S : token[v].status # "revoked" => token'[v].status # "revoked"
    BY <1>0, <2>3, RevokedKeeps
  <2>5. \A q \in Requests \ {r}, v \in S : rowLock[v] # q
    BY <2>3, SessionConstants
  <2> QED
    BY <1>a, <2>1, <2>2, <2>4, <2>5
<1>9. ASSUME NEW r \in Requests, NEW s \in States, Consume(r, s) PROVE RequestsHold'
  <2>1. HoldsWhatItNeeds(r)' /\ \A q \in Requests \ {r} : req'[q] = req[q]
    BY <1>9, <1>t DEF Consume, HoldsWhatItNeeds, Done
  <2> QED
    BY <1>9, <1>a, <1>c, <2>1 DEF Consume
<1>10. ASSUME NEW r \in Requests, NEW e \in Emails, NEW t \in Tokens, FinishOAuth(r, e, t)
       PROVE  RequestsHold'
  <2>1. HoldsWhatItNeeds(r)' /\ \A q \in Requests \ {r} : req'[q] = req[q]
    BY <1>10, <1>b DEF FinishOAuth
  <2>2. rowLock' = rowLock /\ \A v \in Tokens : token[v].status # "revoked" => token'[v].status # "revoked"
    BY <1>10, <1>s DEF FinishOAuth
  <2> QED
    BY <1>a, <2>1, <2>2
\* Steps of no request.
<1>e. ASSUME req' = req, rowLock' = rowLock,
             \A v \in Tokens : token[v].status # "revoked" => token'[v].status # "revoked"
      PROVE  RequestsHold'
  <2> SUFFICES ASSUME NEW q \in Requests PROVE HoldsWhatItNeeds(q)'
    BY DEF RequestsHold
  <2>1. HoldsWhatItNeeds(q)
    BY <1>0 DEF RequestsHold
  <2> QED
    BY <1>0, <1>e, <2>1 DEF HoldsWhatItNeeds, RowsKept
<1>11. ASSUME NEW e \in Emails, NEW t \in Tokens, SignIn(e, t) PROVE RequestsHold'
  BY <1>11, <1>e, <1>s DEF SignIn
<1>12. ASSUME NEW t \in Tokens, Expire(t) PROVE RequestsHold'
  <2>1. \A v \in Tokens : token[v].status # "revoked" => token'[v].status # "revoked"
    BY <1>0, <1>12, ExpireKeeps
  <2> QED
    BY <1>12, <1>e, <2>1 DEF Expire
<1>13. ASSUME NEW s \in States, NEW u \in Emails \cup {NoOne}, StartOAuth(s, u) PROVE RequestsHold'
  BY <1>13, <1>e DEF StartOAuth
<1>14. CASE UNCHANGED sessionVars
  BY <1>14, <1>e DEF sessionVars
<1> QED
  BY <1>1, <1>2, <1>3, <1>4, <1>5, <1>6, <1>7, <1>9, <1>10, <1>11, <1>12, <1>13, <1>14
  DEF SessionNext
-------------------------------------------------------------------------------
\* A request that ends a session did so before, or has just read its tokens.
BeginsEnd(q) ==
  /\ UNCHANGED <<token, ended, slipped>>
  /\ \/ \E t \in Tokens : PresentToken(q, t) /\ token[t].status = "revoked"
     \/ \E t \in Tokens : FindToken(q, t)

LEMMA EnderIs ==
  ASSUME TokenInvariant, [SessionNext]_sessionVars, NEW q \in Requests, Ending(q)'
  PROVE  req'[q] = req[q] \/ BeginsEnd(q)
<1>0. req \in [Requests -> Request]
  BY DEF TokenInvariant, TablesTyped
<1>d. ASSUME NEW r \in Requests, req' = [req EXCEPT ![r] = Done] PROVE req'[q] = req[q]
  BY <1>0, <1>d DEF Ending, Done
<1>1. ASSUME NEW r \in Requests, NEW e \in Emails, CheckEmail(r, e) PROVE req'[q] = req[q]
  BY <1>0, <1>1 DEF CheckEmail, Ending, Done
<1>2. ASSUME NEW r \in Requests, NEW t \in Tokens, SignUp(r, t) \/ Rotate(r, t)
      PROVE  req'[q] = req[q]
  BY <1>2, <1>d DEF SignUp, Rotate
<1>3. ASSUME NEW r \in Requests, NEW t \in Tokens, PresentToken(r, t)
      PROVE  req'[q] = req[q] \/ BeginsEnd(q)
  <2>1. CASE q # r
    BY <1>0, <1>3, <2>1 DEF PresentToken
  <2>2. CASE q = r
    <3>1. req'[q].op = "refresh"
          /\ req'[q].phase = IF token[t].status = "revoked" THEN "ending" ELSE "locked"
      BY <1>0, <1>3, <2>2 DEF PresentToken, Done
    <3>2. token[t].status = "revoked"
      BY <3>1 DEF Ending
    <3> QED
      BY <1>3, <2>2, <3>2 DEF BeginsEnd, PresentToken
  <2> QED
    BY <2>1, <2>2
<1>4. ASSUME NEW r \in Requests, NEW t \in Tokens, FindToken(r, t)
      PROVE  req'[q] = req[q] \/ BeginsEnd(q)
  <2>1. CASE q # r
    BY <1>0, <1>4, <2>1 DEF FindToken
  <2>2. CASE q = r
    BY <1>4, <2>2 DEF FindToken, BeginsEnd
  <2> QED
    BY <2>1, <2>2
<1>5. ASSUME NEW r \in Requests, Refuse(r) \/ EndFamily(r) \/ LogOut(r) \/ Abort(r)
      PROVE  req'[q] = req[q]
  BY <1>5, <1>d DEF Refuse, EndFamily, LogOut, Abort
<1>6. ASSUME NEW r \in Requests, NEW s \in States, Consume(r, s) PROVE req'[q] = req[q]
  BY <1>0, <1>6 DEF Consume, Ending, Done
<1>7. ASSUME NEW r \in Requests, NEW e \in Emails, NEW t \in Tokens, FinishOAuth(r, e, t)
      PROVE  req'[q] = req[q]
  BY <1>7, <1>d DEF FinishOAuth
<1>8. CASE \/ \E e \in Emails, t \in Tokens : SignIn(e, t)
           \/ \E t \in Tokens : Expire(t)
           \/ \E s \in States, u \in Emails \cup {NoOne} : StartOAuth(s, u)
           \/ UNCHANGED sessionVars
  BY <1>8 DEF SignIn, Expire, StartOAuth, sessionVars
<1> QED
  BY <1>1, <1>2, <1>3, <1>4, <1>5, <1>6, <1>7, <1>8 DEF SessionNext

\* A rotation moves the session of one token that is not revoked to a new one.
LEMMA RotatesOne ==
  ASSUME TokenInvariant, NEW r \in Requests, NEW n \in Tokens, Rotate(r, n)
  PROVE  \E t \in Tokens :
           /\ Issued(t) /\ ~Issued(n) /\ token[t].status # "revoked"
           /\ token'[n] = Row(token[t].user, token[t].family)
           /\ \A v \in Tokens \ {t, n} : token'[v] = token[v]
           /\ ended' = ended /\ slipped \subseteq slipped'
           /\ (\E q \in Requests : t \in req[q].seen) => token[t].family \in slipped'
<1>1. /\ req[r].token \in Tokens /\ Issued(req[r].token) /\ ~Issued(n)
      /\ token[req[r].token].status # "revoked"
      /\ token'[n] = Row(token[req[r].token].user, token[req[r].token].family)
      /\ \A v \in Tokens \ {req[r].token, n} : token'[v] = token[v]
  BY RotateMoves
<1>2. /\ ended' = ended /\ slipped \subseteq slipped'
      /\ (\E q \in Requests : req[r].token \in req[q].seen)
         => token[req[r].token].family \in slipped'
  BY DEF Rotate
<1> QED
  BY <1>1, <1>2

\* Which tokens of a family a step leaves unrevoked: those it found so, the first of a
\* family, or the one a rotation puts in the place of another.
LEMMA Unrevoked ==
  ASSUME TokenInvariant, [SessionNext]_sessionVars, NEW v \in Tokens, Issued(v)',
         token'[v].status # "revoked", token'[v].family \notin slipped'
  PROVE  \/ /\ Issued(v) /\ token[v].status # "revoked"
            /\ token[v].family = token'[v].family
         \/ token'[v].family = v /\ ~Issued(v) /\ UNCHANGED <<ended, slipped>>
         \/ \E t \in Tokens : /\ Issued(t) /\ token[t].status # "revoked"
                              /\ token[t].family = token'[v].family
                              /\ ended' = ended
                              /\ ~\E q \in Requests : t \in req[q].seen
<1>0. TablesTyped /\ RowsKept
  BY RowsAreKept DEF TokenInvariant
<1>1. CASE Issued(v)
  BY <1>0, <1>1 DEF RowsKept
<1>2. CASE ~Issued(v)
  <2>1. CASE UNCHANGED <<token, ended, slipped>>
    BY <1>2, <2>1 DEF Issued
  <2>2. CASE Starts
    <3>1. PICK u \in Emails, t \in Tokens : Start(u, t) /\ UNCHANGED <<ended, slipped>>
      BY <2>2 DEF Starts
    <3>2. v = t /\ token'[v] = Row(u, t)
      BY <1>0, <1>2, <3>1, StartAdds DEF Issued
    <3> QED
      BY <1>2, <3>1, <3>2 DEF Row
  <2>3. CASE Ends
    <3>1. PICK r \in Requests : EndFamily(r) \/ LogOut(r)
      BY <2>3 DEF Ends
    <3>2. req[r].seen \in SUBSET Tokens /\ Revoked(req[r].seen) /\ \A u \in req[r].seen : Issued(u)
      BY <3>1, Enders
    <3> QED
      BY <1>0, <1>2, <3>2, RevokedKeeps
  <2>4. CASE Rotates
    <3>1. PICK r \in Requests, n \in Tokens : Rotate(r, n)
      BY <2>4 DEF Rotates
    <3>2. PICK t \in Tokens :
            /\ Issued(t) /\ ~Issued(n) /\ token[t].status # "revoked"
            /\ token'[n] = Row(token[t].user, token[t].family)
            /\ \A x \in Tokens \ {t, n} : token'[x] = token[x]
            /\ ended' = ended /\ slipped \subseteq slipped'
            /\ (\E q \in Requests : t \in req[q].seen) => token[t].family \in slipped'
      BY <3>1, RotatesOne
    <3>3. v = n
      BY <1>2, <3>2 DEF Issued
    <3>4. token'[v].family = token[t].family
      BY <3>2, <3>3 DEF Row
    <3> QED
      BY <3>2, <3>4
  <2>5. CASE Expires
    BY <1>0, <1>2, <2>5, ExpireKeeps DEF Expires
  <2> QED
    BY <2>1, <2>2, <2>3, <2>4, <2>5, Kinds
<1> QED
  BY <1>1, <1>2

LEMMA SlippedGrows == TokenInvariant /\ [SessionNext]_sessionVars => slipped \subseteq slipped'
<1> SUFFICES ASSUME TokenInvariant, [SessionNext]_sessionVars PROVE slipped \subseteq slipped'
  OBVIOUS
<1>1. CASE Rotates
  BY <1>1 DEF Rotates, Rotate
<1>2. CASE Ends
  BY <1>2 DEF Ends, EndFamily, LogOut
<1> QED
  BY <1>1, <1>2, Kinds DEF Starts, Expires, Expire

LEMMA EndersKept == TokenInvariant /\ [SessionNext]_sessionVars => EndersSee'
<1> SUFFICES ASSUME TokenInvariant, [SessionNext]_sessionVars, NEW q \in Requests, Ending(q)'
             PROVE  /\ \A u \in req'[q].seen : Issued(u)'
                    /\ \A u \in Tokens :
                         (Issued(u)' /\ token'[u].family = token'[req'[q].token].family) =>
                           \/ token'[u].status = "revoked" \/ u \in req'[q].seen
                           \/ token'[u].family \in slipped'
  BY DEF EndersSee
<1>0. /\ TablesTyped /\ RowsKept /\ FamiliesStand /\ RequestsHold /\ OneLiveToken /\ EndersSee
      /\ slipped \subseteq slipped'
  BY RowsAreKept, SlippedGrows DEF TokenInvariant
<1>r. req \in [Requests -> Request] /\ token \in [Tokens -> TokenRow]
  BY <1>0 DEF TablesTyped
<1>1. CASE req'[q] = req[q]
  <2>1. Ending(q)
    BY <1>1 DEF Ending
  <2>2. req[q].op \in {"refresh", "logout"}
    BY <1>0, <2>1 DEF Ending, RequestsHold, HoldsWhatItNeeds
  <2>3. req[q].token \in Tokens /\ Issued(req[q].token)
    BY <1>0, <2>2 DEF RequestsHold, HoldsWhatItNeeds
  <2>4. PICK t \in Tokens : t = req[q].token /\ Issued(t) /\ token'[t].family = token[t].family
    BY <1>0, <2>3 DEF RowsKept
  <2>5. req[q].seen \in SUBSET Tokens /\ \A u \in req[q].seen : Issued(u)
    BY <1>0, <1>r, <2>1 DEF EndersSee, Request
  <2>6. \A u \in req'[q].seen : Issued(u)'
    BY <1>0, <1>1, <2>5 DEF RowsKept
  <2>7. ASSUME NEW u \in Tokens, Issued(u)', token'[u].family = token[t].family,
               token'[u].status # "revoked", token'[u].family \notin slipped'
        PROVE  u \in req[q].seen
    <3>1. \A x \in Tokens : Issued(x) /\ token[x].family = token[t].family
                              /\ token[x].status # "revoked" => x \in req[q].seen
      BY <1>0, <2>1, <2>4, <2>7 DEF EndersSee
    <3>2. token[t].family # u \/ Issued(u)
      BY <1>0, <2>4 DEF FamiliesStand
    <3> QED
      BY <2>7, <3>1, <3>2, Unrevoked
  <2> QED
    BY <1>1, <2>4, <2>6, <2>7
<1>2. CASE BeginsEnd(q)
  <2>0. UNCHANGED <<token, slipped>>
    BY <1>2 DEF BeginsEnd
  <2>1. ASSUME NEW t \in Tokens, PresentToken(q, t), token[t].status = "revoked"
        PROVE  /\ req'[q].token = t
               /\ req'[q].seen = {u \in Family(token[t].family) : token[u].status # "revoked"}
    BY <1>r, <2>1 DEF PresentToken, Done
  <2>2. ASSUME NEW t \in Tokens, PresentToken(q, t), token[t].status = "revoked"
        PROVE  /\ \A u \in req'[q].seen : Issued(u)'
               /\ \A u \in Tokens :
                    (Issued(u)' /\ token'[u].family = token'[req'[q].token].family) =>
                      token'[u].status = "revoked" \/ u \in req'[q].seen
    BY <2>0, <2>1, <2>2 DEF Family, Issued
  <2>3. ASSUME NEW t \in Tokens, FindToken(q, t)
        PROVE  /\ \A u \in req'[q].seen : Issued(u)'
               /\ \A u \in Tokens :
                    (Issued(u)' /\ token'[u].family = token'[req'[q].token].family) =>
                      token'[u].status = "revoked" \/ u \in req'[q].seen
    <3>1. req'[q].token = t /\ req'[q].seen = {t} /\ Issued(t) /\ token[t].status # "revoked"
      BY <1>r, <2>3 DEF FindToken, Done
    <3>2. \A u \in Tokens : Issued(u) /\ token[u].status # "revoked" =>
                              token[u].status \in {"live", "expired"}
      BY <1>r DEF Issued, TokenRow
    <3>3. \A u \in Tokens : Issued(u) /\ token[u].family = token[t].family =>
                              token[u].status = "revoked" \/ u = t
      BY <1>0, <3>1, <3>2 DEF OneLiveToken
    <3> QED
      BY <2>0, <3>1, <3>3 DEF Issued
  <2> QED
    BY <1>2, <2>2, <2>3 DEF BeginsEnd
<1> QED
  BY <1>1, <1>2, EnderIs

LEMMA LogoutsKept == TokenInvariant /\ [SessionNext]_sessionVars => LogoutSees'
<1> SUFFICES ASSUME TokenInvariant, [SessionNext]_sessionVars, NEW q \in Requests,
                    req'[q].op = "logout"
             PROVE  req'[q].seen = {req'[q].token}
  BY DEF LogoutSees
<1>0. req \in [Requests -> Request] /\ LogoutSees
  BY DEF TokenInvariant, TablesTyped
<1>1. CASE req'[q] = req[q]
  BY <1>0, <1>1 DEF LogoutSees
<1>2. ASSUME NEW t \in Tokens, PresentToken(q, t) PROVE FALSE
  BY <1>0, <1>2 DEF PresentToken, Done
<1>3. ASSUME NEW t \in Tokens, FindToken(q, t) PROVE req'[q].seen = {req'[q].token}
  BY <1>0, <1>3 DEF FindToken, Done
<1>4. Ending(q)'
  BY DEF Ending
<1> QED
  BY <1>1, <1>2, <1>3, <1>4, EnderIs DEF BeginsEnd

\* The families a step ends are issued, and nothing of them is left but what slipped.
LEMMA EndsFamily ==
  ASSUME TokenInvariant, [SessionNext]_sessionVars, NEW f \in ended', f \notin ended
  PROVE  /\ f \in Tokens /\ Issued(f)'
         /\ \A v \in Tokens : Issued(v)' /\ token'[v].family = f /\ f \notin slipped' =>
                                token'[v].status = "revoked"
<1>0. TablesTyped /\ RowsKept /\ FamiliesStand /\ EndersSee
  BY RowsAreKept DEF TokenInvariant
<1>1. Ends
  BY Kinds, RotatesOne DEF Starts, Rotates, Expires, Expire
<1>2. PICK r \in Requests : EndFamily(r) \/ LogOut(r)
  BY <1>1 DEF Ends
<1>3. /\ req[r].token \in Tokens /\ Issued(req[r].token) /\ Ending(r)
      /\ req[r].seen \in SUBSET Tokens /\ Revoked(req[r].seen) /\ \A u \in req[r].seen : Issued(u)
      /\ ended' = ended \cup {token[req[r].token].family} /\ slipped' = slipped
  BY <1>2, Enders
<1>4. f = token[req[r].token].family
  BY <1>3
<1>5. f \in Tokens /\ Issued(f)
  BY <1>0, <1>3, <1>4 DEF FamiliesStand
<1>6. \A v \in Tokens : /\ Issued(v)' <=> Issued(v)
                        /\ token'[v].family = token[v].family
                        /\ token'[v].status = IF v \in req[r].seen THEN "revoked" ELSE token[v].status
  BY <1>0, <1>3, RevokedKeeps
<1>7. \A v \in Tokens : Issued(v) /\ token[v].family = f /\ f \notin slipped =>
                          token[v].status = "revoked" \/ v \in req[r].seen
  BY <1>0, <1>3, <1>4 DEF EndersSee
<1> QED
  BY <1>3, <1>5, <1>6, <1>7

LEMMA EndedStayOver ==
  TokenInvariant /\ [SessionNext]_sessionVars => EndedWereIssued' /\ EndedIsOver'
<1> SUFFICES ASSUME TokenInvariant, [SessionNext]_sessionVars
             PROVE  EndedWereIssued' /\ EndedIsOver'
  OBVIOUS
<1>0. /\ TablesTyped /\ RowsKept /\ EndedWereIssued /\ EndedIsOver
      /\ slipped \subseteq slipped' /\ ended \subseteq Tokens
  BY RowsAreKept, SlippedGrows DEF TokenInvariant, TablesTyped
<1>1. EndedWereIssued'
  <2> SUFFICES ASSUME NEW f \in ended' PROVE Issued(f)'
    BY DEF EndedWereIssued
  <2>1. CASE f \in ended
    BY <1>0, <2>1 DEF EndedWereIssued, RowsKept
  <2> QED
    BY <2>1, EndsFamily
<1>2. EndedIsOver'
  <2> SUFFICES ASSUME NEW v \in Tokens, Issued(v)', token'[v].family \in ended',
                      token'[v].family \notin slipped', token'[v].status # "revoked"
               PROVE  FALSE
    BY DEF EndedIsOver
  <2>1. token'[v].family \in ended
    BY EndsFamily
  <2>2. ~\E t \in Tokens : /\ Issued(t) /\ token[t].status # "revoked"
                           /\ token[t].family = token'[v].family
    BY <1>0, <2>1 DEF EndedIsOver
  <2>3. token'[v].family = v => Issued(v)
    BY <1>0, <2>1 DEF EndedWereIssued
  <2> QED
    BY <2>2, <2>3, Unrevoked
<1> QED
  BY <1>1, <1>2

LEMMA InvariantStays == TokenInvariant /\ [SessionNext]_sessionVars => TokenInvariant'
BY TypesKept, RequestsKept, FamiliesKept, OneStaysLive, EndersKept, LogoutsKept, EndedStayOver
DEF TokenInvariant

LEMMA InvariantHolds == SessionSpec => []TokenInvariant
BY TokensStart, InvariantStays, PTL DEF SessionSpec

-------------------------------------------------------------------------------
\* The tables keep their types, whatever requests overlap (modules/auth).
THEOREM SessionTypesHold == SessionSpec => []SessionTypeOK
<1>1. TokenInvariant => SessionTypeOK
  BY TypesAgree DEF TokenInvariant
<1> QED
  BY <1>1, InvariantHolds, PTL

\* refresh locks the row of the token it is given: however rotations, replays and logouts
\* overlap, a family has at most one token that a refresh would take.
THEOREM TokensDoNotFork == SessionSpec => []OneLiveToken
<1>1. TokenInvariant => OneLiveToken
  BY DEF TokenInvariant
<1> QED
  BY <1>1, InvariantHolds, PTL

\* revoke_family and logout: once either has committed, every token of the session is
\* revoked, but for a rotation of it that committed in between.
THEOREM EndedAreOver == SessionSpec => []EndedIsOver
<1>1. TokenInvariant => EndedIsOver
  BY DEF TokenInvariant
<1> QED
  BY <1>1, InvariantHolds, PTL

-------------------------------------------------------------------------------
\* A callback that is under way is the only one of its state, which it has consumed and
\* which has started no session yet.
Callback(q) == req[q].op = "callback"
CallbacksAlone ==
  /\ \A s \in States : state[s].status # "consumed" => granted[s] = 0
  /\ \A q \in Requests : Callback(q) =>
       state[req[q].state].status = "consumed" /\ granted[req[q].state] = 0
  /\ \A p, q \in Requests : Callback(p) /\ Callback(q) /\ req[p].state = req[q].state => p = q

StateInvariant == TokenInvariant /\ CallbacksAlone /\ OneSessionPerState

LEMMA StatesStart == SessionInit => StateInvariant
<1> SUFFICES ASSUME SessionInit PROVE StateInvariant
  OBVIOUS
<1>1. CallbacksAlone /\ OneSessionPerState
  BY DEF SessionInit, CallbacksAlone, Callback, OneSessionPerState, Done
<1> QED
  BY <1>1, TokensStart DEF StateInvariant

LEMMA StatesStay == StateInvariant /\ [SessionNext]_sessionVars => StateInvariant'
<1> SUFFICES ASSUME StateInvariant, [SessionNext]_sessionVars
             PROVE  CallbacksAlone' /\ OneSessionPerState'
  BY InvariantStays DEF StateInvariant
<1>0. TokenInvariant /\ CallbacksAlone /\ OneSessionPerState
  BY DEF StateInvariant
<1>t. /\ req \in [Requests -> Request] /\ state \in [States -> StateRow]
      /\ granted \in [States -> Nat]
      /\ \A q \in Requests : Callback(q) => req[q].state \in States
  BY <1>0 DEF TokenInvariant, TablesTyped, RequestsHold, HoldsWhatItNeeds, Callback
\* A step that starts no callback and grants nothing.
<1>a. ASSUME UNCHANGED <<state, granted>>, \A q \in Requests : Callback(q)' => req'[q] = req[q]
      PROVE  CallbacksAlone' /\ OneSessionPerState'
  BY <1>0, <1>a DEF CallbacksAlone, OneSessionPerState, Callback
<1>d. ASSUME NEW r \in Requests, req' = [req EXCEPT ![r] = Done]
      PROVE  ~Callback(r)' /\ \A q \in Requests \ {r} : req'[q] = req[q]
  BY <1>t, <1>d DEF Callback, Done
<1>1. ASSUME NEW r \in Requests,
             \/ \E e \in Emails : CheckEmail(r, e)
             \/ \E t \in Tokens : PresentToken(r, t) \/ FindToken(r, t)
      PROVE  CallbacksAlone' /\ OneSessionPerState'
  <2>1. UNCHANGED <<state, granted>>
    BY <1>1 DEF CheckEmail, PresentToken, FindToken
  <2>2. ~Callback(r)' /\ \A q \in Requests \ {r} : req'[q] = req[q]
    <3>1. CASE \E e \in Emails : CheckEmail(r, e)
      BY <1>t, <3>1 DEF CheckEmail, Callback, Done
    <3>2. CASE \E t \in Tokens : PresentToken(r, t)
      BY <1>t, <3>2 DEF PresentToken, Callback, Done
    <3>3. CASE \E t \in Tokens : FindToken(r, t)
      BY <1>t, <3>3 DEF FindToken, Callback, Done
    <3> QED
      BY <1>1, <3>1, <3>2, <3>3
  <2> QED
    BY <1>a, <2>1, <2>2
<1>2. ASSUME NEW r \in Requests,
             \/ \E t \in Tokens : SignUp(r, t) \/ Rotate(r, t)
             \/ Refuse(r) \/ EndFamily(r) \/ LogOut(r) \/ Abort(r)
      PROVE  CallbacksAlone' /\ OneSessionPerState'
  <2>1. UNCHANGED <<state, granted>> /\ req' = [req EXCEPT ![r] = Done]
    BY <1>2 DEF SignUp, Rotate, Refuse, EndFamily, LogOut, Abort
  <2> QED
    BY <1>a, <1>d, <2>1
<1>3. ASSUME NEW r \in Requests, NEW s \in States, Consume(r, s)
      PROVE  CallbacksAlone' /\ OneSessionPerState'
  <2>1. /\ \A q \in Requests \ {r} : req'[q] = req[q]
        /\ req'[r].op = "callback" /\ req'[r].state = s
    BY <1>t, <1>3 DEF Consume, Done
  <2>2. state[s].status = "live" /\ granted' = granted /\ granted[s] = 0
    BY <1>0, <1>3 DEF Consume, CallbacksAlone
  <2>3. state'[s].status = "consumed" /\ \A x \in States \ {s} : state'[x] = state[x]
    BY <1>t, <1>3 DEF Consume, Marked, StateRow
  <2>4. \A q \in Requests : Callback(q) => req[q].state # s
    BY <1>0, <2>2 DEF CallbacksAlone
  <2>5. \A q \in Requests : Callback(q)' => req'[q].state \in States
    BY <1>t, <2>1 DEF Callback
  <2> QED
    BY <1>0, <1>t, <2>1, <2>2, <2>3, <2>4, <2>5 DEF CallbacksAlone, OneSessionPerState, Callback
<1>4. ASSUME NEW r \in Requests, NEW e \in Emails, NEW t \in Tokens, FinishOAuth(r, e, t)
      PROVE  CallbacksAlone' /\ OneSessionPerState'
  <2>1. Callback(r) /\ state' = state /\ req' = [req EXCEPT ![r] = Done]
    BY <1>4 DEF FinishOAuth, Callback
  <2>2. PICK s \in States : s = req[r].state
    BY <1>t, <2>1
  <2>3. state[s].status = "consumed" /\ granted[s] = 0
    BY <1>0, <2>1, <2>2 DEF CallbacksAlone
  <2>4. granted'[s] = 1 /\ \A x \in States \ {s} : granted'[x] = granted[x]
    BY <1>t, <1>4, <2>2, <2>3 DEF FinishOAuth
  <2>5. ~Callback(r)' /\ \A q \in Requests \ {r} : req'[q] = req[q]
    BY <1>d, <2>1
  <2>6. \A q \in Requests \ {r} : Callback(q) => req[q].state \in States \ {s}
    BY <1>0, <1>t, <2>1, <2>2 DEF CallbacksAlone
  <2>7. CallbacksAlone'
    BY <1>0, <2>1, <2>3, <2>4, <2>5, <2>6 DEF CallbacksAlone, Callback
  <2>8. OneSessionPerState'
    BY <1>0, <2>4 DEF OneSessionPerState
  <2> QED
    BY <2>7, <2>8
<1>5. ASSUME NEW s \in States, NEW u \in Emails \cup {NoOne}, StartOAuth(s, u)
      PROVE  CallbacksAlone' /\ OneSessionPerState'
  <2>1. granted' = granted /\ req' = req /\ state[s].status = "absent"
    BY <1>5 DEF StartOAuth
  <2>2. \A x \in States \ {s} : state'[x] = state[x]
    BY <1>t, <1>5 DEF StartOAuth
  <2>3. granted[s] = 0 /\ \A q \in Requests : Callback(q) => req[q].state # s
    BY <1>0, <2>1 DEF CallbacksAlone
  <2> QED
    BY <1>0, <1>t, <2>1, <2>2, <2>3 DEF CallbacksAlone, OneSessionPerState, Callback
<1>6. CASE \/ \E e \in Emails, t \in Tokens : SignIn(e, t)
           \/ \E t \in Tokens : Expire(t)
           \/ UNCHANGED sessionVars
  BY <1>6, <1>a DEF SignIn, Expire, sessionVars
<1> QED
  BY <1>1, <1>2, <1>3, <1>4, <1>5, <1>6 DEF SessionNext

\* handle_oauth_callback consumes its state in a transaction of its own before it talks to
\* the provider: however callbacks overlap, die or are repeated, a state starts one session
\* at most.
THEOREM StatesGrantOnce == SessionSpec => []OneSessionPerState
<1>1. SessionSpec => []StateInvariant
  BY StatesStart, StatesStay, PTL DEF SessionSpec
<1>2. StateInvariant => OneSessionPerState
  BY DEF StateInvariant
<1> QED
  BY <1>1, <1>2, PTL

-------------------------------------------------------------------------------
(***************************************************************************)
(* What holds of the invitations for any number of members, invitations    *)
(* and overlapping calls of invite_member.                                 *)
(***************************************************************************)
InviteRow == [status : {"absent", "pending", "lapsed"}, email : Invitees \cup {NoInvitee}]
AskRow == [phase : {"idle", "asked", "counted"}, email : Invitees \cup {NoInvitee},
           stale : BOOLEAN]

\* The calls that have counted the seats and not inserted yet.
Counted == {r \in Admins : ask[r].phase = "counted"}

\* A count nobody has made stale leaves a seat.
CountsLeaveASeat ==
  crowded \/ \A r \in Counted : ~ask[r].stale => SeatsTaken < SeatLimit

SeatInvariant == WorkspaceTypeOK /\ SeatsHold /\ CountsLeaveASeat

\* However many counts are stale, each call that has counted but the last may exceed the
\* limit by one seat at most.
OverbookingBounded ==
  SeatsTaken + Cardinality(Counted) < SeatLimit + Cardinality(Admins)

LEMMA WorkspaceTypesStart == WorkspaceInit => WorkspaceTypeOK
<1> SUFFICES ASSUME WorkspaceInit PROVE WorkspaceTypeOK
  OBVIOUS
<1>1. NoInvite \in InviteRow /\ NoAsk \in AskRow
  BY DEF NoInvite, NoAsk, InviteRow, AskRow
<1>2. invite \in [Invites -> InviteRow] /\ ask \in [Admins -> AskRow] /\ crowded \in BOOLEAN
  BY <1>1 DEF WorkspaceInit
<1>3. /\ key \in [Keys -> {"absent", "live", "revoked"}]
      /\ found \in [Processes -> SUBSET Keys] /\ cache \in [Processes -> SUBSET Keys]
  BY DEF WorkspaceInit
<1> QED
  BY <1>2, <1>3 DEF WorkspaceTypeOK, InviteRow, AskRow

LEMMA WorkspaceTypesStay == WorkspaceTypeOK /\ [WorkspaceNext]_workspaceVars => WorkspaceTypeOK'
<1> SUFFICES ASSUME WorkspaceTypeOK, [WorkspaceNext]_workspaceVars PROVE WorkspaceTypeOK'
  OBVIOUS
<1>0. /\ invite \in [Invites -> InviteRow] /\ ask \in [Admins -> AskRow] /\ crowded \in BOOLEAN
      /\ key \in [Keys -> {"absent", "live", "revoked"}]
      /\ found \in [Processes -> SUBSET Keys] /\ cache \in [Processes -> SUBSET Keys]
  BY DEF WorkspaceTypeOK, InviteRow, AskRow
<1>a. ASSUME UNCHANGED keyVars, invite' \in [Invites -> InviteRow], ask' \in [Admins -> AskRow],
             crowded' \in BOOLEAN
      PROVE  WorkspaceTypeOK'
  BY <1>0, <1>a DEF WorkspaceTypeOK, InviteRow, AskRow, keyVars
<1>b. ASSUME UNCHANGED inviteVars, key' \in [Keys -> {"absent", "live", "revoked"}],
             found' \in [Processes -> SUBSET Keys], cache' \in [Processes -> SUBSET Keys]
      PROVE  WorkspaceTypeOK'
  BY <1>0, <1>b DEF WorkspaceTypeOK, InviteRow, AskRow, inviteVars
<1>c. NoAsk \in AskRow
  BY DEF NoAsk, AskRow
<1>1. ASSUME NEW r \in Admins, NEW e \in Invitees, EmailStatus(r, e) PROVE WorkspaceTypeOK'
  <2>1. [NoAsk EXCEPT !.phase = "asked", !.email = e] \in AskRow
    BY DEF NoAsk, AskRow
  <2> QED
    BY <1>0, <1>1, <1>a, <2>1 DEF EmailStatus
<1>2. ASSUME NEW r \in Admins, CountSeats(r) PROVE WorkspaceTypeOK'
  <2>1. [ask[r] EXCEPT !.phase = "counted"] \in AskRow
    BY <1>0 DEF AskRow
  <2> QED
    BY <1>0, <1>2, <1>a, <1>c, <2>1 DEF CountSeats
<1>3. ASSUME NEW r \in Admins, NEW i \in Invites, InsertInvite(r, i) PROVE WorkspaceTypeOK'
  <2>1. CASE PendingRow(ask[r].email) # {}
    BY <1>0, <1>3, <1>a, <1>c, <2>1 DEF InsertInvite
  <2>2. CASE PendingRow(ask[r].email) = {}
    <3>1. ask[r].email \in Invitees \cup {NoInvitee}
      BY <1>0 DEF AskRow
    <3>2. invite' \in [Invites -> InviteRow]
      BY <1>0, <1>3, <2>2, <3>1 DEF InsertInvite, InviteRow
    <3>3. \A q \in Admins : [ask[q] EXCEPT !.stale = @ \/ ask[q].phase = "counted"] \in AskRow
      BY <1>0 DEF AskRow
    <3>4. ask' \in [Admins -> AskRow]
      BY <1>3, <1>c, <2>2, <3>3 DEF InsertInvite
    <3>5. crowded' \in BOOLEAN
      BY <1>0, <1>3, <2>2 DEF InsertInvite, AskRow
    <3> QED
      BY <1>3, <1>a, <3>2, <3>4, <3>5 DEF InsertInvite
  <2> QED
    BY <2>1, <2>2
<1>4. ASSUME NEW i \in Invites, Lapse(i) PROVE WorkspaceTypeOK'
  BY <1>0, <1>4, <1>a DEF Lapse, InviteRow
<1>5. ASSUME NEW k \in Keys, CreateKey(k) \/ RevokeKey(k) PROVE WorkspaceTypeOK'
  BY <1>0, <1>5, <1>b DEF CreateKey, RevokeKey
<1>6. ASSUME NEW k \in Keys, NEW p \in Processes,
             ResolveKey(p, k) \/ StoreKey(p, k) \/ ForgetKey(p, k)
      PROVE  WorkspaceTypeOK'
  BY <1>0, <1>6, <1>b DEF ResolveKey, StoreKey, ForgetKey
<1>7. CASE UNCHANGED workspaceVars
  BY <1>0, <1>7, <1>a DEF workspaceVars, inviteVars, keyVars
<1> QED
  BY <1>1, <1>2, <1>3, <1>4, <1>5, <1>6, <1>7 DEF WorkspaceNext, InviteNext, KeyNext

\* What a step of the invitations does to the seats that are taken.
LEMMA SeatsAreCounted ==
  ASSUME WorkspaceTypeOK, WorkspaceTypeOK'
  PROVE  /\ Cardinality(Members) \in Nat /\ SeatLimit \in Nat
         /\ SeatsTaken \in Nat /\ SeatsTaken' \in Nat
         /\ UNCHANGED invite => SeatsTaken' = SeatsTaken
         /\ \A i \in Invites : Lapse(i) => SeatsTaken' <= SeatsTaken
         /\ \A r \in Admins, i \in Invites :
              InsertInvite(r, i) /\ invite' # invite => SeatsTaken' = SeatsTaken + 1
<1>0. /\ IsFiniteSet(Outstanding) /\ IsFiniteSet(Outstanding')
      /\ Cardinality(Outstanding) \in Nat /\ Cardinality(Outstanding') \in Nat
      /\ Cardinality(Members) \in Nat /\ SeatLimit \in Nat
  <2>1. Outstanding \subseteq Invites /\ Outstanding' \subseteq Invites
    BY DEF Outstanding
  <2>2. IsFiniteSet(Outstanding) /\ IsFiniteSet(Outstanding')
    BY <2>1, WorkspaceConstants, FS_Subset
  <2> QED
    BY <2>2, WorkspaceConstants, FS_CardinalityType
<1>1. SeatsTaken \in Nat /\ SeatsTaken' \in Nat
  BY <1>0 DEF SeatsTaken
<1>2. UNCHANGED invite => SeatsTaken' = SeatsTaken
  BY DEF SeatsTaken, Outstanding
<1>3. ASSUME NEW i \in Invites, Lapse(i) PROVE SeatsTaken' <= SeatsTaken
  <2>1. Outstanding' \subseteq Outstanding
    BY <1>3 DEF Lapse, Outstanding, WorkspaceTypeOK
  <2>2. Cardinality(Outstanding') <= Cardinality(Outstanding)
    BY <1>0, <2>1, FS_Subset
  <2> QED
    BY <1>0, <2>2 DEF SeatsTaken
<1>4. ASSUME NEW r \in Admins, NEW i \in Invites, InsertInvite(r, i), invite' # invite
      PROVE  SeatsTaken' = SeatsTaken + 1
  <2>1. /\ invite' = [invite EXCEPT ![i] = [status |-> "pending", email |-> ask[r].email]]
        /\ invite[i].status = "absent"
    BY <1>4 DEF InsertInvite
  <2>2. Outstanding' = Outstanding \cup {i} /\ i \notin Outstanding
    BY <2>1 DEF Outstanding, WorkspaceTypeOK
  <2>3. Cardinality(Outstanding') = Cardinality(Outstanding) + 1
    BY <1>0, <2>2, FS_AddElement
  <2> QED
    BY <1>0, <2>3 DEF SeatsTaken
<1> QED
  BY <1>0, <1>1, <1>2, <1>3, <1>4

LEMMA SeatsStart == WorkspaceInit => SeatInvariant
<1> SUFFICES ASSUME WorkspaceInit PROVE SeatInvariant
  OBVIOUS
<1>1. WorkspaceTypeOK
  BY WorkspaceTypesStart
<1>2. Outstanding = {} /\ Counted = {}
  BY DEF WorkspaceInit, Outstanding, Counted, NoInvite, NoAsk
<1>3. Cardinality(Outstanding) = 0 /\ Cardinality(Members) \in Nat
  BY <1>2, FS_EmptySet, FS_CardinalityType, WorkspaceConstants
<1> QED
  BY <1>1, <1>2, <1>3, WorkspaceConstants DEF SeatInvariant, SeatsHold, CountsLeaveASeat

LEMMA SeatsStay == SeatInvariant /\ [WorkspaceNext]_workspaceVars => SeatInvariant'
<1> SUFFICES ASSUME SeatInvariant, [WorkspaceNext]_workspaceVars PROVE SeatInvariant'
  OBVIOUS
<1>t. WorkspaceTypeOK /\ WorkspaceTypeOK'
  BY WorkspaceTypesStay DEF SeatInvariant
<1>0. /\ SeatsTaken \in Nat /\ SeatsTaken' \in Nat /\ SeatLimit \in Nat
      /\ crowded \/ SeatsTaken <= SeatLimit
      /\ crowded \/ \A r \in Counted : ~ask[r].stale => SeatsTaken < SeatLimit
  BY <1>t, SeatsAreCounted DEF SeatInvariant, SeatsHold, CountsLeaveASeat, SeatsTaken
<1>a. ASSUME crowded' \/ SeatsTaken' <= SeatLimit,
             crowded' \/ \A r \in Counted' : ~ask'[r].stale => SeatsTaken' < SeatLimit
      PROVE  SeatInvariant'
  BY <1>t, <1>a DEF SeatInvariant, SeatsHold, CountsLeaveASeat, SeatsTaken
<1>1. ASSUME NEW r \in Admins, NEW e \in Invitees, EmailStatus(r, e) PROVE SeatInvariant'
  <2>1. Counted' \subseteq Counted /\ \A q \in Counted' : ask'[q] = ask[q]
    BY <1>1, <1>t DEF EmailStatus, Counted, NoAsk, WorkspaceTypeOK
  <2>2. SeatsTaken' = SeatsTaken /\ crowded' = crowded
    BY <1>1, <1>t, SeatsAreCounted DEF EmailStatus
  <2> QED
    BY <1>0, <1>a, <2>1, <2>2
<1>2. ASSUME NEW r \in Admins, CountSeats(r) PROVE SeatInvariant'
  <2>1. SeatsTaken' = SeatsTaken /\ crowded' = crowded
    BY <1>2, <1>t, SeatsAreCounted DEF CountSeats
  <2>2. \A q \in Admins \ {r} : ask'[q] = ask[q]
    BY <1>2, <1>t DEF CountSeats, WorkspaceTypeOK
  <2>3. ask'[r].phase = "counted" => SeatsTaken < SeatLimit
    BY <1>0, <1>2, <1>t DEF CountSeats, NoAsk, WorkspaceTypeOK
  <2> QED
    BY <1>0, <1>a, <2>1, <2>2, <2>3 DEF Counted
<1>3. ASSUME NEW r \in Admins, NEW i \in Invites, InsertInvite(r, i) PROVE SeatInvariant'
  <2>1. CASE PendingRow(ask[r].email) # {}
    <3>1. SeatsTaken' = SeatsTaken /\ crowded' = crowded
      BY <1>3, <1>t, <2>1, SeatsAreCounted DEF InsertInvite
    <3>2. Counted' \subseteq Counted /\ \A q \in Counted' : ask'[q] = ask[q]
      BY <1>3, <1>t, <2>1 DEF InsertInvite, Counted, NoAsk, WorkspaceTypeOK
    <3> QED
      BY <1>0, <1>a, <3>1, <3>2
  <2>2. CASE PendingRow(ask[r].email) = {}
    <3>1. /\ invite' = [invite EXCEPT ![i] = [status |-> "pending", email |-> ask[r].email]]
          /\ invite[i].status = "absent" /\ ask[r].phase = "counted"
          /\ crowded' = (crowded \/ ask[r].stale)
          /\ ask' = [q \in Admins |->
                       IF q = r THEN NoAsk
                       ELSE [ask[q] EXCEPT !.stale = @ \/ ask[q].phase = "counted"]]
      BY <1>3, <2>2 DEF InsertInvite
    <3>2. invite' # invite
      BY <1>t, <3>1 DEF WorkspaceTypeOK
    <3>3. SeatsTaken' = SeatsTaken + 1
      BY <1>3, <1>t, <3>2, SeatsAreCounted
    <3>4. crowded' \/ SeatsTaken' <= SeatLimit
      <4>1. CASE crowded \/ ask[r].stale
        BY <3>1, <4>1
      <4>2. CASE ~crowded /\ ~ask[r].stale
        <5>1. r \in Counted
          BY <3>1 DEF Counted
        <5> QED
          BY <1>0, <3>3, <4>2, <5>1
      <4> QED
        BY <4>1, <4>2
    <3>5. \A q \in Counted' : ask'[q].stale
      BY <1>t, <3>1 DEF Counted, NoAsk, WorkspaceTypeOK
    <3> QED
      BY <1>a, <3>4, <3>5
  <2> QED
    BY <2>1, <2>2
<1>4. ASSUME NEW i \in Invites, Lapse(i) PROVE SeatInvariant'
  <2>1. SeatsTaken' <= SeatsTaken /\ UNCHANGED <<ask, crowded>>
    BY <1>4, <1>t, SeatsAreCounted DEF Lapse
  <2> QED
    BY <1>0, <1>a, <2>1 DEF Counted
<1>5. CASE UNCHANGED inviteVars
  <2>1. SeatsTaken' = SeatsTaken /\ UNCHANGED <<ask, crowded>>
    BY <1>5, <1>t, SeatsAreCounted DEF inviteVars
  <2> QED
    BY <1>0, <1>a, <2>1 DEF Counted
<1>6. KeyNext \/ UNCHANGED workspaceVars => UNCHANGED inviteVars
  BY DEF KeyNext, CreateKey, RevokeKey, ResolveKey, StoreKey, ForgetKey, workspaceVars
<1> QED
  BY <1>1, <1>2, <1>3, <1>4, <1>5, <1>6 DEF WorkspaceNext, InviteNext

\* invite_member counts the seats before it inserts its row: whatever calls overlap, the
\* members and the outstanding invitations keep within the limit as long as no invitation
\* is inserted on a count that another has made stale (modules/members/service.py:145).
THEOREM SeatsAreHeld == WorkspaceSpec => []SeatsHold
<1>1. SeatInvariant => SeatsHold
  BY DEF SeatInvariant
<1> QED
  BY <1>1, SeatsStart, SeatsStay, PTL DEF WorkspaceSpec

LEMMA CountsAreFinite ==
  /\ Cardinality(Admins) > 0
  /\ IsFiniteSet(Counted) /\ Cardinality(Counted) \in Nat /\ Cardinality(Admins) \in Nat
  /\ Cardinality(Counted) <= Cardinality(Admins)
<1>1. Counted \subseteq Admins
  BY DEF Counted
<1>2. Cardinality(Admins) > 0
  BY WorkspaceConstants, FS_EmptySet, FS_CardinalityType
<1> QED
  BY <1>1, <1>2, WorkspaceConstants, FS_Subset, FS_CardinalityType

\* Whatever has been counted, the calls under way that have counted can overbook the
\* workspace by a seat each.
LEMMA OverbookingStays ==
  WorkspaceTypeOK /\ OverbookingBounded /\ [WorkspaceNext]_workspaceVars => OverbookingBounded'
<1> SUFFICES ASSUME WorkspaceTypeOK, OverbookingBounded, [WorkspaceNext]_workspaceVars
             PROVE  OverbookingBounded'
  OBVIOUS
<1>t. WorkspaceTypeOK'
  BY WorkspaceTypesStay
<1>0. /\ SeatsTaken \in Nat /\ SeatsTaken' \in Nat /\ SeatLimit \in Nat
      /\ IsFiniteSet(Counted) /\ Cardinality(Counted) \in Nat /\ Cardinality(Admins) \in Nat
      /\ IsFiniteSet(Counted') /\ Cardinality(Counted') \in Nat
      /\ Cardinality(Counted') <= Cardinality(Admins)
  <2>1. IsFiniteSet(Counted') /\ Cardinality(Counted') \in Nat
        /\ Cardinality(Counted') <= Cardinality(Admins)
    <3>1. Counted' \subseteq Admins
      BY DEF Counted
    <3> QED
      BY <3>1, WorkspaceConstants, FS_Subset, FS_CardinalityType
  <2> QED
    BY <1>t, <2>1, SeatsAreCounted, CountsAreFinite
<1>a. ASSUME SeatsTaken' <= SeatsTaken, Counted' \subseteq Counted PROVE OverbookingBounded'
  <2>1. Cardinality(Counted') <= Cardinality(Counted)
    BY <1>0, <1>a, FS_Subset
  <2> QED
    BY <1>0, <1>a, <2>1 DEF OverbookingBounded
<1>1. ASSUME NEW r \in Admins, NEW e \in Invitees, EmailStatus(r, e) PROVE OverbookingBounded'
  <2>1. Counted' \subseteq Counted
    BY <1>1 DEF EmailStatus, Counted, NoAsk, WorkspaceTypeOK
  <2>2. SeatsTaken' <= SeatsTaken
    BY <1>0, <1>1, <1>t, SeatsAreCounted DEF EmailStatus
  <2> QED
    BY <1>a, <2>1, <2>2
<1>2. ASSUME NEW r \in Admins, CountSeats(r) PROVE OverbookingBounded'
  <2>1. SeatsTaken' = SeatsTaken
    BY <1>2, <1>t, SeatsAreCounted DEF CountSeats
  <2>2. CASE SeatsTaken >= SeatLimit
    <3>1. Counted' \subseteq Counted
      BY <1>2, <2>2 DEF CountSeats, Counted, NoAsk, WorkspaceTypeOK
    <3> QED
      BY <1>0, <1>a, <2>1, <3>1
  <2>3. CASE ~(SeatsTaken >= SeatLimit)
    BY <1>0, <2>1, <2>3 DEF OverbookingBounded
  <2> QED
    BY <2>2, <2>3
<1>3. ASSUME NEW r \in Admins, NEW i \in Invites, InsertInvite(r, i) PROVE OverbookingBounded'
  <2>1. CASE invite' = invite
    <3>1. PendingRow(ask[r].email) # {}
      BY <1>3, <2>1 DEF InsertInvite, WorkspaceTypeOK
    <3>2. Counted' \subseteq Counted
      BY <1>3, <3>1 DEF InsertInvite, Counted, NoAsk, WorkspaceTypeOK
    <3>3. SeatsTaken' <= SeatsTaken
      BY <1>0, <1>t, <2>1, SeatsAreCounted
    <3> QED
      BY <1>a, <3>2, <3>3
  <2>2. CASE invite' # invite
    <3>1. SeatsTaken' = SeatsTaken + 1
      BY <1>3, <1>t, <2>2, SeatsAreCounted
    <3>2. /\ ask[r].phase = "counted"
          /\ ask' = [q \in Admins |->
                       IF q = r THEN NoAsk
                       ELSE [ask[q] EXCEPT !.stale = @ \/ ask[q].phase = "counted"]]
      BY <1>3, <2>2 DEF InsertInvite
    <3>3. Counted' = Counted \ {r} /\ r \in Counted
      BY <3>2 DEF Counted, NoAsk, WorkspaceTypeOK
    <3>4. Cardinality(Counted') = Cardinality(Counted) - 1
      BY <1>0, <3>3, FS_RemoveElement
    <3> QED
      BY <1>0, <3>1, <3>4 DEF OverbookingBounded
  <2> QED
    BY <2>1, <2>2
<1>4. ASSUME NEW i \in Invites, Lapse(i) PROVE OverbookingBounded'
  <2>1. SeatsTaken' <= SeatsTaken /\ UNCHANGED ask
    BY <1>4, <1>t, SeatsAreCounted DEF Lapse
  <2> QED
    BY <1>a, <2>1 DEF Counted
<1>5. CASE UNCHANGED inviteVars
  <2>1. SeatsTaken' <= SeatsTaken /\ UNCHANGED ask
    BY <1>0, <1>5, <1>t, SeatsAreCounted DEF inviteVars
  <2> QED
    BY <1>a, <2>1 DEF Counted
<1>6. KeyNext \/ UNCHANGED workspaceVars => UNCHANGED inviteVars
  BY DEF KeyNext, CreateKey, RevokeKey, ResolveKey, StoreKey, ForgetKey, workspaceVars
<1> QED
  BY <1>1, <1>2, <1>3, <1>4, <1>5, <1>6 DEF WorkspaceNext, InviteNext

\* The counts take no lock, but however many calls of invite_member overlap, they overbook
\* a workspace by fewer seats than there are calls at once: each inserts one invitation at
\* most on a count that is stale, and the next call counts them all.
THEOREM OverbookingIsBounded ==
  WorkspaceSpec => [](SeatsTaken < SeatLimit + Cardinality(Admins))
<1> DEFINE Held == SeatsTaken < SeatLimit + Cardinality(Admins)
<1>1. WorkspaceInit => WorkspaceTypeOK /\ OverbookingBounded
  <2> SUFFICES ASSUME WorkspaceInit PROVE WorkspaceTypeOK /\ OverbookingBounded
    OBVIOUS
  <2>1. Outstanding = {} /\ Counted = {}
    BY DEF WorkspaceInit, Outstanding, Counted, NoInvite, NoAsk
  <2>2. Cardinality({}) = 0 /\ Cardinality(Members) \in Nat /\ Cardinality(Admins) \in Nat
    BY FS_EmptySet, FS_CardinalityType, WorkspaceConstants
  <2> QED
    BY <2>1, <2>2, CountsAreFinite, WorkspaceConstants, WorkspaceTypesStart
    DEF OverbookingBounded, SeatsTaken
<1>2. WorkspaceTypeOK /\ OverbookingBounded /\ [WorkspaceNext]_workspaceVars
        => WorkspaceTypeOK' /\ OverbookingBounded'
  BY WorkspaceTypesStay, OverbookingStays
<1>3. WorkspaceTypeOK /\ OverbookingBounded => Held
  <2> SUFFICES ASSUME WorkspaceTypeOK, OverbookingBounded PROVE Held
    OBVIOUS
  <2>1. Outstanding \subseteq Invites
    BY DEF Outstanding
  <2>2. IsFiniteSet(Outstanding)
    BY <2>1, WorkspaceConstants, FS_Subset
  <2>3. SeatsTaken \in Nat
    BY <2>2, WorkspaceConstants, FS_CardinalityType DEF SeatsTaken
  <2> QED
    BY <2>3, CountsAreFinite, WorkspaceConstants DEF OverbookingBounded
<1>4. WorkspaceSpec => []Held
  <2> HIDE DEF Held
  <2> QED
    BY <1>1, <1>2, <1>3, PTL DEF WorkspaceSpec
<1> QED
  BY <1>4

(***************************************************************************)
(* Tenancy.                                                                *)
(***************************************************************************)

\* What the policies have in common, table by table.
LEMMA PoliciesConfine ==
  \A p \in RowPolicies :
    /\ p.table # "users" =>
         p.rows \in {"any", "live", "own", "shown"} /\ p.kept \in {"any", "live", "own"}
    /\ p.table = "users" => p.rows \in {"self", "fellow"} /\ "insert" \notin p.cmds
    /\ p.table \in Private => p.rows = "own" /\ p.kept = "own"
    /\ p.table = "agent_definitions" => p.rows = "shown" /\ p.kept = "own"
<1>1. \A p \in AccountPolicies \cup SourcePolicies :
        /\ p.table # "users" =>
             p.rows \in {"any", "live", "own", "shown"} /\ p.kept \in {"any", "live", "own"}
        /\ p.table = "users" => p.rows \in {"self", "fellow"} /\ "insert" \notin p.cmds
        /\ p.table \notin Private \cup {"agent_definitions"}
  BY DEF AccountPolicies, SourcePolicies, PolicyFor, ForAll, ForReaders, Private
<1>2. \A p \in KnowledgePolicies \cup SystemPolicies \cup InsertPolicies \cup ChunkPolicies
                 \cup RunPolicies :
        /\ p.rows \in {"any", "live", "own"} /\ p.kept \in {"any", "live", "own"}
        /\ p.table \notin Private \cup {"agent_definitions", "users"}
  BY DEF KnowledgePolicies, SystemPolicies, InsertPolicies, ChunkPolicies, RunPolicies,
     PolicyFor, ForAll, ForReaders, Private
<1>3. \A p \in BrainPolicies :
        /\ p.rows \in {"any", "own"} /\ p.kept \in {"any", "own"}
        /\ p.table \in Private => p.rows = "own" /\ p.kept = "own"
        /\ p.table \notin {"agent_definitions", "users"}
  BY DEF BrainPolicies, PolicyFor, ForReaders, Private
<1>4. \A p \in AgentPolicies :
        /\ p.rows \in {"any", "own", "shown"} /\ p.kept \in {"any", "own"}
        /\ p.table \notin Private \cup {"users"}
        /\ p.table = "agent_definitions" => p.rows = "shown" /\ p.kept = "own"
  BY DEF AgentPolicies, PolicyFor, ForAll, Private
<1> QED BY <1>1, <1>2, <1>3, <1>4 DEF RowPolicies

\* So what a statement may address, and what it may leave, is the context's.
LEMMA ReachedIsOwn ==
  ASSUME NEW cmd, NEW table, NEW ctx, NEW row, Reaches(cmd, table, ctx, row)
  PROVE  /\ row.ws = ctx.ws \/ (table = "users" /\ row.owner = ctx.user)
         /\ table \in Private => row.owner = ctx.user
         /\ table = "agent_definitions" => row.owner = ctx.user \/ row.shared
<1>1. PICK p \in RowPolicies : p.table = table /\ Meets(p.rows, ctx, row)
  BY DEF Reaches, Applying
<1> QED BY <1>1, PoliciesConfine DEF Meets, Private

LEMMA KeptIsOwn ==
  ASSUME NEW cmd, NEW table, NEW ctx, NEW row, Keeps(cmd, table, ctx, row)
  PROVE  /\ row.ws = ctx.ws \/ (table = "users" /\ cmd # "insert")
         /\ table \in Private => row.owner = ctx.user
         /\ table = "agent_definitions" => row.owner = ctx.user
<1>1. PICK p \in RowPolicies : p.table = table /\ cmd \in p.cmds /\ Meets(p.kept, ctx, row)
  BY DEF Keeps, Applying
<1> QED BY <1>1, PoliciesConfine DEF Meets, Private

\* A call that is under way is a caller's of the workspace it was admitted to; a connection
\* that is taken is one call's, with the settings of that call.
CallersStand ==
  \A x \in Visits :
    /\ visit[x].phase = "idle" => met[x] = {}
    /\ visit[x].phase # "idle" =>
         /\ visit[x].auth \in AuthContexts /\ visit[x].ws = visit[x].auth.ws
         /\ visit[x].ws \in Tenants /\ visit[x].row \in TenantRows
SettingsAreTheCalls ==
  \A c \in Pool : pooled[c].by # NoVisitor =>
    visit[pooled[c].by].phase = "inside" /\ pooled[c].ctx = TenantContext(pooled[c].by)
OneConnectionEach ==
  \A c, d \in Pool : pooled[c].by # NoVisitor /\ pooled[c].by = pooled[d].by => c = d
TenancyInvariant ==
  TenancyTypeOK /\ CallersStand /\ SettingsAreTheCalls /\ OneConnectionEach

LEMMA AuthTyped ==
  \A a \in AuthContexts : a.user \in People /\ a.role \in Roles \cup {NoTenant}
                          /\ a.ws \in Tenants \cup {NoTenant}
BY DEF AuthContexts, SignIns, KeyHolders, Roles

LEMMA RunIsAllowed ==
  ASSUME TenancyInvariant, NEW x \in Visits, NEW c \in Pool, pooled[c].by = x, NEW s,
         Outcome(x, c, s) = "done", s.cmd \in Commands
  PROVE  MayMeet(visit[x].auth, Run(x, c, s))
<1> DEFINE ctx == pooled[c].ctx
           row == visit[x].row
           new == Turned(x, s)
<1>1. x # NoVisitor
  BY TenancyConstants
<1>2. /\ ctx.ws = visit[x].auth.ws /\ ctx.user = visit[x].auth.user
      /\ row \in TenantRows /\ ctx.ws = visit[x].ws
  <2>1. visit[x].phase = "inside" /\ pooled[c].ctx = TenantContext(x)
    BY <1>1 DEF TenancyInvariant, SettingsAreTheCalls
  <2>2. /\ visit[x].ws = visit[x].auth.ws /\ visit[x].row \in TenantRows
    BY <2>1 DEF TenancyInvariant, CallersStand
  <2> QED BY <2>1, <2>2 DEF TenantContext
<1>3. OutcomeOf(s.cmd, s.table, ctx, row, new) = "done"
  BY DEF Outcome, Commands
<1>4. CASE s.cmd = "insert"
  <2>1. Keeps(s.cmd, s.table, ctx, new)
    BY <1>3, <1>4 DEF OutcomeOf
  <2>2. Run(x, c, s).row = new /\ Run(x, c, s).table = s.table /\ Run(x, c, s).cmd = "insert"
    BY <1>4 DEF Run
  <2>3. new.ws = visit[x].auth.ws /\ new.owner = visit[x].auth.user
    BY <1>2, <1>4 DEF Turned
  <2> QED BY <1>2, <1>4, <2>1, <2>2, <2>3, KeptIsOwn DEF MayMeet
<1>5. CASE s.cmd # "insert"
  <2>1. Reaches("select", s.table, ctx, row)
    BY <1>3, <1>5 DEF OutcomeOf, Sees
  <2>2. s.cmd = "update" => Keeps(s.cmd, s.table, ctx, new)
    BY <1>3 DEF OutcomeOf
  <2>3. Run(x, c, s).row = row /\ Run(x, c, s).table = s.table /\ Run(x, c, s).cmd = s.cmd
    BY <1>5 DEF Run
  <2>4. new.owner = row.owner
    BY <1>2, <1>5 DEF Turned, TenantRows
  <2>5. /\ row.ws = ctx.ws \/ (s.table = "users" /\ row.owner = ctx.user)
        /\ s.table \in Private => row.owner = ctx.user
        /\ s.table = "agent_definitions" => row.owner = ctx.user \/ row.shared
    BY <2>1, ReachedIsOwn
  <2>6. s.table = "agent_definitions" /\ s.cmd = "update" => row.owner = ctx.user
    BY <2>2, <2>4, KeptIsOwn
  <2> QED BY <1>2, <1>5, <2>3, <2>5, <2>6 DEF MayMeet
<1> QED BY <1>4, <1>5

LEMMA NoCallTyped == NoVisit \in CallRecords
<1>1. /\ NoTenant \in AuthContexts \cup {NoTenant} /\ NoTenant \in Tenants \cup {NoTenant}
      /\ NoTenant \in TenantRows \cup {NoTenant} /\ "none" \in Served \cup {"none"}
  OBVIOUS
<1> QED BY <1>1, Zenon DEF NoVisit, CallRecords

LEMMA TenancyStarts == TenancyInit => TenancyInvariant /\ OnlyOwnRowsMet
<1> SUFFICES ASSUME TenancyInit PROVE TenancyInvariant /\ OnlyOwnRowsMet
  OBVIOUS
<1>1. TenancyTypeOK
  <2>1. IdleConnection \in [by : Visits \cup {NoVisitor}, ctx : Contexts]
    BY DEF IdleConnection, NoContext, Contexts
  <2> QED BY <2>1, NoCallTyped DEF TenancyInit, TenancyTypeOK
<1>2. CallersStand /\ SettingsAreTheCalls /\ OneConnectionEach /\ OnlyOwnRowsMet
  BY DEF TenancyInit, IdleConnection, NoVisit, CallersStand, SettingsAreTheCalls,
     OneConnectionEach, OnlyOwnRowsMet
<1> QED BY <1>1, <1>2 DEF TenancyInvariant

LEMMA Freed ==
  ASSUME TenancyInvariant, NEW x \in Visits, NEW c \in Pool, GiveBack(x, c)
  PROVE  /\ pooled' \in [Pool -> [by : Visits \cup {NoVisitor}, ctx : Contexts]]
         /\ \A d \in Pool : pooled'[d].by # NoVisitor =>
              d # c /\ pooled'[d] = pooled[d] /\ pooled[d].by # x
         /\ OneConnectionEach'
<1>1. IdleConnection \in [by : Visits \cup {NoVisitor}, ctx : Contexts] /\ IdleConnection.by = NoVisitor
  BY DEF IdleConnection, NoContext, Contexts
<1>2. /\ pooled \in [Pool -> [by : Visits \cup {NoVisitor}, ctx : Contexts]]
      /\ pooled[c].by = x /\ x # NoVisitor /\ pooled' = [pooled EXCEPT ![c] = IdleConnection]
  BY TenancyConstants DEF TenancyInvariant, TenancyTypeOK, GiveBack
<1>3. \A d \in Pool : pooled'[d].by # NoVisitor =>
        d # c /\ pooled'[d] = pooled[d] /\ pooled[d].by # x
  BY <1>1, <1>2 DEF TenancyInvariant, OneConnectionEach
<1>4. OneConnectionEach'
  BY <1>3 DEF TenancyInvariant, OneConnectionEach
<1> QED BY <1>1, <1>2, <1>3, <1>4

\* What a step that leaves the callers be has to show of the statements run.
LEMMA StatementsStay ==
  ASSUME TenancyInvariant, OnlyOwnRowsMet, NEW x \in Visits, NEW c \in Pool,
         pooled[c].by = x, visit[x].phase = "inside", RunDue(x, c),
         visit' \in [Visits -> CallRecords],
         \A y \in Visits : /\ visit'[y].auth = visit[y].auth /\ visit'[y].ws = visit[y].ws
                           /\ visit'[y].row = visit[y].row
                           /\ visit'[y].phase = "idle" <=> visit[y].phase = "idle"
  PROVE  /\ DOMAIN met' = Visits /\ CallersStand' /\ OnlyOwnRowsMet'
<1>1. /\ DOMAIN met = Visits /\ met' = [met EXCEPT ![x] = met[x] \cup {Run(x, c, Due(x))}]
  BY DEF TenancyInvariant, TenancyTypeOK, RunDue
<1>2. \A y \in Visits : met'[y] = IF y = x THEN met[x] \cup {Run(x, c, Due(x))} ELSE met[y]
  BY <1>1
<1>3. CallersStand'
  BY <1>2 DEF TenancyInvariant, CallersStand
<1>4. ASSUME NEW y \in Visits, NEW m \in met'[y], m.cmd \in Commands, m.outcome = "done"
      PROVE  MayMeet(visit[y].auth, m)
  <2>1. CASE m \in met[y]
    BY <1>4, <2>1 DEF OnlyOwnRowsMet
  <2>2. CASE m \notin met[y]
    <3>1. y = x /\ m = Run(x, c, Due(x))
      BY <1>2, <1>4, <2>2
    <3>2. m.cmd = Due(x).cmd /\ m.outcome = Outcome(x, c, Due(x))
      BY <3>1 DEF Run
    <3> QED BY <1>4, <3>1, <3>2, RunIsAllowed
  <2> QED BY <2>1, <2>2
<1>5. OnlyOwnRowsMet'
  BY <1>4 DEF OnlyOwnRowsMet, MayMeet, Private
<1> QED BY <1>1, <1>3, <1>5

LEMMA TenancyStays ==
  TenancyInvariant /\ OnlyOwnRowsMet /\ [TenancyNext]_tenancyVars
    => TenancyInvariant' /\ OnlyOwnRowsMet'
<1> SUFFICES ASSUME TenancyInvariant, OnlyOwnRowsMet, [TenancyNext]_tenancyVars
             PROVE  TenancyInvariant' /\ OnlyOwnRowsMet'
  OBVIOUS
<1> USE TenancyConstants
<1>t. /\ pooled \in [Pool -> [by : Visits \cup {NoVisitor}, ctx : Contexts]]
      /\ visit \in [Visits -> CallRecords] /\ DOMAIN todo = Visits /\ DOMAIN met = Visits
  BY DEF TenancyInvariant, TenancyTypeOK
<1>1. ASSUME NEW x \in Visits, NEW auth \in AuthContexts, NEW w \in Tenants,
             NEW row \in TenantRows, NEW route \in Routes, route.name \in Served,
             Arrive(x, auth, route, w, row)
      PROVE  TenancyInvariant' /\ OnlyOwnRowsMet'
  <2> DEFINE ws == TenantFor(route, auth, w)
             new == [phase |-> "routed", auth |-> auth, route |-> route.name, ws |-> ws,
                     row |-> row]
  <2>1. ws = auth.ws /\ ws \in Tenants
    BY <1>1, AuthTyped DEF TenantFor, AssertWorkspaceMember, Arrive
  <2>2. new \in CallRecords
    BY <1>1, <2>1 DEF CallRecords
  <2>3. visit' = [visit EXCEPT ![x] = new] /\ visit[x].phase = "idle"
    BY <1>1 DEF Arrive
  <2>4. pooled' = pooled /\ met' = met /\ DOMAIN todo' = Visits
    BY <1>1, <1>t DEF Arrive
  <2> HIDE DEF new
  <2>5. \A y \in Visits : visit'[y] = IF y = x THEN new ELSE visit[y]
    BY <2>3, <1>t
  <2>6. new.phase = "routed" /\ new.auth = auth /\ new.ws = ws /\ new.row = row
    BY DEF new
  <2>7. TenancyTypeOK'
    BY <2>2, <2>3, <2>4, <1>t DEF TenancyTypeOK
  <2>8. CallersStand'
    BY <2>1, <2>4, <2>5, <2>6 DEF TenancyInvariant, CallersStand
  <2>9. SettingsAreTheCalls'
    <3> SUFFICES ASSUME NEW d \in Pool, pooled[d].by # NoVisitor
                 PROVE  visit'[pooled[d].by].phase = "inside"
                        /\ pooled[d].ctx = TenantContext(pooled[d].by)'
      BY <2>4 DEF SettingsAreTheCalls
    <3>1. /\ pooled[d].by \in Visits /\ visit[pooled[d].by].phase = "inside"
          /\ pooled[d].ctx = TenantContext(pooled[d].by)
      BY <1>t DEF TenancyInvariant, SettingsAreTheCalls
    <3>2. visit'[pooled[d].by] = visit[pooled[d].by]
      BY <2>3, <2>5, <3>1
    <3> QED BY <3>1, <3>2, <2>4 DEF TenantContext
  <2>10. OneConnectionEach'
    BY <2>4 DEF TenancyInvariant, OneConnectionEach
  <2>11. OnlyOwnRowsMet'
    BY <2>3, <2>4, <2>5 DEF TenancyInvariant, CallersStand, OnlyOwnRowsMet, MayMeet
  <2> QED BY <2>7, <2>8, <2>9, <2>10, <2>11 DEF TenancyInvariant
<1>2. ASSUME NEW x \in Visits, NEW c \in Pool, OpenTenant(x, c)
      PROVE  TenancyInvariant' /\ OnlyOwnRowsMet'
  <2>1. /\ visit[x].phase = "routed" /\ pooled[c].by = NoVisitor /\ met' = met /\ todo' = todo
        /\ pooled' = [pooled EXCEPT ![c] = [by |-> x, ctx |-> TenantContext(x)]]
        /\ visit' = [visit EXCEPT ![x].phase = "inside"]
    BY <1>2 DEF OpenTenant
  <2>2. \A y \in Visits :
          /\ visit'[y].auth = visit[y].auth /\ visit'[y].ws = visit[y].ws /\ visit'[y].row = visit[y].row
          /\ visit'[y].phase = IF y = x THEN "inside" ELSE visit[y].phase
    BY <2>1, <1>t DEF CallRecords
  <2>3. visit' \in [Visits -> CallRecords]
    BY <2>1, <1>t DEF CallRecords
  <2>4. TenantContext(x) \in Contexts
    <3>1. visit[x].auth \in AuthContexts /\ visit[x].ws \in Tenants
      BY <2>1 DEF TenancyInvariant, CallersStand
    <3> QED BY <3>1, AuthTyped DEF TenantContext, Contexts
  <2>5. /\ pooled' \in [Pool -> [by : Visits \cup {NoVisitor}, ctx : Contexts]]
        /\ \A d \in Pool : pooled'[d] = IF d = c THEN [by |-> x, ctx |-> TenantContext(x)]
                                       ELSE pooled[d]
    BY <2>1, <2>4, <1>t
  <2>6. \A d \in Pool : pooled[d].by # x
    BY <2>1 DEF TenancyInvariant, SettingsAreTheCalls
  <2>7. OneConnectionEach'
    BY <2>5, <2>6 DEF TenancyInvariant, OneConnectionEach
  <2>8. SettingsAreTheCalls'
    <3> SUFFICES ASSUME NEW d \in Pool, pooled'[d].by # NoVisitor
                 PROVE  visit'[pooled'[d].by].phase = "inside"
                        /\ pooled'[d].ctx = TenantContext(pooled[d].by)'
      BY DEF SettingsAreTheCalls
    <3>1. CASE d = c
      <4>1. pooled'[d].by = x /\ pooled'[d].ctx = TenantContext(x)
        BY <2>5, <3>1
      <4> QED BY <4>1, <2>2 DEF TenantContext
    <3>2. CASE d # c
      <4>1. pooled'[d] = pooled[d] /\ pooled[d].by \in Visits
        BY <2>5, <3>2, <1>t
      <4>2. visit[pooled[d].by].phase = "inside" /\ pooled[d].ctx = TenantContext(pooled[d].by)
        BY <4>1 DEF TenancyInvariant, SettingsAreTheCalls
      <4> QED BY <4>1, <4>2, <2>2 DEF TenantContext
    <3> QED BY <3>1, <3>2
  <2>9. CallersStand' /\ OnlyOwnRowsMet'
    BY <2>1, <2>2 DEF TenancyInvariant, CallersStand, OnlyOwnRowsMet, MayMeet
  <2>10. TenancyTypeOK'
    BY <2>1, <2>3, <2>5, <1>t DEF TenancyTypeOK
  <2> QED BY <2>7, <2>8, <2>9, <2>10 DEF TenancyInvariant
<1>3. ASSUME NEW x \in Visits, NEW c \in Pool, Execute(x, c) \/ LeaveOut(x, c)
      PROVE  TenancyInvariant' /\ OnlyOwnRowsMet'
  <2>1. /\ pooled' = pooled /\ visit' = visit /\ pooled[c].by = x /\ visit[x].phase = "inside"
        /\ RunDue(x, c) /\ DOMAIN todo' = Visits
    BY <1>3, <1>t DEF Execute, LeaveOut, AtStatement
  <2>2. DOMAIN met' = Visits /\ CallersStand' /\ OnlyOwnRowsMet'
    BY <2>1, <1>t, StatementsStay
  <2>3. SettingsAreTheCalls' /\ OneConnectionEach' /\ TenancyTypeOK'
    BY <2>1, <2>2, <1>t DEF TenancyInvariant, SettingsAreTheCalls, OneConnectionEach,
       TenantContext, TenancyTypeOK
  <2> QED BY <2>2, <2>3 DEF TenancyInvariant
<1>4. ASSUME NEW x \in Visits, NEW c \in Pool, GiveBack(x, c), DOMAIN todo' = Visits,
             visit' \in [Visits -> CallRecords], \A y \in Visits \ {x} : visit'[y] = visit[y],
             DOMAIN met' = Visits, CallersStand'
      PROVE  TenancyInvariant'
  <2>1. /\ pooled' \in [Pool -> [by : Visits \cup {NoVisitor}, ctx : Contexts]]
        /\ \A d \in Pool : pooled'[d].by # NoVisitor =>
             d # c /\ pooled'[d] = pooled[d] /\ pooled[d].by # x
        /\ OneConnectionEach'
    BY <1>4, Freed
  <2>2. SettingsAreTheCalls'
    <3> SUFFICES ASSUME NEW d \in Pool, pooled'[d].by # NoVisitor
                 PROVE  visit'[pooled'[d].by].phase = "inside"
                        /\ pooled'[d].ctx = TenantContext(pooled[d].by)'
      BY DEF SettingsAreTheCalls
    <3>1. pooled'[d] = pooled[d] /\ pooled[d].by \in Visits \ {x}
      BY <2>1, <1>t
    <3>2. visit[pooled[d].by].phase = "inside" /\ pooled[d].ctx = TenantContext(pooled[d].by)
      BY <3>1 DEF TenancyInvariant, SettingsAreTheCalls
    <3>3. visit'[pooled[d].by] = visit[pooled[d].by]
      BY <3>1, <1>4
    <3> QED BY <3>1, <3>2, <3>3 DEF TenantContext
  <2>3. TenancyTypeOK'
    BY <1>4, <2>1 DEF TenancyTypeOK
  <2> QED BY <1>4, <2>1, <2>2, <2>3 DEF TenancyInvariant
<1>5. ASSUME NEW x \in Visits, NEW p \in {"served", "routed", "refused", "failed"},
             visit[x].phase = "inside", visit' = [visit EXCEPT ![x].phase = p]
      PROVE  /\ visit' \in [Visits -> CallRecords] /\ \A y \in Visits \ {x} : visit'[y] = visit[y]
             /\ \A y \in Visits : /\ visit'[y].auth = visit[y].auth /\ visit'[y].ws = visit[y].ws
                                  /\ visit'[y].row = visit[y].row
                                  /\ visit'[y].phase = "idle" <=> visit[y].phase = "idle"
  BY <1>5, <1>t DEF CallRecords
<1>6. ASSUME NEW x \in Visits, NEW c \in Pool, Raise(x, c)
      PROVE  TenancyInvariant' /\ OnlyOwnRowsMet'
  <2>1. PICK p \in {"refused", "failed"} : visit' = [visit EXCEPT ![x].phase = p]
    BY <1>6 DEF Raise
  <2>2. /\ visit[x].phase = "inside" /\ GiveBack(x, c) /\ RunDue(x, c) /\ DOMAIN todo' = Visits
        /\ pooled[c].by = x
    BY <1>6, <1>t DEF Raise, AtStatement, GiveBack
  <2>3. /\ visit' \in [Visits -> CallRecords] /\ \A y \in Visits \ {x} : visit'[y] = visit[y]
        /\ \A y \in Visits : /\ visit'[y].auth = visit[y].auth /\ visit'[y].ws = visit[y].ws
                             /\ visit'[y].row = visit[y].row
                             /\ visit'[y].phase = "idle" <=> visit[y].phase = "idle"
    BY <2>1, <2>2, <1>5
  <2>4. DOMAIN met' = Visits /\ CallersStand' /\ OnlyOwnRowsMet'
    BY <2>2, <2>3, StatementsStay
  <2> QED BY <2>2, <2>3, <2>4, <1>4
<1>7. ASSUME NEW x \in Visits, NEW c \in Pool, CommitTenant(x, c)
      PROVE  TenancyInvariant' /\ OnlyOwnRowsMet'
  <2>1. PICK p \in {"served", "routed"} : visit' = [visit EXCEPT ![x].phase = p]
    BY <1>7 DEF CommitTenant
  <2>2. /\ visit[x].phase = "inside" /\ GiveBack(x, c) /\ DOMAIN todo' = Visits /\ met' = met
    BY <1>7, <1>t DEF CommitTenant
  <2>3. /\ visit' \in [Visits -> CallRecords] /\ \A y \in Visits \ {x} : visit'[y] = visit[y]
        /\ \A y \in Visits : /\ visit'[y].auth = visit[y].auth /\ visit'[y].ws = visit[y].ws
                             /\ visit'[y].row = visit[y].row
                             /\ visit'[y].phase = "idle" <=> visit[y].phase = "idle"
    BY <2>1, <2>2, <1>5
  <2>4. CallersStand'
    BY <2>2, <2>3 DEF TenancyInvariant, CallersStand
  <2>5. OnlyOwnRowsMet'
    BY <2>2, <2>3 DEF OnlyOwnRowsMet, MayMeet
  <2>6. TenancyInvariant'
    BY <2>2, <2>3, <2>4, <1>t, <1>4
  <2> QED BY <2>5, <2>6
<1>8. ASSUME NEW x \in Visits, Leave(x)
      PROVE  /\ visit' \in [Visits -> CallRecords] /\ \A y \in Visits \ {x} : visit'[y] = visit[y]
             /\ DOMAIN todo' = Visits /\ DOMAIN met' = Visits /\ CallersStand' /\ OnlyOwnRowsMet'
  <2>1. /\ visit' = [visit EXCEPT ![x] = NoVisit] /\ met' = [met EXCEPT ![x] = {}]
        /\ DOMAIN todo' = Visits
    BY <1>8, <1>t DEF Leave
  <2>2. visit' \in [Visits -> CallRecords] /\ DOMAIN met' = Visits
    BY <2>1, <1>t, NoCallTyped
  <2>3. NoVisit.phase = "idle"
    BY DEF NoVisit
  <2>4. \A y \in Visits : /\ visit'[y] = IF y = x THEN NoVisit ELSE visit[y]
                          /\ met'[y] = IF y = x THEN {} ELSE met[y]
    BY <2>1, <1>t
  <2>5. CallersStand'
    BY <2>3, <2>4 DEF TenancyInvariant, CallersStand
  <2>6. OnlyOwnRowsMet'
    BY <2>4 DEF OnlyOwnRowsMet, MayMeet
  <2> QED BY <2>1, <2>2, <2>4, <2>5, <2>6
<1>9. ASSUME NEW x \in Visits, NEW c \in Pool, CancelCall(x, c)
      PROVE  TenancyInvariant' /\ OnlyOwnRowsMet'
  <2>1. GiveBack(x, c) /\ Leave(x)
    BY <1>9 DEF CancelCall
  <2>2. /\ visit' \in [Visits -> CallRecords] /\ \A y \in Visits \ {x} : visit'[y] = visit[y]
        /\ DOMAIN todo' = Visits /\ DOMAIN met' = Visits /\ CallersStand' /\ OnlyOwnRowsMet'
    BY <2>1, <1>8
  <2> QED BY <2>1, <2>2, <1>4
<1>10. ASSUME NEW x \in Visits, PassOver(x)
       PROVE  TenancyInvariant' /\ OnlyOwnRowsMet'
  <2>1. pooled' = pooled /\ visit' = visit /\ met' = met /\ DOMAIN todo' = Visits
    BY <1>10, <1>t DEF PassOver
  <2> QED BY <2>1, <1>t DEF TenancyInvariant, TenancyTypeOK, CallersStand, SettingsAreTheCalls,
         OneConnectionEach, TenantContext, OnlyOwnRowsMet, MayMeet
<1>11. ASSUME NEW x \in Visits, Respond(x)
       PROVE  TenancyInvariant' /\ OnlyOwnRowsMet'
  <2>1. Leave(x) /\ pooled' = pooled /\ visit[x].phase # "inside"
    BY <1>11 DEF Respond
  <2>2. /\ visit' \in [Visits -> CallRecords] /\ \A y \in Visits \ {x} : visit'[y] = visit[y]
        /\ DOMAIN todo' = Visits /\ DOMAIN met' = Visits /\ CallersStand' /\ OnlyOwnRowsMet'
    BY <2>1, <1>8
  <2>3. SettingsAreTheCalls'
    <3> SUFFICES ASSUME NEW d \in Pool, pooled[d].by # NoVisitor
                 PROVE  visit'[pooled[d].by].phase = "inside"
                        /\ pooled[d].ctx = TenantContext(pooled[d].by)'
      BY <2>1 DEF SettingsAreTheCalls
    <3>1. /\ pooled[d].by \in Visits /\ visit[pooled[d].by].phase = "inside"
          /\ pooled[d].ctx = TenantContext(pooled[d].by)
      BY <1>t DEF TenancyInvariant, SettingsAreTheCalls
    <3>2. visit'[pooled[d].by] = visit[pooled[d].by]
      BY <2>1, <2>2, <3>1
    <3> QED BY <2>1, <3>1, <3>2 DEF TenantContext
  <2>4. OneConnectionEach' /\ TenancyTypeOK'
    BY <2>1, <2>2, <1>t DEF TenancyInvariant, OneConnectionEach, TenancyTypeOK
  <2> QED BY <2>2, <2>3, <2>4 DEF TenancyInvariant
<1>12. CASE UNCHANGED tenancyVars
  BY <1>12 DEF tenancyVars, TenancyInvariant, TenancyTypeOK, CallersStand, SettingsAreTheCalls,
     OneConnectionEach, TenantContext, OnlyOwnRowsMet, MayMeet
<1> QED
  BY <1>1, <1>2, <1>3, <1>6, <1>7, <1>9, <1>10, <1>11, <1>12 DEF TenancyNext

\* The type invariant of module Tenancy.
THEOREM TenancyTypesHold == TenancySpec => []TenancyTypeOK
<1>1. TenancyInvariant /\ OnlyOwnRowsMet => TenancyTypeOK
  BY DEF TenancyInvariant
<1> QED BY <1>1, TenancyStarts, TenancyStays, PTL DEF TenancySpec

\* No statement of a request reaches a row its caller has no business with, for any
\* workspaces, users, API keys, routes of the API and overlapping requests on any pool.
THEOREM TenantsAreApart == TenancySpec => []OnlyOwnRowsMet
<1> QED BY TenancyStarts, TenancyStays, PTL DEF TenancySpec

(***************************************************************************)
(* What is admitted works: the statements of every route are granted to    *)
(* every role its guard lets in.                                           *)
(***************************************************************************)

\* A policy for the command on the table that applies to the role.
Granted(cmd, table, role) ==
  \E p \in RowPolicies : p.table = table /\ cmd \in p.cmds /\ role \in p.roles

\* A policy of the set grants its commands to its roles.
LEMMA PolicyGrants ==
  ASSUME NEW table, NEW cmds, NEW roles, NEW rows,
         PolicyFor(table, cmds, roles, rows) \in RowPolicies,
         NEW cmd \in cmds, NEW role \in roles
  PROVE  Granted(cmd, table, role)
BY DEF PolicyFor, Granted

\* The tables every role sees, adds to and changes.
Seen == {"users", "workspaces", "workspace_members", "source_channels", "decisions",
         "reviews", "skills", "skill_versions", "brain_conversations", "brain_messages",
         "activity_events", "agent_interactions", "source_events", "sweeps",
         "brain_chunks", "agent_runs", "agent_definitions", "agent_connectors"}
Added == {"agent_interactions", "reviews", "brain_conversations", "brain_messages",
          "agent_runs", "sweeps", "agent_definitions", "agent_connectors"}
Changed == {"agent_interactions", "brain_conversations", "agent_definitions"}

\* What is every role's to do with its workspace's rows.
LEMMA EveryoneMay ==
  ASSUME NEW role \in Roles, NEW cmd \in Commands
  PROVE  \A table \in {"agent_interactions", "source_events", "sweeps", "brain_chunks",
                       "agent_runs", "agent_definitions", "agent_connectors"} :
           Granted(cmd, table, role)
<1> DEFINE G(table) == Granted(cmd, table, role)
<1>1. G("agent_interactions") /\ G("source_events") /\ G("sweeps")
  <2>1. \A table \in {"agent_interactions", "source_events", "sweeps"} :
          PolicyFor(table, Commands, Roles, "any") \in RowPolicies
    BY DEF RowPolicies, SystemPolicies, ForAll
  <2> QED BY <2>1, PolicyGrants
<1>2. G("brain_chunks") /\ G("agent_runs") /\ G("agent_connectors")
  <2>1. \A table \in {"brain_chunks", "agent_runs", "agent_connectors"} :
          PolicyFor(table, Commands, Roles, "any") \in RowPolicies
    BY DEF RowPolicies, ChunkPolicies, RunPolicies, AgentPolicies, ForAll
  <2> QED BY <2>1, PolicyGrants
<1>3. G("agent_definitions")
  <2> DEFINE p == [PolicyFor("agent_definitions", Commands, Roles, "shown")
                     EXCEPT !.kept = "own"]
  <2>1. p \in RowPolicies
    BY DEF RowPolicies, AgentPolicies
  <2>2. p.table = "agent_definitions" /\ p.cmds = Commands /\ p.roles = Roles
    BY DEF PolicyFor
  <2> QED BY <2>1, <2>2 DEF Granted
<1> QED BY <1>1, <1>2, <1>3

\* Every role reads these tables.
LEMMA ReadersMay ==
  ASSUME NEW role \in Roles
  PROVE  \A table \in Seen : Granted("select", table, role)
<1> DEFINE G(table) == Granted("select", table, role)
<1>1. G("users") /\ G("workspaces") /\ G("workspace_members")
  <2>1. /\ PolicyFor("users", {"select"}, Roles, "fellow") \in RowPolicies
        /\ PolicyFor("workspaces", {"select"}, Roles, "live") \in RowPolicies
        /\ PolicyFor("workspace_members", {"select"}, Roles, "any") \in RowPolicies
    BY DEF RowPolicies, AccountPolicies, ForReaders
  <2> QED BY <2>1, PolicyGrants
<1>2. G("source_channels")
  <2>1. PolicyFor("source_channels", {"select"}, Roles, "any") \in RowPolicies
    BY DEF RowPolicies, SourcePolicies, ForReaders
  <2> QED BY <2>1, PolicyGrants
<1>3. G("decisions") /\ G("reviews") /\ G("skills") /\ G("skill_versions")
  <2>1. /\ PolicyFor("decisions", {"select"}, Roles, "live") \in RowPolicies
        /\ PolicyFor("reviews", {"select"}, Roles, "any") \in RowPolicies
        /\ PolicyFor("skills", {"select"}, Roles, "live") \in RowPolicies
        /\ PolicyFor("skill_versions", {"select"}, Roles, "any") \in RowPolicies
    BY DEF RowPolicies, KnowledgePolicies, ForReaders
  <2> QED BY <2>1, PolicyGrants
<1>4. G("brain_conversations") /\ G("brain_messages")
  <2>1. /\ PolicyFor("brain_conversations", {"select", "insert", "update"}, Roles, "own")
             \in RowPolicies
        /\ PolicyFor("brain_messages", {"select", "insert"}, Roles, "own") \in RowPolicies
    BY DEF RowPolicies, BrainPolicies
  <2> QED BY <2>1, PolicyGrants
<1>5. G("activity_events")
  <2>1. PolicyFor("activity_events", {"select"}, Roles, "any") \in RowPolicies
    BY DEF RowPolicies, SystemPolicies, ForReaders
  <2> QED BY <2>1, PolicyGrants
<1>6. \A table \in {"agent_interactions", "source_events", "sweeps", "brain_chunks",
                    "agent_runs", "agent_definitions", "agent_connectors"} : G(table)
  BY EveryoneMay DEF Commands
<1> QED BY <1>1, <1>2, <1>3, <1>4, <1>5, <1>6 DEF Seen

\* Every role inserts into the tables of Added and updates those of Changed.
LEMMA EveryoneAdds ==
  ASSUME NEW role \in Roles
  PROVE  /\ \A table \in Added : Granted("insert", table, role)
         /\ \A table \in Changed : Granted("update", table, role)
<1>1. /\ PolicyFor("brain_conversations", {"select", "insert", "update"}, Roles, "own")
            \in RowPolicies
      /\ PolicyFor("brain_messages", {"select", "insert"}, Roles, "own") \in RowPolicies
  BY DEF RowPolicies, BrainPolicies
<1>2. PolicyFor("reviews", {"insert"}, Roles, "any") \in RowPolicies
  BY DEF RowPolicies, InsertPolicies
<1>3. /\ Granted("insert", "brain_conversations", role)
      /\ Granted("update", "brain_conversations", role)
      /\ Granted("insert", "brain_messages", role) /\ Granted("insert", "reviews", role)
  BY <1>1, <1>2, PolicyGrants
<1> QED BY <1>3, EveryoneMay DEF Added, Changed, Commands

\* Editors write skills, settle reviews and file versions.
LEMMA EditorsMay ==
  ASSUME NEW role \in Editors
  PROVE  /\ \A cmd \in Commands : Granted(cmd, "skills", role)
         /\ Granted("update", "reviews", role) /\ Granted("insert", "skill_versions", role)
<1>1. /\ PolicyFor("skills", Commands, Editors, "any") \in RowPolicies
      /\ PolicyFor("reviews", {"update"}, Editors, "any") \in RowPolicies
  BY DEF RowPolicies, KnowledgePolicies, ForAll
<1>2. PolicyFor("skill_versions", {"insert"}, Editors, "any") \in RowPolicies
  BY DEF RowPolicies, InsertPolicies
<1> QED BY <1>1, <1>2, PolicyGrants

\* The tables that admins alone write.
Managed ==
  {"invitations", "api_keys", "source_connections", "source_channels",
   "webhook_subscriptions"}

\* Admins manage the workspace, its keys, its invitations and its sources.
LEMMA AdminsMay ==
  /\ Granted("update", "workspaces", "admin")
  /\ \A table \in Managed, cmd \in Commands : Granted(cmd, table, "admin")
<1>1. /\ PolicyFor("workspaces", {"update"}, {"admin"}, "any") \in RowPolicies
      /\ PolicyFor("invitations", Commands, {"admin"}, "any") \in RowPolicies
  BY DEF RowPolicies, AccountPolicies, ForAll
<1>2. \A table \in {"source_connections", "source_channels", "webhook_subscriptions"} :
        PolicyFor(table, Commands, {"admin"}, "any") \in RowPolicies
  BY DEF RowPolicies, SourcePolicies, ForAll
<1>3. PolicyFor("api_keys", Commands, {"admin"}, "any") \in RowPolicies
  BY DEF RowPolicies, SystemPolicies, ForAll
<1> QED BY <1>1, <1>2, <1>3, PolicyGrants DEF Managed

\* A row of the caller's own, live, is within the reach of every policy.
LEMMA OwnRowMeets ==
  ASSUME NEW p \in RowPolicies, NEW ctx, NEW row, row.ws = ctx.ws, row.owner = ctx.user,
         row.live = TRUE
  PROVE  Meets(p.rows, ctx, row) /\ Meets(p.kept, ctx, row)
<1>1. /\ p.rows \in {"any", "live", "own", "shown", "self", "fellow"}
      /\ p.kept \in {"any", "live", "own", "shown", "self", "fellow"}
  BY DEF RowPolicies, AccountPolicies, SourcePolicies, KnowledgePolicies, BrainPolicies,
     SystemPolicies, InsertPolicies, ChunkPolicies, RunPolicies, AgentPolicies, PolicyFor,
     ForAll, ForReaders
<1> QED BY <1>1 DEF Meets

\* Where the API lets in more roles than the policies do (Narrower).
Excepted(name, s) ==
  \/ name = "overview" /\ s.table = "source_connections"
  \/ name = "report override" /\ s.cmd = "update" /\ s.table = "skills"

\* What a role may do to a live row of its own.  A row that is changed has to be seen as
\* it was and as it becomes; only a skill is retired, and by editors.
Permitted(role, s) ==
  /\ Granted(s.cmd, s.table, role)
  /\ s.cmd # "insert" => Granted("select", s.table, role)
  /\ s.retires => s.cmd = "update" /\ s.table = "skills" /\ role \in Editors

\* Where a statement of the routes may go, and the forms it has.
Tables == Seen \cup Managed \cup {"none"}
Statements ==
  [cmd : Commands \cup {"own", "person"}, table : Tables, miss : {"go", "leave", "raise"},
   retires : BOOLEAN, skipped : BOOLEAN]

\* The statements a request to a route may run under a role, and its transactions.
Menu(role, name) ==
  {s \in Statements : s.cmd \in Commands => Permitted(role, s) \/ Excepted(name, s)}
Work(role, name) == {blocks \in Seq(Seq(Menu(role, name))) : blocks # <<>>}

\* A permitted statement does its work on a live row of the caller's own.
LEMMA PermittedWorks ==
  ASSUME NEW ctx, ctx.role \in Roles, NEW row \in TenantRows, NEW new \in TenantRows,
         row.ws = ctx.ws, row.owner = ctx.user, row.live, NEW s, s.cmd \in Commands,
         Permitted(ctx.role, s), new.ws = ctx.ws, new.owner = ctx.user,
         s.retires \/ new.live
  PROVE  OutcomeOf(s.cmd, s.table, ctx, row, new) = "done"
<1>1. PICK p \in RowPolicies : p.table = s.table /\ s.cmd \in p.cmds /\ ctx.role \in p.roles
  BY DEF Permitted, Granted
<1>2. Reaches(s.cmd, s.table, ctx, row)
  BY <1>1, OwnRowMeets DEF Reaches, Applying, TenantRows
<1>3. s.cmd # "insert" => Sees(s.table, ctx, row)
  <2> SUFFICES ASSUME s.cmd # "insert" PROVE Sees(s.table, ctx, row)
    OBVIOUS
  <2>1. PICK q \in RowPolicies : q.table = s.table /\ "select" \in q.cmds /\ ctx.role \in q.roles
    BY DEF Permitted, Granted
  <2> QED BY <2>1, OwnRowMeets DEF Sees, Reaches, Applying, TenantRows
<1>4. Keeps(s.cmd, s.table, ctx, new) /\ (s.cmd = "update" => Sees(s.table, ctx, new))
  <2>1. CASE new.live
    <3>1. Keeps(s.cmd, s.table, ctx, new)
      BY <1>1, <2>1, OwnRowMeets DEF Keeps, Applying, TenantRows
    <3>2. ASSUME s.cmd = "update" PROVE Sees(s.table, ctx, new)
      <4>1. PICK q \in RowPolicies :
              q.table = s.table /\ "select" \in q.cmds /\ ctx.role \in q.roles
        BY <3>2 DEF Permitted, Granted
      <4> QED BY <4>1, <2>1, OwnRowMeets DEF Sees, Reaches, Applying, TenantRows
    <3> QED BY <3>1, <3>2
  <2>2. CASE ~new.live
    <3>1. s.cmd = "update" /\ s.table = "skills" /\ ctx.role \in Editors
      BY <2>2 DEF Permitted
    <3> DEFINE q == PolicyFor("skills", Commands, Editors, "any")
    <3>2. q \in RowPolicies
      BY DEF RowPolicies, KnowledgePolicies, ForAll
    <3>3. /\ q.table = "skills" /\ q.cmds = Commands /\ q.roles = Editors
          /\ q.rows = "any" /\ q.kept = "any"
      BY DEF PolicyFor
    <3>4. Meets("any", ctx, new)
      BY DEF Meets
    <3> HIDE DEF q
    <3>5. q \in Applying("update", "skills", ctx) /\ q \in Applying("select", "skills", ctx)
      BY <3>1, <3>2, <3>3 DEF Applying, Commands
    <3> QED BY <3>1, <3>3, <3>4, <3>5 DEF Keeps, Sees, Reaches
  <2> QED BY <2>1, <2>2
<1> QED BY <1>2, <1>3, <1>4 DEF OutcomeOf

\* The statements of the routes are on the menu, as far as they are granted.
LEMMA StatementOnMenu ==
  ASSUME NEW role, NEW name, NEW cmd \in Commands, NEW table \in Tables,
         NEW miss \in {"go", "leave", "raise"}, Granted(cmd, table, role),
         cmd # "insert" => Granted("select", table, role)
  PROVE  Statement(cmd, table, miss) \in Menu(role, name)
BY DEF Menu, Permitted, Statements, Statement

\* A statement that a request may skip is on the menu with the statement.
LEMMA PerhapsOnMenu ==
  ASSUME NEW role, NEW name, NEW s \in Menu(role, name)
  PROVE  Perhaps(s) \in Menu(role, name)
<1>1. s \in Statements /\ (s.cmd \in Commands => Permitted(role, s) \/ Excepted(name, s))
  BY DEF Menu
<1>2. /\ Perhaps(s) \in Statements
      /\ Perhaps(s).cmd = s.cmd /\ Perhaps(s).table = s.table
      /\ Perhaps(s).retires = s.retires
  BY <1>1 DEF Statements, Perhaps
<1>3. Permitted(role, s) => Permitted(role, Perhaps(s))
  BY <1>2 DEF Permitted
<1>4. Excepted(name, s) => Excepted(name, Perhaps(s))
  BY <1>2 DEF Excepted
<1> QED BY <1>1, <1>2, <1>3, <1>4 DEF Menu

\* Reads of a granted table are on the menu.
LEMMA SelectsOnMenu ==
  ASSUME NEW role, NEW name, NEW table \in Tables, Granted("select", table, role)
  PROVE  /\ Read(table) \in Menu(role, name) /\ Perhaps(Read(table)) \in Menu(role, name)
         /\ Find(table) \in Menu(role, name)
<1>1. Read(table) \in Menu(role, name) /\ Find(table) \in Menu(role, name)
  BY StatementOnMenu DEF Read, Find, Commands
<1> QED BY <1>1, PerhapsOnMenu

\* Inserts into a granted table are on the menu.
LEMMA InsertsOnMenu ==
  ASSUME NEW role, NEW name, NEW table \in Tables, Granted("insert", table, role)
  PROVE  Put(table) \in Menu(role, name) /\ Perhaps(Put(table)) \in Menu(role, name)
<1>1. Put(table) \in Menu(role, name)
  BY StatementOnMenu DEF Put, Commands
<1> QED BY <1>1, PerhapsOnMenu

\* Updates of a granted table are on the menu.
LEMMA UpdatesOnMenu ==
  ASSUME NEW role, NEW name, NEW table \in Tables, Granted("update", table, role),
         Granted("select", table, role)
  PROVE  /\ Set(table) \in Menu(role, name) /\ Perhaps(Set(table)) \in Menu(role, name)
         /\ Alter(table) \in Menu(role, name)
<1>1. Set(table) \in Menu(role, name) /\ Alter(table) \in Menu(role, name)
  BY StatementOnMenu DEF Set, Alter, Commands
<1> QED BY <1>1, PerhapsOnMenu

\* The statements of single routes are on the menu, the excepted ones among them.
LEMMA OthersOnMenu ==
  ASSUME NEW role, NEW name
  PROVE  /\ role \in Roles => Drop("agent_connectors") \in Menu(role, name)
         /\ role = "admin" => Drop("source_connections") \in Menu(role, name)
         /\ role \in Editors => Retire("skills") \in Menu(role, name)
         /\ Owned("agent_definitions") \in Menu(role, name)
         /\ IfPerson \in Menu(role, name)
         /\ name = "report override" => IfSet("skills") \in Menu(role, name)
         /\ name = "overview" => Read("source_connections") \in Menu(role, name)
<1>1. role \in Roles => Drop("agent_connectors") \in Menu(role, name)
  BY StatementOnMenu, EveryoneMay DEF Drop, Commands, Tables, Seen
<1>2. role = "admin" => Drop("source_connections") \in Menu(role, name)
  BY StatementOnMenu, AdminsMay DEF Drop, Commands, Tables, Managed
<1>3. role \in Editors => Retire("skills") \in Menu(role, name)
  <2>1. /\ Alter("skills") \in Statements
        /\ Alter("skills").cmd = "update" /\ Alter("skills").table = "skills"
    BY DEF Alter, Statement, Statements, Commands, Tables, Seen
  <2>2. /\ Retire("skills") \in Statements
        /\ Retire("skills").cmd = "update" /\ Retire("skills").table = "skills"
    BY <2>1 DEF Retire, Statements
  <2>3. role \in Editors => Permitted(role, Retire("skills"))
    BY <2>2, EditorsMay DEF Permitted, Commands
  <2> QED BY <2>2, <2>3 DEF Menu
<1>4. Owned("agent_definitions") \in Menu(role, name) /\ IfPerson \in Menu(role, name)
  <2>1. \A cmd \in {"own", "person"}, table \in Tables, miss \in {"go", "leave", "raise"} :
          Statement(cmd, table, miss) \in Menu(role, name)
    BY DEF Menu, Statements, Statement, Commands
  <2> QED BY <2>1 DEF Owned, IfPerson, Tables, Seen
<1>5. name = "report override" => IfSet("skills") \in Menu(role, name)
  BY DEF Menu, Statements, Statement, IfSet, Commands, Excepted, Tables, Seen
<1>6. name = "overview" => Read("source_connections") \in Menu(role, name)
  BY DEF Menu, Statements, Statement, Read, Commands, Excepted, Tables, Managed
<1> QED BY <1>1, <1>2, <1>3, <1>4, <1>5, <1>6

\* What is on the menu of every role.
LEMMA ReaderMenu ==
  ASSUME NEW role \in Roles, NEW name
  PROVE  /\ \A table \in Seen : /\ Read(table) \in Menu(role, name)
                               /\ Perhaps(Read(table)) \in Menu(role, name)
                               /\ Find(table) \in Menu(role, name)
         /\ \A table \in Added : /\ Put(table) \in Menu(role, name)
                                /\ Perhaps(Put(table)) \in Menu(role, name)
         /\ \A table \in Changed : /\ Set(table) \in Menu(role, name)
                                  /\ Alter(table) \in Menu(role, name)
         /\ Drop("agent_connectors") \in Menu(role, name)
         /\ Owned("agent_definitions") \in Menu(role, name)
         /\ IfPerson \in Menu(role, name)
<1>1. Seen \subseteq Tables /\ Added \subseteq Seen /\ Changed \subseteq Seen
  BY DEF Tables, Seen, Added, Changed
<1>2. \A table \in Seen : /\ Read(table) \in Menu(role, name)
                        /\ Perhaps(Read(table)) \in Menu(role, name)
                        /\ Find(table) \in Menu(role, name)
  BY <1>1, ReadersMay, SelectsOnMenu
<1>3. \A table \in Added : /\ Put(table) \in Menu(role, name)
                         /\ Perhaps(Put(table)) \in Menu(role, name)
  BY <1>1, EveryoneAdds, InsertsOnMenu
<1>4. \A table \in Changed : /\ Set(table) \in Menu(role, name)
                           /\ Alter(table) \in Menu(role, name)
  BY <1>1, EveryoneAdds, ReadersMay, UpdatesOnMenu
<1> QED BY <1>2, <1>3, <1>4, OthersOnMenu

\* What is on the menu of editors, and so of admins.
LEMMA EditorMenu ==
  ASSUME NEW role \in Editors, NEW name
  PROVE  /\ Put("skills") \in Menu(role, name) /\ Set("skills") \in Menu(role, name)
         /\ Perhaps(Set("skills")) \in Menu(role, name)
         /\ Alter("skills") \in Menu(role, name) /\ Retire("skills") \in Menu(role, name)
         /\ Alter("reviews") \in Menu(role, name)
         /\ Put("skill_versions") \in Menu(role, name)
         /\ Perhaps(Put("skill_versions")) \in Menu(role, name)
<1>1. \A table \in {"skills", "reviews", "skill_versions"} :
        table \in Tables /\ table \in Seen
  BY DEF Tables, Seen
<1>2. role \in Roles
  BY DEF Editors, Roles
<1>3. \A table \in {"skills", "reviews"} :
        Granted("update", table, role) /\ Granted("select", table, role)
  BY <1>1, <1>2, EditorsMay, ReadersMay DEF Commands
<1>4. \A table \in {"skills", "skill_versions"} : Granted("insert", table, role)
  BY EditorsMay DEF Commands
<1>5. \A table \in {"skills", "reviews"} :
        /\ Set(table) \in Menu(role, name) /\ Perhaps(Set(table)) \in Menu(role, name)
        /\ Alter(table) \in Menu(role, name)
  BY <1>1, <1>3, UpdatesOnMenu
<1>6. \A table \in {"skills", "skill_versions"} :
        Put(table) \in Menu(role, name) /\ Perhaps(Put(table)) \in Menu(role, name)
  BY <1>1, <1>4, InsertsOnMenu
<1> QED BY <1>5, <1>6, OthersOnMenu

\* What is on the menu of admins.
LEMMA AdminMenu ==
  ASSUME NEW name
  PROVE  /\ \A table \in Managed :
              /\ Read(table) \in Menu("admin", name) /\ Find(table) \in Menu("admin", name)
              /\ Put(table) \in Menu("admin", name) /\ Set(table) \in Menu("admin", name)
              /\ Perhaps(Set(table)) \in Menu("admin", name)
              /\ Alter(table) \in Menu("admin", name)
         /\ Set("workspaces") \in Menu("admin", name)
         /\ Alter("workspaces") \in Menu("admin", name)
         /\ Drop("source_connections") \in Menu("admin", name)
<1>1. /\ Managed \subseteq Tables /\ "workspaces" \in Tables /\ "workspaces" \in Seen
      /\ "admin" \in Roles
  BY DEF Tables, Seen, Managed, Roles
<1>2. \A table \in Managed :
        /\ Granted("select", table, "admin") /\ Granted("insert", table, "admin")
        /\ Granted("update", table, "admin")
  BY AdminsMay DEF Commands
<1>3. \A table \in Managed :
        /\ Read(table) \in Menu("admin", name) /\ Find(table) \in Menu("admin", name)
  BY <1>1, <1>2, SelectsOnMenu
<1>4. \A table \in Managed : Put(table) \in Menu("admin", name)
  BY <1>1, <1>2, InsertsOnMenu
<1>5. \A table \in Managed :
        /\ Set(table) \in Menu("admin", name) /\ Perhaps(Set(table)) \in Menu("admin", name)
        /\ Alter(table) \in Menu("admin", name)
  BY <1>1, <1>2, UpdatesOnMenu
<1>6. Set("workspaces") \in Menu("admin", name) /\ Alter("workspaces") \in Menu("admin", name)
  BY <1>1, AdminsMay, ReadersMay, UpdatesOnMenu
<1> QED BY <1>3, <1>4, <1>5, <1>6, OthersOnMenu

\* Of a route: whoever its guard lets in has what it asks for on the menu.
Lets(guard, role) ==
  (guard = Role("admin") => role = "admin") /\ (guard = Role("editor") => role \in Editors)
Fine(role, r) == Lets(r.guard, role) => r.blocks \in Work(role, r.name)

\* Who names a route by its parts may judge it by them.
LEMMA FineRoute ==
  ASSUME NEW role, NEW name, NEW guard, NEW blocks,
         Lets(guard, role) => blocks \in Work(role, name)
  PROVE  /\ Fine(role, Route(name, guard, blocks))
         /\ Fine(role, InPath(Route(name, guard, blocks)))
         /\ Fine(role, ForPeople(Route(name, guard, blocks)))
BY DEF Fine, Route, InPath, ForPeople

\* The routes of skills and of the guard on agents' interactions.
LEMMA SkillRoutesFine ==
  ASSUME NEW role \in Roles, NEW r \in SkillRoutes
  PROVE  Fine(role, r)
<1> DEFINE W(name) == Work(role, name)
<1>1. \A name : /\ << <<Read("skills"), Read("agent_interactions")>> >> \in W(name)
               /\ << <<Read("skills")>> >> \in W(name)
               /\ << <<Read("skills"), Put("agent_interactions"), Read("agent_interactions")>> >>
                     \in W(name)
               /\ << <<Find("skills")>> >> \in W(name)
               /\ << <<Find("skills"), Read("skill_versions")>> >> \in W(name)
  BY ReaderMenu DEF Seen, Added, Work
<1>2. \A name : Lets(Role("editor"), role) => << <<Alter("skills")>> >> \in W(name)
  <2>1. Lets(Role("editor"), role) => role \in Editors
    BY DEF Lets
  <2>2. \A name : role \in Editors => Alter("skills") \in Menu(role, name)
    BY EditorMenu
  <2> QED BY <2>1, <2>2 DEF Work
<1>3. \A name : Lets(Role("admin"), role) =>
        /\ << <<Put("skills"), Put("reviews"), Read("skills")>> >> \in W(name)
        /\ << <<Retire("skills")>> >> \in W(name)
        /\ << <<Find("skills"), Alter("skills"), Read("reviews"), Perhaps(Put("reviews"))>> >>
              \in W(name)
  <2>1. Lets(Role("admin"), role) => role \in Editors
    BY DEF Lets, Editors
  <2>2. \A name : role \in Editors =>
          /\ Alter("skills") \in Menu(role, name) /\ Put("skills") \in Menu(role, name)
          /\ Retire("skills") \in Menu(role, name)
    BY EditorMenu
  <2>3. \A name : /\ Put("reviews") \in Menu(role, name) /\ Read("skills") \in Menu(role, name)
                 /\ Find("skills") \in Menu(role, name) /\ Read("reviews") \in Menu(role, name)
                 /\ Perhaps(Put("reviews")) \in Menu(role, name)
    BY ReaderMenu DEF Seen, Added
  <2> QED BY <2>1, <2>2, <2>3 DEF Work
<1>4. ASSUME NEW name, name = "report override"
      PROVE  << <<Find("agent_interactions"), Set("agent_interactions"), IfSet("skills"),
                  Perhaps(Read("skills")), Perhaps(Put("reviews"))>> >> \in W(name)
  <2> DEFINE M == Menu(role, name)
  <2>1. IfSet("skills") \in M
    BY <1>4, OthersOnMenu
  <2>2. /\ Find("agent_interactions") \in M /\ Set("agent_interactions") \in M
        /\ Perhaps(Read("skills")) \in M /\ Perhaps(Put("reviews")) \in M
    BY ReaderMenu DEF Seen, Added, Changed
  <2> HIDE DEF M
  <2>3. << <<Find("agent_interactions"), Set("agent_interactions"), IfSet("skills"),
                  Perhaps(Read("skills")), Perhaps(Put("reviews"))>> >> \in Seq(Seq(M))
    BY <2>1, <2>2
  <2> QED BY <2>3 DEF Work, M
<1> QED BY <1>1, <1>2, <1>3, <1>4, FineRoute, ZenonT(60) DEF SkillRoutes

\* The routes of the review queue.
LEMMA ReviewRoutesFine ==
  ASSUME NEW role \in Roles, NEW r \in ReviewRoutes
  PROVE  Fine(role, r)
<1>1. ASSUME Lets(Role("admin"), role), NEW name
      PROVE  /\ << <<Read("reviews")>> >> \in Work(role, name)
             /\ << <<Find("reviews")>> >> \in Work(role, name)
             /\ << <<Find("reviews"), Read("skills")>>,
                   <<Find("reviews"), Read("skills")>> \o Approval >> \in Work(role, name)
             /\ << <<Find("reviews"), Perhaps(Read("skills")), Perhaps(Set("skills")),
                     Alter("reviews")>> >> \in Work(role, name)
             /\ Correction \in Work(role, name)
             /\ << <<Find("reviews")>> >> \o Correction \in Work(role, name)
  <2> DEFINE M == Menu(role, name)
  <2>1. /\ Read("reviews") \in M /\ Find("reviews") \in M /\ Read("skills") \in M
        /\ Perhaps(Read("skills")) \in M /\ Find("skills") \in M
        /\ Perhaps(Read("skill_versions")) \in M
    BY ReaderMenu DEF Seen
  <2>2. role \in Editors
    BY <1>1 DEF Lets, Editors
  <2>3. /\ Perhaps(Set("skills")) \in M /\ Set("skills") \in M /\ Alter("reviews") \in M
        /\ Put("skill_versions") \in M /\ Perhaps(Put("skill_versions")) \in M
    BY <2>2, EditorMenu
  <2> HIDE DEF M
  <2>4. Approval \in Seq(M)
    BY <2>1, <2>3 DEF Approval
  <2>5. <<Find("reviews"), Read("skills")>> \o Approval \in Seq(M)
    BY <2>1, <2>4
  <2>6. Correction \in Seq(Seq(M)) /\ Correction # <<>>
    BY <2>1, <2>3 DEF Correction
  <2>7. /\ << <<Find("reviews")>> >> \o Correction \in Seq(Seq(M))
        /\ << <<Find("reviews")>> >> \o Correction # <<>>
    BY <2>1, <2>6
  <2>8. /\ << <<Read("reviews")>> >> \in Seq(Seq(M)) /\ << <<Find("reviews")>> >> \in Seq(Seq(M))
        /\ << <<Find("reviews"), Perhaps(Read("skills")), Perhaps(Set("skills")),
                Alter("reviews")>> >> \in Seq(Seq(M))
        /\ << <<Find("reviews"), Read("skills")>>,
              <<Find("reviews"), Read("skills")>> \o Approval >> \in Seq(Seq(M))
    BY <2>1, <2>3, <2>5
  <2> QED BY <2>6, <2>7, <2>8 DEF Work, M
<1> QED BY <1>1, FineRoute, ZenonT(60) DEF ReviewRoutes

\* The routes of the agent builder.
LEMMA AgentRoutesFine ==
  ASSUME NEW role \in Roles, NEW r \in AgentRoutes
  PROVE  Fine(role, r)
<1>1. ASSUME NEW name
      PROVE  /\ << <<Read("agent_definitions")>> >> \in Work(role, name)
             /\ << <<Put("agent_definitions")>> >> \in Work(role, name)
             /\ << <<Find("agent_definitions")>> >> \in Work(role, name)
             /\ << OwnAgent, <<Alter("agent_definitions")>> >> \in Work(role, name)
             /\ << <<Alter("agent_definitions")>> >> \in Work(role, name)
             /\ << <<Find("agent_definitions")>>, <<Read("agent_connectors")>> >>
                   \in Work(role, name)
             /\ << OwnAgent, <<Read("agent_connectors")>>,
                   <<Put("agent_connectors"), Set("agent_definitions")>> >> \in Work(role, name)
             /\ << OwnAgent, <<Read("agent_connectors")>>,
                   <<Drop("agent_connectors"), Set("agent_definitions")>> >> \in Work(role, name)
  <2> DEFINE M == Menu(role, name)
  <2>1. /\ Read("agent_definitions") \in M /\ Put("agent_definitions") \in M
        /\ Find("agent_definitions") \in M /\ Alter("agent_definitions") \in M
        /\ Set("agent_definitions") \in M /\ Read("agent_connectors") \in M
        /\ Put("agent_connectors") \in M /\ Drop("agent_connectors") \in M
        /\ Owned("agent_definitions") \in M
    BY ReaderMenu DEF Seen, Added, Changed
  <2> HIDE DEF M
  <2>2. OwnAgent \in Seq(M)
    BY <2>1 DEF OwnAgent
  <2>3. /\ << <<Read("agent_definitions")>> >> \in Seq(Seq(M))
        /\ << <<Put("agent_definitions")>> >> \in Seq(Seq(M))
        /\ << <<Find("agent_definitions")>> >> \in Seq(Seq(M))
        /\ << <<Alter("agent_definitions")>> >> \in Seq(Seq(M))
        /\ << <<Find("agent_definitions")>>, <<Read("agent_connectors")>> >> \in Seq(Seq(M))
    BY <2>1
  <2>4. /\ << OwnAgent, <<Alter("agent_definitions")>> >> \in Seq(Seq(M))
        /\ << OwnAgent, <<Read("agent_connectors")>>,
              <<Put("agent_connectors"), Set("agent_definitions")>> >> \in Seq(Seq(M))
        /\ << OwnAgent, <<Read("agent_connectors")>>,
              <<Drop("agent_connectors"), Set("agent_definitions")>> >> \in Seq(Seq(M))
    BY <2>1, <2>2
  <2> QED BY <2>3, <2>4 DEF Work, M
<1> QED BY <1>1, FineRoute, ZenonT(60) DEF AgentRoutes

\* The routes of the brain and its conversations.
LEMMA BrainRoutesFine ==
  ASSUME NEW role \in Roles, NEW r \in BrainRoutes
  PROVE  Fine(role, r)
<1>1. ASSUME NEW name
      PROVE  /\ << <<Read("skills")>> >> \in Work(role, name)
             /\ Retrieval \o << Turn(Put("brain_conversations")) >> \in Work(role, name)
             /\ Retrieval \o << Turn(Find("brain_conversations")) >> \in Work(role, name)
             /\ << <<Read("brain_conversations")>> >> \in Work(role, name)
             /\ << <<Find("brain_conversations"), Read("brain_messages")>> >>
                   \in Work(role, name)
  <2> DEFINE M == Menu(role, name)
  <2>1. /\ Read("skills") \in M /\ Perhaps(Read("reviews")) \in M
        /\ Perhaps(Read("skill_versions")) \in M /\ Perhaps(Read("users")) \in M
        /\ Read("brain_chunks") \in M /\ Read("brain_conversations") \in M
        /\ Find("brain_conversations") \in M /\ Read("brain_messages") \in M
    BY ReaderMenu DEF Seen
  <2>2. /\ Put("agent_interactions") \in M /\ Put("brain_conversations") \in M
        /\ Put("brain_messages") \in M /\ Set("brain_conversations") \in M /\ IfPerson \in M
    BY ReaderMenu DEF Added, Changed
  <2> HIDE DEF M
  <2>3. Retrieval \in Seq(Seq(M))
    BY <2>1 DEF Retrieval
  <2>4. \A s \in M : Turn(s) \in Seq(M)
    BY <2>2 DEF Turn
  <2>5. \A t \in Seq(M) : Retrieval \o <<t>> \in Seq(Seq(M)) /\ Retrieval \o <<t>> # <<>>
    BY <2>3
  <2>6. /\ << <<Read("skills")>> >> \in Seq(Seq(M))
        /\ << <<Read("brain_conversations")>> >> \in Seq(Seq(M))
        /\ << <<Find("brain_conversations"), Read("brain_messages")>> >> \in Seq(Seq(M))
    BY <2>1
  <2>7. /\ Turn(Put("brain_conversations")) \in Seq(M)
        /\ Turn(Find("brain_conversations")) \in Seq(M)
    BY <2>1, <2>2, <2>4
  <2> QED BY <2>5, <2>6, <2>7 DEF Work, M
<1> QED BY <1>1, FineRoute, ZenonT(60) DEF BrainRoutes

\* The routes of sources and sweeps.
LEMMA SourceRoutesFine ==
  ASSUME NEW role \in Roles, NEW r \in SourceRoutes \cup SweepRoutes
  PROVE  Fine(role, r)
<1> DEFINE Started == <<Read("sweeps"), Perhaps(Put("sweeps")),
                        Perhaps(Set("source_connections"))>>
<1>1. ASSUME Lets(Role("admin"), role), NEW name
      PROVE  /\ << <<Read("source_connections"), Read("source_events")>> >> \in Work(role, name)
             /\ << <<Find("source_connections"), Read("source_events")>> >> \in Work(role, name)
             /\ << <<Find("source_connections")>>, Started >> \in Work(role, name)
             /\ << <<Find("source_connections")>>,
                   <<Set("webhook_subscriptions"), Drop("source_connections")>> >>
                   \in Work(role, name)
             /\ << <<Find("source_connections"), Read("source_channels")>> >>
                   \in Work(role, name)
             /\ << <<Find("source_connections"), Perhaps(Set("source_connections")),
                     Put("source_channels"), Read("source_channels")>> >> \in Work(role, name)
             /\ << Started >> \in Work(role, name)
             /\ << <<Read("sweeps")>> >> \in Work(role, name)
             /\ << <<Find("sweeps")>> >> \in Work(role, name)
  <2> DEFINE M == Menu(role, name)
  <2>1. role = "admin"
    BY <1>1 DEF Lets
  <2>2. /\ Read("source_connections") \in M /\ Find("source_connections") \in M
        /\ Perhaps(Set("source_connections")) \in M /\ Set("webhook_subscriptions") \in M
        /\ Drop("source_connections") \in M /\ Put("source_channels") \in M
    BY <2>1, AdminMenu DEF Managed
  <2>3. /\ Read("source_events") \in M /\ Read("source_channels") \in M
        /\ Read("sweeps") \in M /\ Find("sweeps") \in M /\ Perhaps(Put("sweeps")) \in M
    BY ReaderMenu DEF Seen, Added
  <2> HIDE DEF M
  <2>4. Started \in Seq(M)
    BY <2>2, <2>3
  <2> HIDE DEF Started
  <2>5. /\ << <<Find("source_connections")>>, Started >> \in Seq(Seq(M))
        /\ << Started >> \in Seq(Seq(M))
        /\ << <<Read("sweeps")>> >> \in Seq(Seq(M)) /\ << <<Find("sweeps")>> >> \in Seq(Seq(M))
    BY <2>2, <2>3, <2>4
  <2>6. /\ << <<Read("source_connections"), Read("source_events")>> >> \in Seq(Seq(M))
        /\ << <<Find("source_connections"), Read("source_events")>> >> \in Seq(Seq(M))
        /\ << <<Find("source_connections")>>,
              <<Set("webhook_subscriptions"), Drop("source_connections")>> >> \in Seq(Seq(M))
        /\ << <<Find("source_connections"), Read("source_channels")>> >> \in Seq(Seq(M))
        /\ << <<Find("source_connections"), Perhaps(Set("source_connections")),
                Put("source_channels"), Read("source_channels")>> >> \in Seq(Seq(M))
    BY <2>2, <2>3
  <2> QED BY <2>5, <2>6 DEF Work, M
<1> QED BY <1>1, FineRoute, ZenonT(60) DEF SourceRoutes, SweepRoutes

\* The routes of runs, decisions, the workspace and its keys.
LEMMA OtherRoutesFine ==
  ASSUME NEW role \in Roles,
         NEW r \in RunRoutes \cup DecisionRoutes \cup WorkspaceRoutes \cup KeyRoutes
  PROVE  Fine(role, r)
<1>1. ASSUME NEW name
      PROVE  /\ << <<Put("agent_runs"), Read("agent_runs")>> >> \in Work(role, name)
             /\ << <<Read("decisions"), Read("users")>> >> \in Work(role, name)
             /\ << <<Find("decisions")>> >> \in Work(role, name)
             /\ << <<Find("workspaces")>> >> \in Work(role, name)
  <2> DEFINE M == Menu(role, name)
  <2>1. /\ Put("agent_runs") \in M /\ Read("agent_runs") \in M /\ Read("decisions") \in M
        /\ Read("users") \in M /\ Find("decisions") \in M /\ Find("workspaces") \in M
    BY ReaderMenu DEF Seen, Added
  <2> HIDE DEF M
  <2> QED BY <2>1 DEF Work, M
<1>2. ASSUME Lets(Role("admin"), role), NEW name
      PROVE  /\ << <<Set("workspaces")>> >> \in Work(role, name)
             /\ << <<Alter("workspaces")>> >> \in Work(role, name)
             /\ << <<Read("api_keys")>> >> \in Work(role, name)
             /\ << <<Put("api_keys")>> >> \in Work(role, name)
             /\ << <<Alter("api_keys")>> >> \in Work(role, name)
  <2> DEFINE M == Menu(role, name)
  <2>1. role = "admin"
    BY <1>2 DEF Lets
  <2>2. /\ Set("workspaces") \in M /\ Alter("workspaces") \in M /\ Read("api_keys") \in M
        /\ Put("api_keys") \in M /\ Alter("api_keys") \in M
    BY <2>1, AdminMenu DEF Managed
  <2> HIDE DEF M
  <2> QED BY <2>2 DEF Work, M
<1> QED BY <1>1, <1>2, FineRoute, ZenonT(60)
           DEF RunRoutes, DecisionRoutes, WorkspaceRoutes, KeyRoutes

\* The routes of members and of the dashboard.
LEMMA PeopleRoutesFine ==
  ASSUME NEW role \in Roles, NEW r \in MemberRoutes \cup DashboardRoutes
  PROVE  Fine(role, r)
<1>1. ASSUME NEW name
      PROVE  /\ << <<Read("workspace_members"), Read("users"), Find("workspaces")>> >>
                   \in Work(role, name)
             /\ << <<Read("agent_interactions"), Read("skills")>> >> \in Work(role, name)
             /\ << <<Read("activity_events")>> >> \in Work(role, name)
             /\ name = "overview" =>
                  << <<Find("workspaces"), Read("users"), Read("decisions"), Read("skills"),
                       Read("reviews"), Read("source_connections"), Read("brain_messages"),
                       Read("source_channels"), Read("activity_events")>> >>
                    \in Work(role, name)
             /\ Lets(Role("admin"), role) =>
                  << <<Read("workspace_members"), Read("invitations"), Find("workspaces"),
                       Put("invitations")>> >> \in Work(role, name)
  <2> DEFINE M == Menu(role, name)
  <2>1. /\ Read("workspace_members") \in M /\ Read("users") \in M /\ Find("workspaces") \in M
        /\ Read("agent_interactions") \in M /\ Read("skills") \in M
        /\ Read("activity_events") \in M /\ Read("decisions") \in M /\ Read("reviews") \in M
        /\ Read("brain_messages") \in M /\ Read("source_channels") \in M
    BY ReaderMenu DEF Seen
  <2>2. name = "overview" => Read("source_connections") \in M
    BY OthersOnMenu
  <2>3. Lets(Role("admin"), role) => Read("invitations") \in M /\ Put("invitations") \in M
    BY AdminMenu DEF Lets, Managed
  <2> HIDE DEF M
  <2>4. /\ << <<Read("workspace_members"), Read("users"), Find("workspaces")>> >> \in Seq(Seq(M))
        /\ << <<Read("agent_interactions"), Read("skills")>> >> \in Seq(Seq(M))
        /\ << <<Read("activity_events")>> >> \in Seq(Seq(M))
    BY <2>1
  <2>5. name = "overview" =>
          << <<Find("workspaces"), Read("users"), Read("decisions"), Read("skills"),
               Read("reviews"), Read("source_connections"), Read("brain_messages"),
               Read("source_channels"), Read("activity_events")>> >> \in Seq(Seq(M))
    BY <2>1, <2>2
  <2>6. Lets(Role("admin"), role) =>
          << <<Read("workspace_members"), Read("invitations"), Find("workspaces"),
               Put("invitations")>> >> \in Seq(Seq(M))
    BY <2>1, <2>3
  <2> QED BY <2>4, <2>5, <2>6 DEF Work, M
<1> QED BY <1>1, FineRoute, ZenonT(60) DEF MemberRoutes, DashboardRoutes

\* Every route is fine for every role.
LEMMA RoutesFine == \A role \in Roles, r \in Routes : Fine(role, r)
BY SkillRoutesFine, ReviewRoutesFine, AgentRoutesFine, BrainRoutesFine, SourceRoutesFine,
   OtherRoutesFine, PeopleRoutesFine DEF Routes

\* A guard lets in whom it admits.
LEMMA AdmittedAreLetIn ==
  ASSUME NEW r \in Routes, NEW auth \in AuthContexts, auth.role \in Roles,
         Admits(r.guard, auth)
  PROVE  Lets(r.guard, auth.role)
<1>1. Role("admin").by = "role" /\ Role("admin").name = "admin"
  BY DEF Role
<1>2. Role("editor").by = "role" /\ Role("editor").name = "editor"
  BY DEF Role
<1>3. auth.role \in {"admin", "editor", "viewer"}
  BY DEF Roles
<1>4. r.guard = Role("admin") => auth.role = "admin"
  BY <1>1, <1>3 DEF Admits, Rank
<1>5. r.guard = Role("editor") => auth.role \in Editors
  BY <1>2, <1>3 DEF Admits, Rank, Editors
<1> QED BY <1>4, <1>5 DEF Lets

\* What is left of a request's transactions is on the menu of its route.
TodoFits ==
  \A x \in Visits : visit[x].phase # "idle" =>
    /\ todo[x] \in Seq(Seq(Menu(visit[x].auth.role, visit[x].route)))
    /\ visit[x].phase \in {"routed", "inside"} => todo[x] # <<>>

\* Transactions stay on a menu as their first one is run or dropped.
LEMMA MenuStepped ==
  ASSUME NEW M, NEW work \in Seq(Seq(M)), work # <<>>
  PROVE  /\ Tail(work) \in Seq(Seq(M))
         /\ << <<>> >> \o Tail(work) \in Seq(Seq(M)) /\ << <<>> >> \o Tail(work) # <<>>
         /\ work[1] # <<>> =>
              /\ Head(work[1]) \in M
              /\ <<Tail(work[1])>> \o Tail(work) \in Seq(Seq(M))
              /\ <<Tail(work[1])>> \o Tail(work) # <<>>
<1>1. Tail(work) \in Seq(Seq(M)) /\ work[1] \in Seq(M)
  OBVIOUS
<1>2. \A s \in Seq(M) : <<s>> \o Tail(work) \in Seq(Seq(M)) /\ <<s>> \o Tail(work) # <<>>
  BY <1>1
<1>3. <<>> \in Seq(M)
  OBVIOUS
<1>4. work[1] # <<>> => Head(work[1]) \in M /\ Tail(work[1]) \in Seq(M)
  BY <1>1
<1> QED BY <1>1, <1>2, <1>3, <1>4

\* The statement that is due is on the menu, and so is what is left after it.
LEMMA DueStepped ==
  ASSUME TodoFits, NEW x \in Visits, visit[x].phase = "inside"
  PROVE  LET M == Menu(visit[x].auth.role, visit[x].route)
         IN  /\ Tail(todo[x]) \in Seq(Seq(M))
             /\ << <<>> >> \o Tail(todo[x]) \in Seq(Seq(M)) /\ << <<>> >> \o Tail(todo[x]) # <<>>
             /\ AtStatement(x) =>
                  Due(x) \in M /\ After(x) \in Seq(Seq(M)) /\ After(x) # <<>>
<1>1. /\ todo[x] \in Seq(Seq(Menu(visit[x].auth.role, visit[x].route))) /\ todo[x] # <<>>
  BY DEF TodoFits
<1> QED BY <1>1, MenuStepped DEF AtStatement, Due, After

\* The heart of it: a statement that is due on a row of the caller's own does its work.
LEMMA DueWorks ==
  ASSUME TenancyInvariant, TodoFits, NEW x \in Visits, NEW c \in Pool, pooled[c].by = x,
         AtStatement(x), OnOwnRow(x), Due(x).cmd \in Commands
  PROVE  Outcome(x, c, Due(x)) = "done" \/ Narrower(x, Run(x, c, Due(x)))
<1> DEFINE s == Due(x)
           ctx == pooled[c].ctx
           row == visit[x].row
           new == Turned(x, s)
<1>1. /\ visit[x].phase = "inside" /\ x # NoVisitor
  BY TenancyConstants DEF AtStatement
<1>2. s \in Menu(visit[x].auth.role, visit[x].route)
  BY <1>1, DueStepped
<1>3. /\ ctx = TenantContext(x) /\ visit[x].ws = visit[x].auth.ws /\ visit[x].ws \in Tenants
      /\ row \in TenantRows /\ visit[x].auth \in AuthContexts
  BY <1>1 DEF TenancyInvariant, SettingsAreTheCalls, CallersStand
<1>4. /\ ctx.ws = visit[x].auth.ws /\ ctx.user = visit[x].auth.user
      /\ ctx.role = visit[x].auth.role
  BY <1>3 DEF TenantContext
<1>5. visit[x].auth.role \in Roles /\ visit[x].auth.user \in People
  BY <1>3, TenancyConstants DEF AuthContexts, SignIns, KeyHolders, Roles
<1>6. row.ws = ctx.ws /\ row.owner = ctx.user /\ row.live
  BY <1>4 DEF OnOwnRow
<1>7. s \in Statements /\ (Permitted(ctx.role, s) \/ Excepted(visit[x].route, s))
  BY <1>2, <1>4 DEF Menu
<1>8. CASE Permitted(ctx.role, s)
  <2>1. new \in TenantRows /\ new.ws = ctx.ws /\ new.owner = ctx.user /\ (s.retires \/ new.live)
    <3>1. CASE s.cmd = "insert"
      BY <1>3, <1>4, <1>5, <3>1 DEF Turned, TenantRows
    <3>2. CASE s.cmd # "insert"
      BY <1>3, <1>6, <1>7, <3>2 DEF Turned, TenantRows, Statements
    <3> QED BY <3>1, <3>2
  <2>2. OutcomeOf(s.cmd, s.table, ctx, row, new) = "done"
    BY <1>3, <1>4, <1>5, <1>6, <1>8, <2>1, PermittedWorks
  <2> QED BY <2>2 DEF Outcome, Commands
<1>9. CASE Excepted(visit[x].route, s)
  BY <1>9 DEF Excepted, Narrower, Run
<1> QED BY <1>7, <1>8, <1>9

\* AdmittedRequestsWork, one request at a time.
WorksFor(x) ==
  OnOwnRow(x) => \A m \in met[x] : m.cmd \in Commands => m.outcome = "done" \/ Narrower(x, m)

\* What a step does not touch of a request goes on working,
LEMMA WorkKept ==
  ASSUME AdmittedRequestsWork, NEW x \in Visits, met'[x] \subseteq met[x],
         visit'[x].auth = visit[x].auth, visit'[x].row = visit[x].row,
         visit'[x].route = visit[x].route, visit[x].phase = "idle" => visit'[x].phase = "idle"
  PROVE  WorksFor(x)'
BY DEF AdmittedRequestsWork, WorksFor, OnOwnRow, Narrower

\* and so does a request whose statement is run.
LEMMA WorkRun ==
  ASSUME TenancyInvariant, TodoFits, AdmittedRequestsWork, NEW x \in Visits, NEW c \in Pool,
         pooled[c].by = x, AtStatement(x), RunDue(x, c), visit' \in [Visits -> CallRecords],
         \A y \in Visits : /\ visit'[y].auth = visit[y].auth /\ visit'[y].row = visit[y].row
                           /\ visit'[y].route = visit[y].route
                           /\ visit'[y].phase = "idle" <=> visit[y].phase = "idle"
  PROVE  AdmittedRequestsWork'
<1>1. DOMAIN met = Visits
  BY DEF TenancyInvariant, TenancyTypeOK
<1>2. \A y \in Visits : met'[y] = IF y = x THEN met[x] \cup {Run(x, c, Due(x))} ELSE met[y]
  BY <1>1 DEF RunDue
<1>3. ASSUME NEW y \in Visits, OnOwnRow(y)', NEW m \in met'[y], m.cmd \in Commands
      PROVE  m.outcome = "done" \/ Narrower(y, m)'
  <2>1. OnOwnRow(y) /\ (Narrower(y, m) => Narrower(y, m)')
    BY <1>3 DEF OnOwnRow, Narrower
  <2>2. CASE m \in met[y]
    BY <1>3, <2>1, <2>2 DEF AdmittedRequestsWork
  <2>3. CASE m \notin met[y]
    <3>1. y = x /\ m = Run(x, c, Due(x))
      BY <1>2, <1>3, <2>3
    <3>2. m.cmd = Due(x).cmd /\ m.outcome = Outcome(x, c, Due(x))
      BY <3>1 DEF Run
    <3> QED BY <1>3, <2>1, <3>1, <3>2, DueWorks
  <2> QED BY <2>2, <2>3
<1> QED BY <1>3 DEF AdmittedRequestsWork

\* The inductive invariant, beside TenancyInvariant.
Admission == TodoFits /\ AdmittedRequestsWork

\* It holds before the first request,
LEMMA AdmissionStarts == TenancyInit => Admission
BY DEF TenancyInit, NoVisit, Admission, TodoFits, AdmittedRequestsWork, OnOwnRow

\* and every step of a request keeps it.
LEMMA AdmissionStays ==
  TenancyInvariant /\ TenancyInvariant' /\ Admission /\ [TenancyNext]_tenancyVars => Admission'
<1> SUFFICES ASSUME TenancyInvariant, TenancyInvariant', Admission, [TenancyNext]_tenancyVars
             PROVE  Admission'
  OBVIOUS
<1>t. /\ visit \in [Visits -> CallRecords] /\ visit' \in [Visits -> CallRecords]
      /\ DOMAIN todo = Visits /\ DOMAIN met = Visits /\ TodoFits /\ AdmittedRequestsWork
  BY DEF TenancyInvariant, TenancyTypeOK, Admission
<1>k. ASSUME NEW x \in Visits, \A y \in Visits \ {x} : /\ visit'[y] = visit[y]
                                                      /\ todo'[y] = todo[y] /\ met'[y] = met[y],
             visit'[x].phase # "idle" =>
               /\ todo'[x] \in Seq(Seq(Menu(visit'[x].auth.role, visit'[x].route)))
               /\ visit'[x].phase \in {"routed", "inside"} => todo'[x] # <<>>,
             WorksFor(x)'
      PROVE  Admission'
  <2>1. TodoFits'
    BY <1>k, <1>t DEF TodoFits
  <2>2. \A y \in Visits : WorksFor(y)'
    BY <1>k, <1>t, WorkKept
  <2> QED BY <2>1, <2>2 DEF Admission, AdmittedRequestsWork, WorksFor
<1>p. ASSUME NEW x \in Visits, NEW p \in {"inside", "served", "routed", "refused", "failed"},
             visit[x].phase \in {"routed", "inside"}, visit' = [visit EXCEPT ![x].phase = p]
      PROVE  /\ visit'[x].phase = p /\ \A y \in Visits \ {x} : visit'[y] = visit[y]
             /\ \A y \in Visits : /\ visit'[y].auth = visit[y].auth /\ visit'[y].row = visit[y].row
                                  /\ visit'[y].route = visit[y].route
                                  /\ visit'[y].phase = "idle" <=> visit[y].phase = "idle"
  BY <1>p, <1>t DEF CallRecords
<1>1. ASSUME NEW x \in Visits, NEW auth \in AuthContexts, NEW w \in Tenants,
             NEW row \in TenantRows, NEW route \in Routes, Arrive(x, auth, route, w, row)
      PROVE  Admission'
  <2>1. /\ visit[x].phase = "idle" /\ met' = met /\ todo' = [todo EXCEPT ![x] = route.blocks]
        /\ \A y \in Visits \ {x} : visit'[y] = visit[y]
        /\ visit'[x].auth = auth /\ visit'[x].route = route.name /\ visit'[x].phase = "routed"
        /\ Admits(route.guard, auth) /\ visit'[x].ws = TenantFor(route, auth, w)
    BY <1>1, <1>t DEF Arrive
  <2>2. auth.role \in Roles
    <3>1. auth.ws \in Tenants
      BY <2>1 DEF TenancyInvariant, CallersStand
    <3> QED BY <3>1, TenancyConstants DEF AuthContexts, SignIns, KeyHolders, Roles
  <2>3. route.blocks \in Work(auth.role, route.name)
    BY <2>1, <2>2, AdmittedAreLetIn, RoutesFine DEF Fine
  <2>4. met[x] = {}
    BY <2>1 DEF TenancyInvariant, CallersStand
  <2>5. WorksFor(x)'
    BY <2>1, <2>4 DEF WorksFor
  <2> QED BY <2>1, <2>3, <2>5, <1>t, <1>k DEF Work
<1>2. ASSUME NEW x \in Visits, NEW c \in Pool, OpenTenant(x, c)
      PROVE  Admission'
  <2>1. /\ visit[x].phase = "routed" /\ visit' = [visit EXCEPT ![x].phase = "inside"]
        /\ todo' = todo /\ met' = met
    BY <1>2 DEF OpenTenant
  <2>2. WorksFor(x)'
    BY <2>1, <1>p, <1>t, WorkKept
  <2> QED BY <2>1, <2>2, <1>t, <1>p, <1>k DEF TodoFits
<1>3. ASSUME NEW x \in Visits, NEW c \in Pool, Execute(x, c) \/ LeaveOut(x, c)
      PROVE  Admission'
  <2>1. /\ visit' = visit /\ pooled[c].by = x /\ AtStatement(x) /\ RunDue(x, c)
        /\ \/ todo' = [todo EXCEPT ![x] = After(x)]
           \/ todo' = [todo EXCEPT ![x] = << <<>> >> \o Tail(todo[x])]
    BY <1>3 DEF Execute, LeaveOut
  <2>2. visit[x].phase = "inside"
    BY <2>1 DEF AtStatement
  <2>3. AdmittedRequestsWork'
    BY <2>1, <1>t, WorkRun
  <2>4. TodoFits'
    <3>1. todo'[x] \in Seq(Seq(Menu(visit[x].auth.role, visit[x].route))) /\ todo'[x] # <<>>
      BY <2>1, <2>2, <1>t, DueStepped
    <3>2. \A y \in Visits \ {x} : todo'[y] = todo[y]
      BY <2>1, <1>t
    <3> QED BY <2>1, <3>1, <3>2, <1>t DEF TodoFits
  <2> QED BY <2>3, <2>4 DEF Admission
<1>4. ASSUME NEW x \in Visits, NEW c \in Pool, Raise(x, c)
      PROVE  Admission'
  <2>1. PICK p \in {"refused", "failed"} : visit' = [visit EXCEPT ![x].phase = p]
    BY <1>4 DEF Raise
  <2>2. /\ AtStatement(x) /\ RunDue(x, c) /\ todo' = todo /\ pooled[c].by = x
        /\ visit[x].phase = "inside"
    BY <1>4 DEF Raise, GiveBack, AtStatement
  <2>3. AdmittedRequestsWork'
    BY <2>1, <2>2, <1>t, <1>p, WorkRun
  <2>4. TodoFits'
    BY <2>1, <2>2, <1>t, <1>p DEF TodoFits
  <2> QED BY <2>3, <2>4 DEF Admission
<1>5. ASSUME NEW x \in Visits, NEW c \in Pool, CommitTenant(x, c)
      PROVE  Admission'
  <2>1. /\ visit[x].phase = "inside" /\ met' = met /\ todo' = [todo EXCEPT ![x] = Tail(todo[x])]
        /\ visit' = [visit EXCEPT ![x].phase = IF Tail(todo[x]) = <<>> THEN "served" ELSE "routed"]
    BY <1>5 DEF CommitTenant
  <2>2. Tail(todo[x]) \in Seq(Seq(Menu(visit[x].auth.role, visit[x].route)))
    BY <2>1, <1>t, DueStepped
  <2>3. WorksFor(x)'
    BY <2>1, <1>p, <1>t, WorkKept
  <2> QED BY <2>1, <2>2, <2>3, <1>t, <1>p, <1>k
<1>6. ASSUME NEW x \in Visits, Leave(x)
      PROVE  Admission'
  <2>1. /\ visit'[x].phase = "idle"
        /\ \A y \in Visits \ {x} : visit'[y] = visit[y] /\ todo'[y] = todo[y] /\ met'[y] = met[y]
    BY <1>6, <1>t DEF Leave, NoVisit
  <2>2. WorksFor(x)'
    BY <2>1 DEF WorksFor, OnOwnRow
  <2> QED BY <2>1, <2>2, <1>k
<1>7. ASSUME NEW x \in Visits, PassOver(x)
      PROVE  Admission'
  <2>1. /\ visit' = visit /\ met' = met /\ AtStatement(x) /\ visit[x].phase = "inside"
        /\ todo' = [todo EXCEPT ![x] = After(x)]
    BY <1>7 DEF PassOver, AtStatement
  <2>2. WorksFor(x)'
    BY <2>1, <1>t, WorkKept
  <2> QED BY <2>1, <2>2, <1>t, <1>k, DueStepped
<1>8. CASE UNCHANGED tenancyVars
  BY <1>8, <1>t DEF tenancyVars, Admission, TodoFits, AdmittedRequestsWork, OnOwnRow, Narrower
<1> QED
  BY <1>1, <1>2, <1>3, <1>4, <1>5, <1>6, <1>7, <1>8 DEF TenancyNext, CancelCall, Respond

\* Whatever a route's guard lets a caller do to its own rows, the policies let it do, for
\* any workspaces, users, scopes of API keys, routes that are served and requests under way.
THEOREM AdmittedWork == TenancySpec => []AdmittedRequestsWork
<1>1. TenancyInit => TenancyInvariant /\ OnlyOwnRowsMet /\ Admission
  BY TenancyStarts, AdmissionStarts
<1>2. TenancyInvariant /\ OnlyOwnRowsMet /\ Admission /\ [TenancyNext]_tenancyVars
        => TenancyInvariant' /\ OnlyOwnRowsMet' /\ Admission'
  BY TenancyStays, AdmissionStays
<1>3. Admission => AdmittedRequestsWork
  BY DEF Admission
<1> QED BY <1>1, <1>2, <1>3, PTL DEF TenancySpec

=============================================================================
