------------------------------- MODULE Workspaces -------------------------------
(***************************************************************************)
(* What a workspace hands out: invitations, each of which holds a seat     *)
(* (modules/members), and API keys, which every API process resolves       *)
(* against the database and then remembers for a while (modules/api_keys,  *)
(* shared/middleware/authenticate.py).  The transactions read committed    *)
(* rows and take no locks before they write.                               *)
(***************************************************************************)
EXTENDS Naturals, FiniteSets

CONSTANTS
  Invitees,    \* addresses, in lower case
  Invites,     \* rows of invitations: a bound on those ever inserted
  Admins,      \* calls of invite_member under way at once
  SeatLimit,   \* workspaces.seat_limit
  Members,     \* the active members
  Keys,        \* rows of api_keys
  Processes,   \* API processes, each with a cache of its own
  NoInvitee

ASSUME WorkspaceConstants ==
  /\ NoInvitee \notin Invitees
  /\ IsFiniteSet(Members) /\ IsFiniteSet(Invites) /\ IsFiniteSet(Admins)
  /\ Admins # {}
  /\ SeatLimit \in Nat /\ Cardinality(Members) <= SeatLimit

VARIABLES
  invite,      \* invite[i]: a row of invitations
  ask,         \* ask[r]: a call of invite_member
  crowded,     \* an invitation went out on a count that another had made stale
  key,         \* key[k]: a row of api_keys
  found,       \* found[p]: the keys a request has resolved and not yet stored
  cache        \* cache[p]: _api_key_cache of process p, the entries not yet lapsed

inviteVars == <<invite, ask, crowded>>
keyVars == <<key, found, cache>>
workspaceVars == <<inviteVars, keyVars>>

NoInvite == [status |-> "absent", email |-> NoInvitee]
NoAsk == [phase |-> "idle", email |-> NoInvitee, stale |-> FALSE]

WorkspaceTypeOK ==
  /\ invite \in [Invites -> [status : {"absent", "pending", "lapsed"},
                             email : Invitees \cup {NoInvitee}]]
  /\ ask \in [Admins -> [phase : {"idle", "asked", "counted"},
                         email : Invitees \cup {NoInvitee}, stale : BOOLEAN]]
  /\ crowded \in BOOLEAN
  /\ key \in [Keys -> {"absent", "live", "revoked"}]
  /\ found \in [Processes -> SUBSET Keys] /\ cache \in [Processes -> SUBSET Keys]

WorkspaceInit ==
  /\ invite = [i \in Invites |-> NoInvite]
  /\ ask = [r \in Admins |-> NoAsk]
  /\ crowded = FALSE
  /\ key = [k \in Keys |-> "absent"]
  /\ found = [p \in Processes |-> {}] /\ cache = [p \in Processes |-> {}]

(***************************************************************************)
(* invite_member: four reads and an insert.                                *)
(***************************************************************************)
\* A row keeps the status pending for good; the reads look at expires_at too.
Outstanding == {i \in Invites : invite[i].status = "pending"}
PendingRow(e) == {i \in Invites : invite[i].status # "absent" /\ invite[i].email = e}

\* email_status.
EmailStatus(r, e) ==
  /\ ask[r].phase = "idle"
  /\ \A i \in Outstanding : invite[i].email # e
  /\ ask' = [ask EXCEPT ![r] = [NoAsk EXCEPT !.phase = "asked", !.email = e]]
  /\ UNCHANGED <<invite, crowded, keyVars>>

\* A mutant: an invitation holds no seat.
MembersOnly == Cardinality(Members)

\* count_active_members and count_pending_invites.
SeatsTaken == Cardinality(Members) + Cardinality(Outstanding)

CountSeats(r) ==
  /\ ask[r].phase = "asked"
  /\ ask' = [ask EXCEPT ![r] = IF SeatsTaken >= SeatLimit THEN NoAsk
                               ELSE [@ EXCEPT !.phase = "counted"]]
  /\ UNCHANGED <<invite, crowded, keyVars>>

\* create_invitation: the unique index on the pending rows of an address does not look at
\* expires_at, so an invitation that lapsed refuses the next as well.
InsertInvite(r, i) ==
  LET e == ask[r].email
  IN /\ ask[r].phase = "counted" /\ invite[i].status = "absent"
     /\ IF PendingRow(e) # {}
        THEN /\ UNCHANGED <<invite, crowded>>
             /\ ask' = [ask EXCEPT ![r] = NoAsk]
        ELSE /\ invite' = [invite EXCEPT ![i] = [status |-> "pending", email |-> e]]
             /\ ask' = [q \in Admins |->
                  IF q = r THEN NoAsk
                  ELSE [ask[q] EXCEPT !.stale = @ \/ ask[q].phase = "counted"]]
             /\ crowded' = (crowded \/ ask[r].stale)
     /\ UNCHANGED keyVars

Lapse(i) ==
  /\ invite[i].status = "pending"
  /\ invite' = [invite EXCEPT ![i].status = "lapsed"]
  /\ UNCHANGED <<ask, crowded, keyVars>>

(***************************************************************************)
(* API keys.                                                               *)
(***************************************************************************)
CreateKey(k) ==
  /\ key[k] = "absent"
  /\ key' = [key EXCEPT ![k] = "live"]
  /\ UNCHANGED <<inviteVars, found, cache>>

\* revoke_key tells no process of it.
RevokeKey(k) ==
  /\ key[k] = "live"
  /\ key' = [key EXCEPT ![k] = "revoked"]
  /\ UNCHANGED <<inviteVars, found, cache>>

\* A mutant: revoked_at is not looked at.
Known(k) == key[k] # "absent"

\* resolve_api_key_by_hash.
Resolvable(k) == key[k] = "live"

\* _from_api_key without an entry: the row is looked up, and a miss drops the entry.
ResolveKey(p, k) ==
  /\ k \notin cache[p]
  /\ Resolvable(k)
  /\ found' = [found EXCEPT ![p] = @ \cup {k}]
  /\ UNCHANGED <<inviteVars, key, cache>>

\* After the await; the entry's time starts now.
StoreKey(p, k) ==
  /\ k \in found[p]
  /\ found' = [found EXCEPT ![p] = @ \ {k}]
  /\ cache' = [cache EXCEPT ![p] = @ \cup {k}]
  /\ UNCHANGED <<inviteVars, key>>

\* _API_KEY_CACHE_TTL_SECONDS have passed.
ForgetKey(p, k) ==
  /\ k \in cache[p]
  /\ cache' = [cache EXCEPT ![p] = @ \ {k}]
  /\ UNCHANGED <<inviteVars, key, found>>

InviteNext ==
  \/ \E r \in Admins : \/ \E e \in Invitees : EmailStatus(r, e)
                       \/ CountSeats(r)
                       \/ \E i \in Invites : InsertInvite(r, i)
  \/ \E i \in Invites : Lapse(i)

KeyNext ==
  \E k \in Keys : \/ CreateKey(k) \/ RevokeKey(k)
                  \/ \E p \in Processes : ResolveKey(p, k) \/ StoreKey(p, k) \/ ForgetKey(p, k)

WorkspaceNext == InviteNext \/ KeyNext

\* Lookups end and the clock goes on.
WorkspaceFairness ==
  \A p \in Processes, k \in Keys :
    WF_workspaceVars(StoreKey(p, k)) /\ WF_workspaceVars(ForgetKey(p, k))

WorkspaceSpec == WorkspaceInit /\ [][WorkspaceNext]_workspaceVars /\ WorkspaceFairness

-------------------------------------------------------------------------------
\* Members and outstanding invitations hold no more seats than the workspace has
\* (modules/members/service.py:145), unless an invitation was sent on a count that
\* another admin's had made stale.
SeatsHold ==
  crowded \/ Cardinality(Members) + Cardinality(Outstanding) <= SeatLimit

\* A revoked key is refused by every process from some time on, whatever lookups of it
\* were under way when it was revoked.
RevokedIsForgotten ==
  \A k \in Keys, p \in Processes : key[k] = "revoked" ~> [](k \notin cache[p])
===============================================================================
