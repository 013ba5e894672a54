-------------------------------- MODULE Team --------------------------------
(***************************************************************************)
(* Accounts, organizations and invitations: sign-in (auth.py), the team    *)
(* pages (routes/team.py) and their statements (db/orgs.py, db/users.py).  *)
(* Requests are served at the same time; a tab is one of them, between two *)
(* of its awaits.  A person's own organization has the person's name.      *)
(***************************************************************************)
EXTENDS Integers, FiniteSets

CONSTANTS
    People,     \* persons, each with one email address
    Tabs,       \* requests in progress
    Roles,      \* what an invitation can offer, "admin" among them
    MaxInvites  \* how many invitations are sent in all

VARIABLES
    home,       \* users.org_id, or NoAccount
    provider,   \* whose id the account holds: "google" or "microsoft"
    role,       \* org_members: organization, person -> role or NoRole
    invite,     \* org_invites: organization, person -> state, role, token (its number)
    tab,        \* where each request is
    sent,       \* the invitations sent so far
    joins,      \* history: the numbers of the invitations accepted, once for each time
    welcomed    \* history: how often a person's own organization was granted 1000 cents

teamVars == <<home, provider, role, invite, tab, sent, joins, welcomed>>

NoAccount == "no account"
NoRole == "no role"
NoInvite == [state |-> "none", role |-> NoRole, token |-> 0]
Idle == [at |-> "idle", who |-> NoAccount, org |-> NoAccount, token |-> 0, via |-> "none"]
HasAccount(p) == home[p] # NoAccount

TeamInit ==
    /\ home = [p \in People |-> NoAccount]
    /\ provider = [p \in People |-> "none"]
    /\ role = [o \in People |-> [p \in People |-> NoRole]]
    /\ invite = [o \in People |-> [p \in People |-> NoInvite]]
    /\ tab = [t \in Tabs |-> Idle]
    /\ sent = 0
    /\ joins = [n \in 1 .. MaxInvites |-> 0]
    /\ welcomed = [p \in People |-> 0]

TeamTypeOK ==
    /\ home \in [People -> People \cup {NoAccount}]
    /\ role \in [People -> [People -> Roles \cup {NoRole}]]
    /\ \A o, p \in People : invite[o][p].state \in {"none", "pending", "accepted"}
    /\ \A p \in People : HasAccount(p) <=> provider[p] # "none"
    /\ \A t \in Tabs : tab[t].at \in {"idle", "known", "new", "invited", "admin", "accepting"}

At(t, p) == tab[t].at = p
Move(t, p) == tab' = [tab EXCEPT ![t].at = p]
Finish(t) == tab' = [tab EXCEPT ![t] = Idle]
Pending(o, p) == invite[o][p].state = "pending"
-----------------------------------------------------------------------------
(* Sign-in: the callbacks of both providers. *)

\* The account is looked up by the id the provider gives, not by the email.
SignIn(t, p, via) ==
    /\ At(t, "idle")
    /\ tab' = [tab EXCEPT ![t] = [Idle EXCEPT
                 !.at = IF provider[p] = via THEN "known" ELSE "new", !.who = p, !.via = via]]
    /\ UNCHANGED <<home, provider, role, invite, sent, joins, welcomed>>

GoogleCallback(t, p) == SignIn(t, p, "google")
MicrosoftCallback(t, p) == SignIn(t, p, "microsoft")

\* create_user, create_user_microsoft: the unique email lets one of two callbacks through,
\* and turns away a person who comes from the other provider.
CreateUser(t) ==
    LET p == tab[t].who
    IN  /\ At(t, "new")
        /\ IF HasAccount(p)
           THEN Finish(t) /\ UNCHANGED <<home, provider, role, welcomed>>
           ELSE /\ Move(t, "known")
                /\ home' = [home EXCEPT ![p] = p]
                /\ provider' = [provider EXCEPT ![p] = tab[t].via]
                /\ role' = [role EXCEPT ![p][p] = "admin"]
                /\ welcomed' = [welcomed EXCEPT ![p] = @ + 1]
        /\ UNCHANGED <<invite, sent, joins>>

\* _auto_accept_invites, its read: the token of a pending invitation, if there is one.
LookForInvites(t) ==
    /\ At(t, "known")
    /\ LET p == tab[t].who
           from == {o \in People : Pending(o, p)}
       IN  IF from = {}
           THEN Finish(t)
           ELSE \E o \in from :
                    tab' = [tab EXCEPT ![t] = [@ EXCEPT !.at = "invited", !.org = o, !.token = invite[o][p].token]]
    /\ UNCHANGED <<home, provider, role, invite, sent, joins, welcomed>>

\* Mutant: the row with the token, accepted or not.
AddresseeAgain(t) == {p \in People : invite[tab[t].org][p].token = tab[t].token}

\* The row with the token, unaccepted and unexpired; locked, so one transaction after the other.
Addressee(t) == {p \in People : Pending(tab[t].org, p) /\ invite[tab[t].org][p].token = tab[t].token}

\* accept_invite: who is signed in joins, whoever the invitation was sent to.
AcceptInvite(t) ==
    LET o == tab[t].org
        p == tab[t].who
    IN  /\ tab[t].at \in {"invited", "accepting"}
        /\ Finish(t)
        /\ \/ /\ Addressee(t) = {}
              /\ UNCHANGED <<home, role, invite, joins>>
           \/ \E e \in Addressee(t) :
                /\ invite' = [invite EXCEPT ![o][e].state = "accepted"]
                /\ role' = [role EXCEPT ![o][p] = invite[o][e].role]
                /\ home' = [home EXCEPT ![p] = o]
                /\ joins' = [joins EXCEPT ![tab[t].token] = @ + 1]
        /\ UNCHANGED <<provider, sent, welcomed>>
-----------------------------------------------------------------------------
(* Pages. *)

\* get_user_by_id joins the membership on the user alone: any of the person's rows, or none.
RowsOf(p) ==
    LET held == {role[o][p] : o \in People} \ {NoRole}
    IN  {[org |-> home[p], role |-> r] : r \in IF held = {} THEN {NoRole} ELSE held}

\* get_current_user and require_org_admin.  The user may come from the cache of 30 seconds: a tab
\* that was let in a while ago and acts now stands for that as well.
RequireAdmin(t, p) ==
    /\ At(t, "idle") /\ HasAccount(p)
    /\ \E user \in RowsOf(p) :
        /\ user.role = "admin"
        /\ tab' = [tab EXCEPT ![t] = [Idle EXCEPT !.at = "admin", !.who = p, !.org = user.org]]
    /\ UNCHANGED <<home, provider, role, invite, sent, joins, welcomed>>

\* team_invite: an upsert; the old token is gone and accepted_at is NULL again.
Invite(t, e, r) ==
    /\ At(t, "admin") /\ sent < MaxInvites
    /\ sent' = sent + 1
    /\ invite' = [invite EXCEPT ![tab[t].org][e] = [state |-> "pending", role |-> r, token |-> sent + 1]]
    /\ Finish(t)
    /\ UNCHANGED <<home, provider, role, joins, welcomed>>

\* team_revoke_invite
Revoke(t, e) ==
    /\ At(t, "admin") /\ Pending(tab[t].org, e)
    /\ invite' = [invite EXCEPT ![tab[t].org][e] = NoInvite]
    /\ Finish(t)
    /\ UNCHANGED <<home, provider, role, sent, joins, welcomed>>

\* team_remove: the membership alone, users.org_id stays.
Remove(t, p) ==
    /\ At(t, "admin") /\ p # tab[t].who
    /\ role' = [role EXCEPT ![tab[t].org][p] = NoRole]
    /\ Finish(t)
    /\ UNCHANGED <<home, provider, invite, sent, joins, welcomed>>

\* team_change_role: an update of a row that is there.
ChangeRole(t, p, r) ==
    /\ At(t, "admin") /\ p # tab[t].who /\ role[tab[t].org][p] # NoRole
    /\ role' = [role EXCEPT ![tab[t].org][p] = r]
    /\ Finish(t)
    /\ UNCHANGED <<home, provider, invite, sent, joins, welcomed>>

\* accept_invite_route up to user_has_data, for a person without documents; others are turned away.
OpenLink(t, p, o, e) ==
    /\ At(t, "idle") /\ HasAccount(p)
    /\ invite[o][e].token > 0
    /\ tab' = [tab EXCEPT ![t] = [at |-> "accepting", who |-> p, org |-> o, token |-> invite[o][e].token, via |-> "none"]]
    /\ UNCHANGED <<home, provider, role, invite, sent, joins, welcomed>>

\* Seven days pass: to every reader the row is gone.
InviteExpires(o, e) ==
    /\ Pending(o, e)
    /\ invite' = [invite EXCEPT ![o][e] = NoInvite]
    /\ UNCHANGED <<home, provider, role, tab, sent, joins, welcomed>>

TeamNext ==
    \/ \E t \in Tabs :
        \/ CreateUser(t) \/ LookForInvites(t) \/ AcceptInvite(t)
        \/ \E p \in People :
            \/ GoogleCallback(t, p) \/ MicrosoftCallback(t, p) \/ RequireAdmin(t, p) \/ Revoke(t, p) \/ Remove(t, p)
            \/ \E r \in Roles : Invite(t, p, r) \/ ChangeRole(t, p, r)
            \/ \E o, e \in People : OpenLink(t, p, o, e)
    \/ \E o, e \in People : InviteExpires(o, e)

TeamSpec == TeamInit /\ [][TeamNext]_teamVars
-----------------------------------------------------------------------------
(* However many requests carry the same link, and whether it is the link   *)
(* or the sign-in that finds the invitation first, an invitation lets one  *)
(* person in; sent again, it is another invitation (accept_invite's        *)
(* FOR UPDATE, create_org_invite's upsert).                                *)
JoinedOncePerInvite == \A n \in DOMAIN joins : joins[n] <= 1

(* Two first sign-ins at the same time, through both providers even, grant *)
(* the 1000 cents of a new account once (create_user's transaction and the *)
(* unique email).                                                          *)
WelcomedOnce == \A p \in People : welcomed[p] <= 1
=============================================================================
