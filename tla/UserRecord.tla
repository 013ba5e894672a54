----------------------------- MODULE UserRecord -----------------------------
(***************************************************************************)
(* One user's row, the two caches in front of it (auth_cache.py and        *)
(* db/users.py, 30 seconds each), the pages that save the company website  *)
(* (routes/settings.py) and the task that derives a profile from it        *)
(* (run_seller_profile_enrichment).  A profile is named by the website it  *)
(* was built from.  A statement and the cache.pop after it are one step:   *)
(* what another request caches in between is what it would cache after.    *)
(* The caches are those of the web process, where the pages run; tasks run *)
(* there or in worker.py, and the balance is that of the whole             *)
(* organization, so a statement may be of another process or of a          *)
(* colleague, who pops an entry of their own.                              *)
(***************************************************************************)
EXTENDS Integers, FiniteSets

CONSTANTS
    Sites,      \* the websites a user enters
    Pages,      \* requests of the user in progress
    Enrichers,  \* slots for tasks of type seller_profile_enrichment
    MaxCents    \* bound on the balance, in steps of a hundred cents

VARIABLES
    row,        \* users and organizations: site, profile, cents
    cache,      \* _user_cache and _usage_cache: the value; history: whether its read was overtaken,
                \* and whether the row was changed since without a pop of this entry
    page,       \* where each request is, the view it holds, the website it saves
    enricher,   \* the tasks: where each is, the website of its payload
    blind,      \* history: a save compared the website with a view the row had left behind
    died        \* history: a save stopped half way

userVars == <<row, cache, page, enricher, blind, died>>

NoProfile == "none"
NoSite == "no site"
Cached(v) == [held |-> TRUE, value |-> v, late |-> FALSE, astray |-> FALSE]
NotHeld == [held |-> FALSE, value |-> <<>>, late |-> FALSE, astray |-> FALSE]
OffPage == [at |-> "idle", view |-> <<>>, late |-> FALSE, site |-> NoSite]
NoTask == [at |-> "free", site |-> NoSite]

UserInit ==
    /\ row = [site |-> NoSite, profile |-> NoProfile, cents |-> MaxCents]
    /\ cache = [user |-> NotHeld, usage |-> NotHeld]
    /\ page = [g \in Pages |-> OffPage]
    /\ enricher = [e \in Enrichers |-> NoTask]
    /\ blind = FALSE /\ died = FALSE

UserTypeOK ==
    /\ row \in [site : Sites \cup {NoSite}, profile : Sites \cup {NoProfile}, cents : 0 .. MaxCents]
    /\ \A g \in Pages : page[g].at \in {"idle", "reading", "balance", "signed in", "clearing", "sending"}
    /\ enricher \in [Enrichers -> [at : {"free", "queued", "building"}, site : Sites \cup {NoSite}]]

UserView == <<row.site, row.profile>>
PageAt(g, p) == page[g].at = p
Leave(g) == page' = [page EXCEPT ![g] = OffPage]
-----------------------------------------------------------------------------
(* Reading through the caches. *)

\* get_current_user, get_cached_user: a hit, or the row is read and the request waits for it.
Open(g) ==
    /\ PageAt(g, "idle")
    /\ page' = [page EXCEPT ![g] = IF cache.user.held
                                   THEN [OffPage EXCEPT !.at = "signed in", !.view = cache.user.value]
                                   ELSE [OffPage EXCEPT !.at = "reading", !.view = UserView]]
    /\ UNCHANGED <<row, cache, enricher, blind, died>>

\* set_cached_user, with the row as it was when it was read.
FillUser(g) ==
    /\ PageAt(g, "reading")
    /\ cache' = [cache EXCEPT !.user = [Cached(page[g].view) EXCEPT !.late = page[g].late]]
    /\ page' = [page EXCEPT ![g].at = "signed in"]
    /\ UNCHANGED <<row, enricher, blind, died>>

\* get_user_usage on a miss; a hit changes nothing.
ReadUsage(g) ==
    /\ PageAt(g, "idle") /\ ~cache.usage.held
    /\ page' = [page EXCEPT ![g] = [OffPage EXCEPT !.at = "balance", !.view = <<row.cents>>]]
    /\ UNCHANGED <<row, cache, enricher, blind, died>>

FillUsage(g) ==
    /\ PageAt(g, "balance")
    /\ cache' = [cache EXCEPT !.usage = [Cached(page[g].view) EXCEPT !.late = page[g].late]]
    /\ Leave(g)
    /\ UNCHANGED <<row, enricher, blind, died>>

\* The TTL, or another user of 256.
CacheExpires ==
    /\ \E c \in DOMAIN cache : cache[c].held /\ cache' = [cache EXCEPT ![c] = NotHeld]
    /\ UNCHANGED <<row, page, enricher, blind, died>>

\* What invalidation cannot reach: the reads of the requests that wait for their row.
Overtaken(p, at) == IF p.at = at THEN [p EXCEPT !.late = TRUE] ELSE p

\* invalidate_user_cache
InvalidateUser == cache' = [cache EXCEPT !.user = NotHeld]
-----------------------------------------------------------------------------
(* The balance. *)

\* A charge, a refund or a purchase of the organization.
Spend ==
    /\ \E d \in {-1, 1} : row.cents + d \in 0 .. MaxCents /\ row' = [row EXCEPT !.cents = @ + d]
    /\ page' = [g \in Pages |-> Overtaken(page[g], "balance")]
    /\ UNCHANGED <<enricher, blind, died>>

\* use_credit, refund_credit, create_job_with_credit, add_credits, for this user and in this
\* process: the entry is popped.
ChangeBalance == Spend /\ cache' = [cache EXCEPT !.usage = NotHeld]

\* The same for a colleague or in worker.py, and fulfill_session for anyone: the entry stays.
ChangeBalanceElsewhere == Spend /\ cache' = [cache EXCEPT !.usage.astray = cache.usage.held]
-----------------------------------------------------------------------------
(* Saving the website. *)

\* update_user_profile.  Onboarding always has the profile rebuilt, the settings page when the
\* website differs from that of the view or the view has no profile.
Save(g, s, onboarding) ==
    LET view == page[g].view
        refresh == onboarding \/ s # view[1] \/ view[2] = NoProfile
        after == [page EXCEPT ![g] = [OffPage EXCEPT !.at = IF refresh THEN "clearing" ELSE "idle", !.site = s]]
    IN  /\ PageAt(g, "signed in")
        /\ row' = [row EXCEPT !.site = s]
        /\ InvalidateUser
        /\ page' = [h \in Pages |-> Overtaken(after[h], "reading")]
        /\ blind' = (blind \/ view # UserView)
        /\ UNCHANGED <<enricher, died>>

SaveSettings(g, s) == Save(g, s, FALSE)
CompleteOnboarding(g, s) == Save(g, s, TRUE)

\* clear_seller_profile
Clear(g) ==
    /\ PageAt(g, "clearing")
    /\ row' = [row EXCEPT !.profile = NoProfile]
    /\ InvalidateUser
    /\ page' = [h \in Pages |-> Overtaken(IF h = g THEN [page[h] EXCEPT !.at = "sending"] ELSE page[h], "reading")]
    /\ UNCHANGED <<enricher, blind, died>>

\* create_tracked_task
SendProfileTask(g) ==
    /\ PageAt(g, "sending")
    /\ \E e \in Enrichers :
        /\ enricher[e].at = "free"
        /\ enricher' = [enricher EXCEPT ![e] = [at |-> "queued", site |-> page[g].site]]
    /\ Leave(g)
    /\ UNCHANGED <<row, cache, blind, died>>

\* Every other page, a failed statement, a restart of the process.
Close(g) ==
    /\ page[g].at \in {"signed in", "clearing", "sending"}
    /\ died' = (died \/ page[g].at # "signed in")
    /\ Leave(g)
    /\ UNCHANGED <<row, cache, enricher, blind>>
-----------------------------------------------------------------------------
(* run_seller_profile_enrichment *)

\* The task of a website that is not the row's any more is skipped, as is one that does not resolve.
StartProfile(e) ==
    /\ enricher[e].at = "queued"
    /\ \/ enricher' = [enricher EXCEPT ![e] = NoTask]
       \/ /\ row.site = enricher[e].site
          /\ enricher' = [enricher EXCEPT ![e].at = "building"]
    /\ UNCHANGED <<row, cache, page, blind, died>>

\* Mutant of the write: the website is not part of it.
ProfileOnly(s) == [row EXCEPT !.profile = s]
\* update_seller_profile: the website the profile was built from goes back into the row with it.
ProfileAndSite(s) == [row EXCEPT !.site = s, !.profile = s]

\* build_profile never raises for want of pages or of an answer: it falls back to an empty profile.
\* A task of worker.py pops the entry of that process, not the one the pages read.
WriteProfile(e) ==
    /\ enricher[e].at = "building"
    /\ row' = ProfileAndSite(enricher[e].site)
    /\ InvalidateUser \/ cache' = [cache EXCEPT !.user.astray = cache.user.held]
    /\ page' = [g \in Pages |-> Overtaken(page[g], "reading")]
    /\ enricher' = [enricher EXCEPT ![e] = NoTask]
    /\ UNCHANGED <<blind, died>>

\* Anything else raises: the task is retried or, in the end, dead.
ProfileFails(e) ==
    /\ enricher[e].at = "building"
    /\ \E t \in {NoTask, [enricher[e] EXCEPT !.at = "queued"]} : enricher' = [enricher EXCEPT ![e] = t]
    /\ UNCHANGED <<row, cache, page, blind, died>>

BalanceNext ==
    \/ CacheExpires \/ ChangeBalance \/ ChangeBalanceElsewhere
    \/ \E g \in Pages : ReadUsage(g) \/ FillUsage(g)

ProfileNext ==
    \/ CacheExpires
    \/ \E g \in Pages :
        \/ Open(g) \/ FillUser(g) \/ Clear(g) \/ SendProfileTask(g) \/ Close(g)
        \/ \E s \in Sites : SaveSettings(g, s) \/ CompleteOnboarding(g, s)
    \/ \E e \in Enrichers : StartProfile(e) \/ WriteProfile(e) \/ ProfileFails(e)

\* The two halves share the requests alone, and a request is at one of them at a time.
UserNext == BalanceNext \/ ProfileNext

UserSpec == UserInit /\ [][UserNext]_userVars
-----------------------------------------------------------------------------
(* What a cache holds is what the row says, unless the read that filled    *)
(* it was overtaken by an update (get_current_user and get_user_usage      *)
(* store after an await what they read before it) or the row was changed   *)
(* since from where this entry is not popped: by a colleague, a purchase   *)
(* or worker.py.                                                           *)
Current(entry, view) == entry.held /\ ~entry.late /\ ~entry.astray => entry.value = view

CachesFollow == Current(cache.user, UserView) /\ Current(cache.usage, <<row.cents>>)

(* Between saves the profile is that of the stored website, though tasks   *)
(* of earlier websites may finish at any time; only a save that died half  *)
(* way, or one that was decided on a view the row had left behind, parts   *)
(* the two (save_settings, update_seller_profile).                         *)
ProfileOfSite ==
    /\ row.profile # NoProfile
    /\ ~blind /\ ~died
    /\ \A g \in Pages : page[g].at # "clearing"
    => row.profile = row.site
=============================================================================
