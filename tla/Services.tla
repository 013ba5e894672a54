------------------------------ MODULE Services ------------------------------
(***************************************************************************)
(* Eight of the parts around the paid core, each over its own state: the   *)
(* team, the user's row, startup, reports, automation, document pages,     *)
(* collection and rate limits. A behaviour is of one of them and the       *)
(* others rest, since none of them shares state with another.              *)
(***************************************************************************)
EXTENDS Integers, FiniteSets, Sequences

CONSTANTS
    People, Tabs, Roles, MaxInvites,                                                \* Team
    Sites, Pages, Enrichers, MaxCents,                                              \* UserRecord
    Instances, Migrations, OldUsers, OldCents, MaxDeaths,                           \* Startup
    Deliveries, Attempts, BackoffBase, LongestSleep, Secrets, ReportFaults,         \* Reports
    Accounts, Thresholds, Retired, Scores, BatchPermits, AccountChunk, BatchFaults, \* Automation
    Members, Orgs, Companies, Visits, SlugAttempts, DocLimit, Halves, PageFaults,   \* DocumentPages
    Collectors, Domains, Listed, Categories, Probes, SharedPermits, Slowness,       \* Collection
    Keys, Requests, Window, MaxKeys                                                 \* RateLimits

VARIABLES
    part,                                                                   \* the part that moves
    home, provider, role, invite, tab, sent, joins, welcomed,               \* Team
    row, cache, page, enricher, blind, died,                                \* UserRecord
    instance, advisory, applied, executed, purse, deaths,                   \* Startup
    hook, delivery, received, unsure, mishaps,                              \* Reports
    composite, outreach, engine, ruleRun, batch, failures,                  \* Automation
    team, docs, visit, halves, empty, cutOff,                               \* DocumentPages
    job, probing, lastHeaders, lastSic, tickers, searches, overlapped, stops,  \* Collection
    enforce, hits, granted, forgotten, promise                              \* RateLimits

teamVars == <<home, provider, role, invite, tab, sent, joins, welcomed>>
userVars == <<row, cache, page, enricher, blind, died>>
startVars == <<instance, advisory, applied, executed, purse, deaths>>
reportVars == <<hook, delivery, received, unsure, mishaps>>
autoVars == <<composite, outreach, engine, ruleRun, batch, failures>>
pagesVars == <<team, docs, visit, halves, empty, cutOff>>
collectVars == <<job, probing, lastHeaders, lastSic, tickers, searches, overlapped, stops>>
limitVars == <<enforce, hits, granted, forgotten, promise>>
partsVars == <<part, teamVars, userVars, startVars, reportVars, autoVars, pagesVars, collectVars, limitVars>>

Te == INSTANCE Team
Us == INSTANCE UserRecord
St == INSTANCE Startup
Re == INSTANCE Reports
Au == INSTANCE Automation WITH ChunkSize <- AccountChunk, slips <- failures
Do == INSTANCE DocumentPages
Co == INSTANCE Collection
Ra == INSTANCE RateLimits

(* What the proofs need of the constants: counts are numbers, and a name   *)
(* for nothing is no member of the set it is kept apart from.              *)
ASSUME StartConstants == Migrations \in Nat /\ OldCents \in Nat /\ St!NoInstance \notin Instances
ASSUME TeamConstants == MaxInvites \in Nat /\ Te!NoAccount \notin People
ASSUME UserConstants == MaxCents \in Nat /\ Us!NoProfile \notin Sites
ASSUME ReportConstants == Attempts \in Nat \ {0}
ASSUME AutoConstants == Accounts \in Nat /\ Thresholds \in Seq(Int) /\ Scores \subseteq Int
ASSUME PagesConstants == SlugAttempts \in Nat /\ Members # {} /\ Companies # {}
ASSUME MoneyConstants == IsFiniteSet(Members) /\ IsFiniteSet(Visits) /\ Halves \in Nat
ASSUME CollectConstants == SharedPermits \in Nat /\ Co!Nothing \notin Domains
ASSUME LimitConstants == Requests \in Nat \ {0} /\ Window \in Nat \ {0}
(* No more attempts, no steeper a backoff and no longer a sleep than in    *)
(* api/jobs.py.                                                            *)
ASSUME DelayConstants == Attempts <= 5 /\ BackoffBase \in 0 .. 5 /\ LongestSleep \in 0 .. 125

-----------------------------------------------------------------------------
PartsInit ==
    /\ Te!TeamInit /\ Us!UserInit /\ St!StartInit /\ Re!ReportInit
    /\ Au!AutoInit /\ Do!PagesInit /\ Co!CollectInit /\ Ra!LimitInit

OnlyItsPart ==
    /\ UNCHANGED part
    /\ IF part = "team" THEN TRUE ELSE UNCHANGED teamVars
    /\ IF part \in {"balance", "profile"} THEN TRUE ELSE UNCHANGED userVars
    /\ IF part = "startup" THEN TRUE ELSE UNCHANGED startVars
    /\ IF part = "reports" THEN TRUE ELSE UNCHANGED reportVars
    /\ IF part = "automation" THEN TRUE ELSE UNCHANGED autoVars
    /\ IF part = "pages" THEN TRUE ELSE UNCHANGED pagesVars
    /\ IF part = "collection" THEN TRUE ELSE UNCHANGED collectVars
    /\ IF part = "limits" THEN TRUE ELSE UNCHANGED limitVars

PartsNext ==
    \/ part = "team" /\ Te!TeamNext /\ OnlyItsPart
    \/ part = "balance" /\ Us!BalanceNext /\ OnlyItsPart
    \/ part = "profile" /\ Us!ProfileNext /\ OnlyItsPart
    \/ part = "startup" /\ St!StartNext /\ OnlyItsPart
    \/ part = "reports" /\ Re!ReportNext /\ OnlyItsPart
    \/ part = "automation" /\ Au!AutoNext /\ OnlyItsPart
    \/ part = "pages" /\ Do!PagesNext /\ OnlyItsPart
    \/ part = "collection" /\ Co!CollectNext /\ OnlyItsPart
    \/ part = "limits" /\ Ra!LimitNext /\ OnlyItsPart

PartsSpec == PartsInit /\ [][PartsNext]_partsVars
-----------------------------------------------------------------------------
(* The credits of an older release move once, a new account is welcomed    *)
(* once and an invitation lets one person in (init_database, create_user,  *)
(* accept_invite).                                                         *)
NothingGrantedTwice ==
    St!CreditsMovedOnce /\ Te!WelcomedOnce /\ Te!JoinedOncePerInvite

(* What a process keeps beside the database is about what it is kept for:  *)
(* the caches of a user follow the row, the profile is that of the stored  *)
(* website, and a job uses its own company's mentions, headers and         *)
(* industry (get_current_user, get_user_usage, update_seller_profile,      *)
(* _fetch_headers, _last_sic_code).                                        *)
KeptIsCurrent ==
    Us!CachesFollow /\ Us!ProfileOfSite /\ Co!MentionsAndHeadersAreOwn /\ Co!IndustryIsOwn

(* What a record says was done was done, and once: migrations in order,    *)
(* deliveries received, rules applied to the accounts that match them, a   *)
(* document opened by its own link (run_migrations, _deliver_webhook,      *)
(* evaluate_rules, save_document).                                         *)
RecordsMatchEffects ==
    Do!LinkOpensItsDocument /\ St!FilesInOrder /\ Re!RecordsAreTrue /\ Au!RulesActOnMatches /\ Au!RulesAreIndependent

(* What is given out is limited and accounted for: calls in a window,      *)
(* Retry-After, the time a delivery holds its job up, the probes under     *)
(* way, and every half credit paid for documents and contacts              *)
(* (InMemoryRateLimiter, _deliver_webhook, _rate_limited_check,            *)
(* save_document, enrich_document_contacts).                               *)
LimitsHold ==
    /\ Ra!LimitHolds /\ Ra!RetryAfterHolds /\ Re!DelayIsBounded /\ Co!ProbesAreLimited
    /\ Do!MoneyIsExplained
=============================================================================
