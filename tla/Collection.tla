----------------------------- MODULE Collection -----------------------------
(***************************************************************************)
(* The collection of data for a document (_run_research_pipeline in        *)
(* api/jobs.py, api_create_research): jobs that run side by side in one    *)
(* process and share the singletons of services/: the technology detector  *)
(* with the headers it saw last, EDGAR with its tickers and the industry   *)
(* it saw last, the cache of web searches.  Data is named by the company   *)
(* it is about; a company is its own industry.                             *)
(***************************************************************************)
EXTENDS Integers, FiniteSets

CONSTANTS
    Collectors,     \* jobs in this process
    Domains,        \* companies
    Listed,         \* those among them with filings
    Categories,     \* what sellers sell
    Probes,         \* addresses probed for each company
    SharedPermits,  \* permits of the detector's semaphore
    Slowness        \* bound on the deaths of jobs

VARIABLES
    job,        \* where each job is and what it has collected
    probing,    \* the probes that hold a permit: <<job, address>>
    lastHeaders,    \* _last_main_headers
    lastSic,        \* _last_sic_code
    tickers,        \* _tickers_cache: "unloaded", "loaded" or "empty"
    searches,       \* the cache of web searches: what is stored under a key
    overlapped,     \* history: jobs during which another job wrote what they read later
    stops

collectVars == <<job, probing, lastHeaders, lastSic, tickers, searches, overlapped, stops>>

Nothing == "nothing"
NoJob == [at |-> "idle", company |-> Nothing, seller |-> Nothing, branches |-> {}, probed |-> {}, asked |-> FALSE,
          headers |-> Nothing, mentions |-> <<>>, filings |-> Nothing, sic |-> Nothing]
Branches == {"technology", "search"}
SearchKey(j) == <<job[j].company, job[j].seller>>

CollectInit ==
    /\ job = [j \in Collectors |-> NoJob]
    /\ probing = {}
    /\ lastHeaders = Nothing /\ lastSic = Nothing
    /\ tickers = "unloaded"
    /\ searches = [k \in Domains \X Categories |-> {}]
    /\ overlapped = {}
    /\ stops = 0

CollectTypeOK ==
    /\ \A j \in Collectors :
        job[j].at \in {"idle", "analyzing", "enriching", "filings", "regulations", "generating"}
    /\ lastHeaders \in Domains \cup {Nothing} /\ lastSic \in Domains \cup {Nothing}
    /\ tickers \in {"unloaded", "loaded", "empty"}

JobAt(j, p) == job[j].at = p
Others(j) == {i \in Collectors \ {j} : job[i].at # "idle"}
Known == UNCHANGED <<lastHeaders, lastSic, tickers, searches, overlapped, stops>>

\* get_user_by_id, detect_seller_category; scrape_company: homepage, job boards and sitemap at
\* once, and what fails is left out.  Nothing of it is shared.
StartCollecting(j) ==
    /\ JobAt(j, "idle")
    /\ \E c \in Domains, s \in Categories :
        job' = [job EXCEPT ![j] = [NoJob EXCEPT !.at = "analyzing", !.company = c, !.seller = s, !.branches = Branches]]
    /\ UNCHANGED probing /\ Known

Branch(j, b) == JobAt(j, "analyzing") /\ b \in job[j].branches
-----------------------------------------------------------------------------
(* The three branches of the first gather. *)

\* analyze_multiple_domains: _fetch_headers of the main page; on failure there are none.
FetchHeaders(j) ==
    /\ Branch(j, "technology") /\ ~job[j].asked
    /\ lastHeaders' \in {job[j].company, Nothing}
    /\ overlapped' = overlapped \cup {<<i, "headers">> : i \in {i \in Others(j) : job[i].asked /\ JobAt(i, "analyzing")}}
    /\ job' = [job EXCEPT ![j].asked = TRUE]
    /\ UNCHANGED <<probing, lastSic, tickers, searches, stops>>

\* _rate_limited_check: one of the permits that all jobs share.
Probe(j, a) ==
    /\ Branch(j, "technology") /\ job[j].asked
    /\ a \notin job[j].probed /\ <<j, a>> \notin probing
    /\ Cardinality(probing) < SharedPermits
    /\ probing' = probing \cup {<<j, a>>}
    /\ UNCHANGED job /\ Known

\* _check_url_exists catches what the request raises; the permit is kept for 0.3 s more.
Probed(j, a) ==
    /\ <<j, a>> \in probing
    /\ probing' = probing \ {<<j, a>>}
    /\ job' = [job EXCEPT ![j].probed = @ \cup {a}]
    /\ Known

\* What was found is fingerprinted in threads; results are deduplicated by name and address.
Fingerprint(j) ==
    /\ Branch(j, "technology") /\ job[j].asked /\ job[j].probed = Probes
    /\ job' = [job EXCEPT ![j].branches = @ \ {"technology"}]
    /\ UNCHANGED probing /\ Known

\* search: what is stored, or the queries, some or all of which may fail.
Search(j) ==
    /\ Branch(j, "search")
    /\ LET k == SearchKey(j)
       IN  \/ /\ searches[k] # {}
              /\ job' = [job EXCEPT ![j].branches = @ \ {"search"}, ![j].mentions = CHOOSE m \in searches[k] : TRUE]
              /\ UNCHANGED searches
           \/ /\ searches[k] = {}
              /\ \E found \in {<<>>, k} :
                    /\ job' = [job EXCEPT ![j].branches = @ \ {"search"}, ![j].mentions = found]
                    /\ searches' = IF found = <<>> THEN searches ELSE [searches EXCEPT ![k] = {found}]
    /\ UNCHANGED <<probing, lastHeaders, lastSic, tickers, overlapped, stops>>

\* A day later.
SearchExpires(k) ==
    /\ searches[k] # {}
    /\ searches' = [searches EXCEPT ![k] = {}]
    /\ UNCHANGED <<job, probing, lastHeaders, lastSic, tickers, overlapped, stops>>

\* The third branch, infrastructure_signals.analyze, shares nothing: DNS, certificate and
\* robots.txt, each or not.  Then get_last_main_headers and _score_security_headers: whosever
\* headers were captured last.
Backfill(j) ==
    /\ JobAt(j, "analyzing") /\ job[j].branches = {}
    /\ job' = [job EXCEPT ![j].headers = lastHeaders, ![j].at = "enriching",
                            ![j].asked = FALSE, ![j].probed = {}]
    /\ UNCHANGED probing /\ Known
-----------------------------------------------------------------------------
(* collect_enrichment_data *)

\* _load_tickers: kept for the life of the process, and so is the nothing of a refused request;
\* one that raises is tried again by the next job.
LoadTickers(j) ==
    /\ JobAt(j, "enriching")
    /\ \/ /\ tickers = "unloaded"
          /\ \/ tickers' = "loaded" /\ job' = [job EXCEPT ![j].at = "filings"]
             \/ tickers' = "empty" /\ job' = [job EXCEPT ![j].at = "regulations"]
             \/ UNCHANGED tickers /\ job' = [job EXCEPT ![j].at = "regulations"]
       \/ /\ tickers # "unloaded"
          /\ job' = [job EXCEPT ![j].at = IF tickers = "loaded" THEN "filings" ELSE "regulations"]
          /\ UNCHANGED tickers
    /\ UNCHANGED <<probing, lastHeaders, lastSic, searches, overlapped, stops>>

\* _get_company_filings_impl: no match, or no submissions, leaves the industry code as it is.
GetFilings(j) ==
    /\ JobAt(j, "filings")
    /\ \/ /\ job[j].company \in Listed
          /\ lastSic' = job[j].company
          /\ overlapped' = overlapped \cup {<<i, "sic">> : i \in {i \in Others(j) : JobAt(i, "regulations")}}
          /\ job' = [job EXCEPT ![j].at = "regulations", ![j].filings = job[j].company]
       \/ job' = [job EXCEPT ![j].at = "regulations"] /\ UNCHANGED <<lastSic, overlapped>>
    /\ UNCHANGED <<probing, lastHeaders, tickers, searches, stops>>

\* get_upcoming_regulations, with the industry code EDGAR has now.
GetRegulations(j) ==
    /\ JobAt(j, "regulations")
    /\ job' = [job EXCEPT ![j].at = "generating", ![j].sic = lastSic]
    /\ UNCHANGED probing /\ Known

\* The document is generated and stored, or generation raises.
Generate(j) ==
    /\ JobAt(j, "generating")
    /\ job' = [job EXCEPT ![j] = NoJob]
    /\ overlapped' = {o \in overlapped : o[1] # j}
    /\ UNCHANGED <<probing, lastHeaders, lastSic, tickers, searches, stops>>

\* The task of the job is cancelled: its probes with it, and `async with` gives the permits back.
StopCollecting(j) ==
    /\ ~JobAt(j, "idle") /\ stops < Slowness
    /\ stops' = stops + 1
    /\ job' = [job EXCEPT ![j] = NoJob]
    /\ probing' = {p \in probing : p[1] # j}
    /\ overlapped' = {o \in overlapped : o[1] # j}
    /\ UNCHANGED <<lastHeaders, lastSic, tickers, searches>>

CollectGoesOn(j) ==
    \/ FetchHeaders(j) \/ Fingerprint(j) \/ Search(j) \/ Backfill(j)
    \/ LoadTickers(j) \/ GetFilings(j) \/ GetRegulations(j) \/ Generate(j)
    \/ \E a \in Probes : Probe(j, a) \/ Probed(j, a)

CollectNext ==
    \/ \E j \in Collectors : StartCollecting(j) \/ CollectGoesOn(j) \/ StopCollecting(j)
    \/ \E k \in Domains \X Categories : SearchExpires(k)

CollectSpec == CollectInit /\ [][CollectNext]_collectVars
-----------------------------------------------------------------------------
(* What a job uses is about its own company: the mentions always (the      *)
(* cache is keyed by company and category, and a search that found nothing *)
(* is not stored), the headers unless another job captured its own in the  *)
(* meantime.                                                               *)
MentionsAndHeadersAreOwn ==
    \A j \in Collectors :
        /\ job[j].mentions \in {<<>>, SearchKey(j)}
        /\ job[j].headers \in {Nothing, job[j].company} \/ <<j, "headers">> \in overlapped

(* The industry a document's regulations are looked up for is the          *)
(* company's, whenever its filings were found and no other job found its   *)
(* own in between (the code of an unlisted company is that of the listed   *)
(* one before it: _last_sic_code is never reset).                          *)
IndustryIsOwn ==
    \A j \in Collectors :
        JobAt(j, "generating") /\ job[j].filings # Nothing /\ job[j].sic # job[j].company
        => <<j, "sic">> \in overlapped

(* However many jobs probe, a cancelled one among them, no more than       *)
(* SharedPermits requests are under way.                                   *)
ProbesAreLimited == Cardinality(probing) <= SharedPermits
=============================================================================
