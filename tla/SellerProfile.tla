---------------------------- MODULE SellerProfile ----------------------------
(***************************************************************************)
(* The profile of a seller, built from the seller's own website: a map of  *)
(* the site and its sitemap, the homepage and two more pages chosen from   *)
(* them, what of these could be scraped, and a model's summary of that     *)
(* (services/seller_profile.py, and its calls of services/firecrawl.py).   *)
(*   An address is the page it leads to, once slashes, query and fragment  *)
(* are dropped; a page is on a host, may be of a kind that is excluded, has*)
(* a weight per bucket from the words of its path, and a path that is deep *)
(* or long.  A text is its first line.                                     *)
(***************************************************************************)
EXTENDS Integers, Sequences, FiniteSets, SequencesExt, Picking

CONSTANTS
    SitePages,  \* records [name, host, excluded, weights, deep, long, category]
    Home,       \* the one without a path
    Maps,       \* answers of the map: sequences of pages
    Sitemaps,   \* sitemaps: sequences of pages
    Payloads    \* lists a model may answer: sequences of items [key, blank]

VARIABLES
    stage,
    candidates,     \* in their order, the homepage first
    selected,
    scraped,        \* the sequence of pages that had a text
    profile         \* [summary, items, sources], or NoProfile

profileVars == <<stage, candidates, selected, scraped, profile>>

MaxProfileScrapes == 3
MaxItems == 6
NoProfile == [summary |-> "none", items |-> <<>>, sources |-> <<>>]

-----------------------------------------------------------------------------
\* The map of a site lists nothing when the request fails.
MapSite == Maps \cup {<<>>}

\* The first address of every category; an unreadable or absent sitemap has none.
FetchSitemap(locations) ==
    Picked(locations, {i \in DOMAIN locations : /\ locations[i].category # "none"
                                                /\ \A k \in 1..(i - 1) : locations[k].category # locations[i].category})

OwnPages(urls) == Picked(urls, {i \in FirstPlaces(urls) : urls[i].host = Home.host})

ScoreUrl(p, bucket) ==
    IF p.excluded THEN -1
    ELSE p.weights[bucket] + (IF p.deep THEN 0 ELSE 1) + (IF p.long THEN 0 ELSE 1)

\* The first of the best pages for a bucket, when any scores at all.
PickFor(chosen, bucket, urls) ==
    LET left == {i \in DOMAIN urls : urls[i] \notin ToSet(chosen) /\ ScoreUrl(urls[i], bucket) > 0}
        Score(i) == ScoreUrl(urls[i], bucket)
        First(i) == \A k \in left : Score(k) < Score(i) \/ (Score(k) = Score(i) /\ i <= k)
    IN IF Len(chosen) >= MaxProfileScrapes \/ left = {} THEN chosen
       ELSE Append(chosen, urls[CHOOSE i \in left : First(i)])

SelectProfileUrls(urls) ==
    LET own == OwnPages(urls)
        best == PickFor(PickFor(PickFor(<<Home>>, "product", own), "audience", own), "proof", own)
        filled == best \o Picked(own, {i \in DOMAIN own : own[i] \notin ToSet(best) /\ ~own[i].excluded})
    IN SubSeq(filled, 1, Least(MaxProfileScrapes, Len(filled)))

\* A list of the model's answer: blanks and repetitions dropped, then cut.
CleanList(items) ==
    LET kept == Picked(items, {i \in DOMAIN items :
                    ~items[i].blank /\ \A k \in 1..(i - 1) : items[k].blank \/ items[k].key # items[i].key})
    IN [k \in 1..Least(MaxItems, Len(kept)) |-> kept[k].key]

-----------------------------------------------------------------------------
ProfileInit ==
    /\ stage = "idle"
    /\ candidates = <<>> /\ selected = <<>> /\ scraped = <<>>
    /\ profile = NoProfile

\* Either source may fail, and then lists nothing.
ListPages ==
    /\ stage = "idle"
    /\ \E map \in MapSite, locations \in Sitemaps \cup {<<>>} :
          candidates' = <<Home>> \o map \o FetchSitemap(locations)
    /\ stage' = "listed"
    /\ UNCHANGED <<selected, scraped, profile>>

SelectPages ==
    /\ stage = "listed"
    /\ selected' = SelectProfileUrls(candidates)
    /\ stage' = "selected"
    /\ UNCHANGED <<candidates, scraped, profile>>

\* A page that fails, times out or is empty has no text.
ScrapeUrls(urls) == {Picked(urls, got) : got \in SUBSET DOMAIN urls}

ScrapePages ==
    /\ stage = "selected"
    /\ scraped' \in ScrapeUrls(selected)
    /\ stage' = "scraped"
    /\ UNCHANGED <<candidates, selected, profile>>

Built(summary, items, sources) ==
    /\ stage = "scraped"
    /\ profile' = [summary |-> summary, items |-> items, sources |-> sources]
    /\ stage' = "built"
    /\ UNCHANGED <<candidates, selected, scraped>>

NothingScraped == scraped = <<>> /\ Built("", <<>>, SubSeq(selected, 1, 1))

\* The model is asked to leave blank what the pages do not say.
Synthesize ==
    /\ scraped # <<>>
    /\ \E items \in Payloads, summary \in {"model", ""} : Built(summary, CleanList(items), scraped)

\* No key, no answer, or one that is no JSON object: the plain text of the first page there is, and
\* a page of pictures and links has none.
FallbackProfile ==
    /\ scraped # <<>>
    /\ \E summary \in {scraped[1].name, ""} : Built(summary, <<>>, scraped)

ProfileNext == ListPages \/ SelectPages \/ ScrapePages \/ NothingScraped \/ Synthesize \/ FallbackProfile

-----------------------------------------------------------------------------
ProfileTypeOK ==
    /\ stage \in {"idle", "listed", "selected", "scraped", "built"}
    /\ \A s \in {candidates, selected, scraped, profile.sources} : ToSet(s) \subseteq SitePages
    /\ Len(profile.items) <= MaxItems

\* Three scrapes are spent on three different pages of the seller's own site, the homepage first,
\* none of a kind that is excluded, and none is left unspent while there is a page for it
\* (select_profile_urls).
ScrapesAreWellSpent ==
    stage \notin {"idle", "listed"} =>
        LET usable == {p \in ToSet(candidates) \ {Home} : p.host = Home.host /\ ~p.excluded} IN
        /\ Len(selected) = Least(MaxProfileScrapes, 1 + Cardinality(usable))
        /\ selected[1] = Home
        /\ ToSet(Tail(selected)) \subseteq usable /\ IsInjective(selected)

\* A site that has a page on the product, or on the audience, is read on it, whatever the order
\* of the list, and although any short path scores (_score_url, select_profile_urls).
ProductAndAudienceAreRead ==
    stage \notin {"idle", "listed"} =>
        \A b \in {"product", "audience"} :
            (\E p \in ToSet(candidates) : p.host = Home.host /\ ~p.excluded /\ p.weights[b] > 0)
                => \E p \in ToSet(selected) : p.weights[b] > 0

\* A profile names as its sources the pages whose text it was given, and one that was given none
\* names the homepage and says nothing (build_profile).
SourcesWereRead ==
    stage = "built" =>
        /\ scraped # <<>> => profile.sources = scraped
        /\ scraped = <<>> => profile = [summary |-> "", items |-> <<>>, sources |-> <<Home>>]
        /\ IsInjective(profile.items)
=============================================================================
