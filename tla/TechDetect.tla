----------------------------- MODULE TechDetect ------------------------------
(***************************************************************************)
(* What runs on the sites of a product (services/techdetect): patterns are *)
(* matched against the headers and the address of every site that answers, *)
(* what is found implies more, breadth first, and the stacks of all sites  *)
(* are told apart and stored (services/tech_detection.py,                  *)
(* db/tech_signals.py).                                                    *)
(*   The sites are analyzed with no HTML at all (analyze_html("", ...)), so*)
(* scripts and meta tags are never there and inline scripts are empty text.*)
(* Versions, categories and descriptions are left out.                     *)
(***************************************************************************)
EXTENDS Integers, Sequences, FiniteSets, SequencesExt, Picking

CONSTANTS
    Technologies,   \* the table in its order: records [name, patterns, implies]; what is
                    \* implied is in it, as it is in technologies.json
    Archetypes,     \* records [name, required, supporting], of groups of names
    Subdomains, Paths,  \* what is probed
    Responses       \* what a site may say: [keys, texts]

TechNames == {Technologies[i].name : i \in DOMAIN Technologies}

VARIABLES
    sites,      \* that answered and are still to be analyzed
    scanning,   \* the site under analysis, or NoSite
    matches,    \* its matched technologies with their confidences
    detected,   \* technology -> [confidence, kinds]
    queue, seen,
    stacks,     \* [site, techs, archetypes] per site with anything to tell
    known,      \* every technology detected on any site
    signals,    \* rows [site, name, confidence], once stored
    phase       \* "idle", "subdomains", "paths", "stored"

techVars == <<sites, scanning, matches, detected, queue, seen, stacks, known, signals, phase>>
analysisVars == <<matches, detected, queue, seen>>

NoSite == "none"
Tech(name) == CHOOSE t \in ToSet(Technologies) : t.name = name

-----------------------------------------------------------------------------
(***************************************************************************)
(* Patterns are [kind, key, regex, marked, confidence].  A global variable *)
(* with an empty pattern is looked for by its name, unless the pattern has *)
(* a mark, such as a confidence: then its empty expression stays, and is   *)
(* found in any text, the empty one included.                              *)
(***************************************************************************)
Prepared(p) == IF p.kind = "js" /\ p.regex = "" /\ ~p.marked THEN [p EXCEPT !.regex = p.key] ELSE p

Search(p, response) ==
    CASE p.kind = "url" -> p.regex = "" \/ p.regex \in response.texts
      [] p.kind \in {"header", "cookie"} -> /\ p.key \in response.keys
                                            /\ p.regex = "" \/ p.regex \in response.texts
      [] p.kind \in {"js", "html"} -> p.regex = ""
      [] OTHER -> FALSE

Matched(tech, response) == {p \in {Prepared(q) : q \in tech.patterns} : Search(p, response)}
CheckTechnology(tech, response) ==
    LET found == Matched(tech, response) IN
    [confidence |-> Max({p.confidence : p \in found}), kinds |-> {p.kind : p \in found}]

(***************************************************************************)
(* Archetypes: sixty percent for the required groups, the rest by the      *)
(* share of the supporting ones.                                           *)
(***************************************************************************)
DetectArchetypes(names) ==
    LET Met(groups) == {g \in groups : g \cap names # {}}
        Share(a) == (80 * Cardinality(Met(a.supporting)) + Cardinality(a.supporting))
                        \div (2 * Cardinality(a.supporting))
    IN {[name |-> a.name, confidence |-> 60 + Share(a),
         matched |-> names \cap UNION (a.required \cup Met(a.supporting))] :
            a \in {b \in Archetypes : Met(b.required) = b.required}}

ParseTechnologies(found) ==
    {[name |-> n, confidence |-> found[n].confidence, kinds |-> found[n].kinds] : n \in DOMAIN found}
NamesOf(techs) == {t.name : t \in techs}

-----------------------------------------------------------------------------
TechInit ==
    /\ sites = {}
    /\ scanning = NoSite
    /\ matches = <<>> /\ detected = <<>> /\ queue = <<>> /\ seen = {}
    /\ stacks = {} /\ known = {} /\ signals = {}
    /\ phase = "idle"

\* A site that leads elsewhere keeps its own address: none is dropped as a double.
Discover ==
    /\ phase = "idle"
    /\ sites' \in SUBSET (Subdomains \cup Paths)
    /\ phase' = "subdomains"
    /\ UNCHANGED <<scanning, analysisVars, stacks, known, signals>>

Turn == IF phase = "subdomains" THEN Subdomains ELSE Paths

Analyze(s) ==
    /\ phase \in {"subdomains", "paths"} /\ scanning = NoSite
    /\ s \in sites \cap Turn
    /\ \E response \in Responses :
          LET places == {i \in DOMAIN Technologies : Matched(Technologies[i], response) # {}}
              hits == Picked(Technologies, places)
              names == [i \in DOMAIN hits |-> hits[i].name]
          IN /\ detected' = [n \in ToSet(names) |-> CheckTechnology(Tech(n), response)]
             /\ matches' = [n \in ToSet(names) |-> CheckTechnology(Tech(n), response).confidence]
             /\ queue' = names
             /\ seen' = ToSet(names)
    /\ scanning' = s
    /\ UNCHANGED <<sites, stacks, known, signals, phase>>

\* A page that cannot be analyzed has an empty stack, which is not listed.
AnalysisFails(s) ==
    /\ phase \in {"subdomains", "paths"} /\ scanning = NoSite
    /\ s \in sites \cap Turn
    /\ sites' = sites \ {s}
    /\ UNCHANGED <<scanning, analysisVars, stacks, known, signals, phase>>

Greatest(a, b) == IF a < b THEN b ELSE a
Effective(edge, parent) == Least(edge.confidence, parent)

\* One turn of the loop of _resolve_implies: every technology is expanded once.
ExpandNext ==
    /\ scanning # NoSite /\ queue # <<>>
    /\ LET name == Head(queue)
           edges == Tech(name).implies
           parent == detected[name].confidence
           strong == {i \in DOMAIN edges : Effective(edges[i], parent) >= 50}
           implied == {edges[i].to : i \in strong}
           Gained(n) == Max({Effective(edges[i], parent) : i \in {k \in strong : edges[k].to = n}})
           fresh == {i \in strong : edges[i].to \notin seen /\ \A k \in strong : edges[k].to = edges[i].to => i <= k}
       IN /\ detected' = [n \in DOMAIN detected \cup implied |->
                            CASE n \notin implied -> detected[n]
                              [] n \in implied \cap DOMAIN detected ->
                                     [detected[n] EXCEPT !.confidence = Greatest(@, Gained(n))]
                              [] OTHER -> [confidence |-> Gained(n), kinds |-> {"implied"}]]
          /\ queue' = Tail(queue) \o Picked([i \in DOMAIN edges |-> edges[i].to], fresh)
          /\ seen' = seen \cup implied
    /\ UNCHANGED <<sites, scanning, matches, stacks, known, signals, phase>>

\* A subdomain is listed with its archetypes, a path with what no subdomain has.
OnSubdomains == UNION {NamesOf(k.techs) : k \in {k \in stacks : k.site \in Subdomains}}

ListStack ==
    /\ scanning # NoSite /\ queue = <<>>
    /\ LET all == ParseTechnologies(detected)
           told == IF scanning \in Subdomains THEN all ELSE {t \in all : t.name \notin OnSubdomains}
           archetypes == IF scanning \in Subdomains THEN DetectArchetypes(NamesOf(all)) ELSE {}
       IN stacks' = stacks \cup (IF told = {} THEN {}
                                 ELSE {[site |-> scanning, techs |-> told, archetypes |-> archetypes]})
    /\ known' = known \cup DOMAIN detected
    /\ sites' = sites \ {scanning}
    /\ scanning' = NoSite
    /\ matches' = <<>> /\ detected' = <<>> /\ seen' = {}
    /\ UNCHANGED <<queue, signals, phase>>

SubdomainsDone ==
    /\ phase = "subdomains" /\ scanning = NoSite /\ sites \cap Subdomains = {}
    /\ phase' = "paths"
    /\ UNCHANGED <<sites, scanning, analysisVars, stacks, known, signals>>

SaveTechSignals ==
    /\ phase = "paths" /\ scanning = NoSite /\ sites = {}
    /\ signals' = UNION {{[site |-> k.site, name |-> t.name,
                           confidence |-> IF t.confidence = 0 THEN 100 ELSE t.confidence] : t \in k.techs} :
                            k \in stacks}
    /\ phase' = "stored"
    /\ UNCHANGED <<sites, scanning, analysisVars, stacks, known>>

TechNext ==
    \/ Discover \/ SubdomainsDone \/ ExpandNext \/ ListStack \/ SaveTechSignals
    \/ \E s \in Subdomains \cup Paths : Analyze(s) \/ AnalysisFails(s)

-----------------------------------------------------------------------------
TechTypeOK ==
    /\ sites \subseteq Subdomains \cup Paths
    /\ scanning \in Subdomains \cup Paths \cup {NoSite}
    /\ DOMAIN matches \subseteq DOMAIN detected
    /\ DOMAIN detected \subseteq TechNames
    /\ ToSet(queue) \subseteq seen /\ seen \subseteq DOMAIN detected
    /\ known \subseteq TechNames
    /\ \A r \in signals : r.site \in Subdomains \cup Paths /\ r.name \in TechNames
    /\ phase \in {"idle", "subdomains", "paths", "stored"}

\* What matches at least as surely as c, and what chains of implications lead to from there, every
\* link of them as sure: the least set with these matches that such links do not leave.
Surely(c) == {n \in DOMAIN matches : matches[n] >= c}
Links(c) == UNION {{<<n, e.to>> : e \in {x \in ToSet(Tech(n).implies) : x.confidence >= c}} : n \in TechNames}
Unleft(sure, links) ==
    {set \in SUBSET TechNames : sure \subseteq set /\ \A l \in links : l[1] \in set => l[2] \in set}
Chained(c) ==
    LET sets == Unleft(Surely(c), Links(c)) IN {n \in TechNames : \A set \in sets : n \in set}

\* Found weakly, and raised by another technology: it may have been expanded too early.
RaisedLate ==
    {n \in DOMAIN matches : matches[n] < 50 /\ detected[n].confidence >= 50 /\ Tech(n).implies # <<>>}

\* What an analysis ends with is what its matches imply: no technology is surer than the weakest
\* link of some chain from a match, none is less sure than its own match, what is only implied is
\* at least half sure, and, unless a weak match was raised after its turn, nothing that a chain
\* reaches is missing, in whatever order the table lists them (_resolve_implies).
ImplicationsAreChains ==
    scanning # NoSite /\ queue = <<>> =>
        /\ \A n \in DOMAIN detected :
             LET c == detected[n].confidence IN n \in Surely(c) \/ (c >= 50 /\ n \in Chained(c))
        /\ \A n \in DOMAIN matches : detected[n].confidence >= matches[n]
        /\ \A n \in DOMAIN detected \ DOMAIN matches : detected[n].confidence >= 50
        /\ RaisedLate = {} => DOMAIN detected = DOMAIN matches \cup Chained(50)

\* No technology of an analyzed site gets lost between the stacks and the rows, and a path says
\* nothing that a subdomain has said (analyze_multiple_domains, save_tech_signals).
StacksAreComplete ==
    phase = "stored" =>
        /\ UNION {NamesOf(k.techs) : k \in stacks} = known
        /\ {r.name : r \in signals} = known
        /\ \A k \in stacks : k.site \in Paths => NamesOf(k.techs) \cap OnSubdomains = {}
=============================================================================
