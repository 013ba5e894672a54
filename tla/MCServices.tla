---------------------------- MODULE MCServices ----------------------------
(* The parts around the paid core, one instance of each: those of Services *)
(* and those around them, with the inputs they are checked on. A behaviour *)
(* is of one part, chosen in the initial state; the others rest in theirs. *)
EXTENDS Services, Materials, Cursors, Writing, Grounds, TLC

othersVars ==
    <<materialVars, cursorVars, inferVars, generationVars, writingVars, techVars, profileVars>>
servicesVars == <<partsVars, othersVars>>

----------------------------------------------------------------------------
(* The texts: one short sentence; two sections, of which the first needs   *)
(* two chunks; a sentence longer than a chunk between two short ones.      *)
MaterialTexts == {<<<<3>>>>, <<<<6, 6, 3, 6, 3>>, <<1, 3>>>>, <<<<3, 25, 3>>>>}

Tech0 == [tags |-> 0, cdp |-> FALSE, endOfLife |-> FALSE, modern |-> FALSE, clouds |-> {}, apart |-> FALSE,
          sourcesOfOneVendor |-> 0, tools |-> 10, sites |-> 1, product |-> FALSE, monitored |-> FALSE,
          databases |-> 1, cached |-> FALSE, logins |-> 0, doubt |-> <<>>, linked |-> {}]
Tech1 == [tags |-> 6, cdp |-> FALSE, endOfLife |-> TRUE, modern |-> TRUE, clouds |-> {"AWS"}, apart |-> TRUE,
          sourcesOfOneVendor |-> 3, tools |-> 40, sites |-> 6, product |-> TRUE, monitored |-> FALSE,
          databases |-> 1, cached |-> FALSE, logins |-> 2, doubt |-> <<>>, linked |-> {}]
Doubts == [r \in {"identity_fragmentation", "tag_bloat", "tool_sprawl", "observability_gap",
                   "database_scaling_pressure", "tech_debt"} |-> IF r = "tag_bloat" THEN 10 ELSE 20]
Techs == {Tech0, Tech1, [Tech1 EXCEPT !.doubt = Doubts],
          [Tech1 EXCEPT !.linked = {"tag_bloat"}, !.monitored = TRUE], [Tech1 EXCEPT !.tags = 3]}
Infras == {Unseen, [score |-> 2, clouds |-> {}, expiring |-> TRUE, automated |-> FALSE],
           [score |-> 5, clouds |-> {"AWS", "GCP"}, expiring |-> FALSE, automated |-> TRUE]}
Posting == [roles |-> [r \in HiredRoles |-> 0], senior |-> 0, junior |-> 0, mentions |-> {},
            partners |-> FALSE, initiatives |-> {"cloud", "data"}]
Postings ==
    {Unseen, Posting,
     [Posting EXCEPT !.roles = [r \in HiredRoles |-> 1], !.senior = 3, !.mentions = {"pipelines"}],
     [Posting EXCEPT !.roles["data"] = 3, !.junior = 3, !.partners = TRUE,
                     !.mentions = {"security", "monitoring"}, !.initiatives = {}],
     [Posting EXCEPT !.roles["backend"] = 2, !.roles["product"] = 1, !.initiatives = {"quality", "compliance"}]}
Analyzed == {[tech |-> t, infra |-> i, jobs |-> j, 
             sources |-> {"homepage", "product technologies", "site technologies", "job signals", "mentions"},
             silenced |-> {<<"mentions", "database">>, <<"job signals", "database">>}] :
               t \in Techs, i \in Infras, j \in Postings}
Hits == [security |-> 0, engineering |-> 0, operations |-> 0, marketing |-> 0, data |-> 0]
Sold == {[category |-> c, product |-> p, hits |-> h, services |-> v] :
              p \in {"", "database"}, c \in {"", "database", "devtools", "security"},
              h \in {Hits, [Hits EXCEPT !.marketing = 2], [Hits EXCEPT !.security = 1]}, v \in BOOLEAN}

(* Answers of the model to a research prompt: sections of good and of bad  *)
(* sourcing, filler, repetitions, and scores with and without a composite. *)
Line(k, n) == [kind |-> k, text |-> n, hedged |-> FALSE]
Block(h, l) == [header |-> h, lines |-> l]
Score(p, f, t, c, e) == [pain |-> p, fit |-> f, timing |-> t, composite |-> c, evidence |-> e]
Edps ==
    {<<>>, <<Line("none found", 1)>>,
     <<Line("signal", 1), Line("sources", 1), Line("signal", 2), Line("sources", 2)>>,
     <<Line("signal", 1), Line("sources", 1), Line("signal", 2), Line("sources", 1)>>,
     <<Line("signal", 1), Line("signal", 2), Line("sources", 1)>>,
     <<Line("claim", 1), Line("claim", 2)>>}
Problems ==
    {<<>>, <<Line("label", 1), Line("claim", 1), [Line("claim", 2) EXCEPT !.hedged = TRUE]>>,
     <<Line("detected", 1), Line("claim", 2), Line("label", 1)>>, <<Line("filler", 1)>>}
Tails ==
    {<<Block("talking points for them", <<Line("claim", 1), Line("sources", 1)>>),
       Block("confirmed technology stack", <<Line("detected", 1)>>), Block("opportunity score", <<>>)>>,
     <<Block("recommended talking points", <<Line("claim", 3)>>),
       Block("before scenario", <<Line("claim", 2), Line("label", 1)>>),
       Block("business problems", <<Line("claim", 3)>>)>>}
GivenScores ==
    {Score(60, 60, 60, 60, "text"), Score(70, 55, 20, Absent, "empty"),
     Score(62, 61, 120, 60, "absent"), Score(1, 0, 0, Absent, "text")}
ModelAnswers ==
    {NoAnswer} \cup
    {[blocks |-> <<Block("existential data points", e), Block("stated business problems", p)>> \o t, scores |-> s] :
       e \in Edps, p \in Problems, t \in Tails, s \in GivenScores}

(* Drafts of a sequence, complete and not, within their limits and over    *)
(* them; messages that need each rescue, and messages that need none.      *)
Email(n, w) == [number |-> n, words |-> w]
EmailDrafts ==
    {[emails |-> es, subjects |-> ss] :
       es \in {{Email(1, 50), Email(2, 90), Email(3, 50)}, {Email(1, 90), Email(2, 120), Email(3, 50)},
               {Email(1, 50), Email(2, 90)}, {Email(1, 80), Email(2, 90), Email(4, 120)}},
       ss \in {<<"fine", "plain">>, <<"loud", "flawed">>, <<"blank">>}}
Sentence(w, wide, asks, names, blocked) ==
    [words |-> w, wide |-> wide, asks |-> asks, names |-> names, blocked |-> blocked, banned |-> FALSE]
DraftMessages ==
    {<<>>, <<[Sentence(44, FALSE, TRUE, "early", FALSE) EXCEPT !.banned = TRUE]>>,
     <<Sentence(30, FALSE, FALSE, "no", FALSE), Sentence(14, FALSE, TRUE, "no", FALSE)>>,
     <<Sentence(30, FALSE, FALSE, "early", TRUE), Sentence(14, TRUE, TRUE, "no", FALSE)>>,
     <<Sentence(20, TRUE, FALSE, "late", FALSE), Sentence(25, TRUE, TRUE, "no", FALSE)>>,
     <<Sentence(50, TRUE, FALSE, "late", FALSE), Sentence(45, TRUE, TRUE, "no", FALSE)>>,
     <<Sentence(100, FALSE, TRUE, "late", FALSE)>>,
     <<Sentence(30, FALSE, TRUE, "early", FALSE), Sentence(14, FALSE, TRUE, "no", FALSE)>>}

(* Rules with a threshold some accounts reach, all and none.               *)
RuleThresholds == <<50, 0, 90>>

(* Technologies as technologies.json has them: found weakly, found through *)
(* another, implied by half or in full, with a mark in place of a pattern; *)
(* and responses with some of the headers and cookies they look at.        *)
Pattern(kind, key, regex, confidence) ==
    [kind |-> kind, key |-> key, regex |-> regex, marked |-> confidence < 100, confidence |-> confidence]
Entry(name, patterns, implies) == [name |-> name, patterns |-> patterns, implies |-> implies]
Implied(name, confidence) == [to |-> name, confidence |-> confidence]
Table ==
    <<Entry("ASP.NET", {Pattern("header", "aspnet", "", 100)}, <<Implied("IIS", 50)>>),
      Entry("GitLab", {Pattern("cookie", "gitlab", "", 100), Pattern("js", "GitLab", "", 100)}, <<Implied("Rails", 100)>>),
      Entry("IIS", {Pattern("header", "server", "iis", 100)}, <<Implied("Windows", 100)>>),
      Entry("PHP", {Pattern("header", "powered", "php", 100)}, <<>>),
      Entry("PrestaShop", {Pattern("js", "freeProduct", "", 25), Pattern("header", "powered", "presta", 100)},
            <<Implied("PHP", 100), Implied("MySQL", 100)>>),
      Entry("Rails", {Pattern("cookie", "session", "", 75)}, <<Implied("Ruby", 100)>>),
      Entry("Duda", {Pattern("js", "version", "", 0)}, <<>>),
      Entry("MySQL", {}, <<>>), Entry("Ruby", {}, <<>>), Entry("Windows", {}, <<>>)>>
Combinations ==
    {[name |-> "commerce", required |-> {{"Shopify", "PrestaShop"}}, supporting |-> {{"Stripe"}, {"Rails"}}],
     [name |-> "lamp", required |-> {{"PHP"}, {"Apache"}}, supporting |-> {{"MySQL"}}]}
Headers ==
    {[keys |-> k, texts |-> t] :
        k \in {{}, {"server", "aspnet"}, {"session"}, {"session", "gitlab"}, {"powered", "gitlab"}},
        t \in {{}, {"iis", "php"}, {"presta"}}}

(* The pages of a seller's site: one with no weight in any bucket, one that*)
(* scores by its words alone, one that is excluded, one on another host.   *)
SitePage(name, weights, deep, category) ==
    [name |-> name, host |-> "own", excluded |-> FALSE, deep |-> deep, long |-> deep, category |-> category,
     weights |-> [product |-> weights[1], audience |-> weights[2], proof |-> weights[3]]]
Landing == SitePage("front", <<0, 0, 0>>, FALSE, "none")
Story == SitePage("story", <<0, 0, 0>>, FALSE, "none")
Manual == SitePage("docs", <<3, 0, 0>>, TRUE, "docs")
Clients == SitePage("customers", <<0, 8, 10>>, FALSE, "none")
Solutions == SitePage("solutions", <<0, 10, 0>>, FALSE, "products")
Goods == SitePage("products", <<10, 0, 0>>, FALSE, "products")
Careers == [SitePage("careers", <<0, 0, 0>>, FALSE, "careers") EXCEPT !.excluded = TRUE]
Archive == SitePage("archive", <<0, 0, 0>>, TRUE, "none")
Foreign == [SitePage("pricing", <<0, 0, 8>>, FALSE, "none") EXCEPT !.host = "other"]
SiteMaps == [1..2 -> {Landing, Story, Clients, Archive, Foreign}] \cup {<<Archive, Story, Clients>>, <<Story, Archive, Story>>}
SitemapPages == UNION {[1..n -> {Careers, Solutions, Goods, Story, Manual}] : n \in 1..2}
Item(k) == [key |-> k, blank |-> k = ""]
Lists ==
    {<<>>, <<Item("cost"), Item(""), Item("cost"), Item("speed")>>, [i \in 1..8 |-> Item(ToString(i))]}

----------------------------------------------------------------------------
SellerPages == {Landing, Story, Manual, Clients, Solutions, Goods, Careers, Archive, Foreign}

----------------------------------------------------------------------------
Parts == {"materials", "cursors", "team", "balance", "profile", "limits", "startup", "reports",
          "automation", "pages", "collection", "inference", "generation", "writing", "technologies", "seller"}

(* A part that rests has one initial state, whichever it may have.         *)
ServicesInit ==
    /\ part \in Parts
    /\ PartsInit
    /\ MaterialInit /\ (part # "materials" => \A m \in Uploads : material[m].text = <<<<3>>>>)
    /\ CursorInit /\ (part # "cursors" => newest = 0)
    /\ (part # "limits" => enforce)
    /\ (part # "startup" => \A u \in OldUsers : ~purse[u].taken)
    /\ (part # "automation" => composite = [a \in 1 .. Accounts |-> 0])
    /\ InferInit /\ GenerationInit /\ WritingInit /\ TechInit /\ ProfileInit

OnlyOneOther ==
    /\ UNCHANGED partsVars
    /\ IF part = "materials" THEN TRUE ELSE UNCHANGED materialVars
    /\ IF part = "cursors" THEN TRUE ELSE UNCHANGED cursorVars
    /\ IF part = "inference" THEN TRUE ELSE UNCHANGED inferVars
    /\ IF part = "generation" THEN TRUE ELSE UNCHANGED generationVars
    /\ IF part = "writing" THEN TRUE ELSE UNCHANGED writingVars
    /\ IF part = "technologies" THEN TRUE ELSE UNCHANGED techVars
    /\ IF part = "seller" THEN TRUE ELSE UNCHANGED profileVars

ServicesNext ==
    \/ PartsNext /\ UNCHANGED othersVars
    \/ part = "materials" /\ MaterialNext /\ OnlyOneOther
    \/ part = "cursors" /\ CursorNext /\ OnlyOneOther
    \/ part = "inference" /\ InferNext /\ OnlyOneOther
    \/ part = "generation" /\ GenerationNext /\ OnlyOneOther
    \/ part = "writing" /\ WritingNext /\ OnlyOneOther
    \/ part = "technologies" /\ TechNext /\ OnlyOneOther
    \/ part = "seller" /\ ProfileNext /\ OnlyOneOther

CollectorSymmetry == Permutations(Collectors)
ServicesSpec == ServicesInit /\ [][ServicesNext]_servicesVars

----------------------------------------------------------------------------
(* Every part keeps its types.                                             *)
ServicesTypeOK ==
    /\ part \in Parts
    /\ MaterialTypeOK /\ CursorTypeOK /\ Te!TeamTypeOK /\ Us!UserTypeOK
    /\ Ra!LimitTypeOK /\ St!StartTypeOK /\ Re!ReportTypeOK /\ Au!AutoTypeOK
    /\ Do!PagesTypeOK /\ Co!CollectTypeOK /\ InferTypeOK /\ GenerationTypeOK
    /\ WritingTypeOK /\ TechTypeOK /\ ProfileTypeOK
=============================================================================
