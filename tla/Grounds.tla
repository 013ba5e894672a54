------------------------------ MODULE Grounds -------------------------------
(***************************************************************************)
(* What a document stands on: the inference of pains, the generation of    *)
(* the text, the detection of technologies and the profile of the seller,  *)
(* each over its own state and all of them at once.                        *)
(***************************************************************************)
EXTENDS Inference, Generation, TechDetect, SellerProfile

(* Three descriptions of services/pain_inference.py: a doubt takes ten or  *)
(* twenty at most, the evidence of a compound is the names of its rules    *)
(* and holds no word of a seller's, and a source of signals is no rule.    *)
ASSUME InferConstants ==
    \A b \in Bundles :
        /\ \A r \in DOMAIN b.tech.doubt : b.tech.doubt[r] \in {0, 10, 20}
        /\ b.tech.linked \cap DOMAIN Compounds = {}
        /\ b.sources \subseteq {"product technologies", "site technologies", "job signals", "postings", "firmographics", "filings", "homepage",
                                "structure", "infrastructure", "regulations", "mentions"}
(* An answer is a sequence of blocks of lines, and a score that is read is *)
(* a number.                                                               *)
ASSUME GenerationConstants ==
    \A a \in Answers :
        /\ a.blocks \in Seq(ToSet(a.blocks))
        /\ \A i \in DOMAIN a.blocks : a.blocks[i].lines \in Seq(ToSet(a.blocks[i].lines))
        /\ {a.scores.pain, a.scores.fit, a.scores.timing, a.scores.composite} \subseteq Nat \cup {Absent}
(* The table has a name once, and what it implies is in it; a path is no   *)
(* subdomain.                                                              *)
ASSUME TechConstants ==
    /\ Technologies \in Seq(ToSet(Technologies))
    /\ \A i, j \in DOMAIN Technologies : Technologies[i].name = Technologies[j].name => i = j
    /\ \A t \in ToSet(Technologies) :
          /\ IsFiniteSet(t.patterns)
          /\ t.patterns \subseteq [kind : STRING, key : STRING, regex : STRING, marked : BOOLEAN, confidence : Nat]
          /\ t.implies \in Seq([to : TechNames, confidence : Nat])
    /\ Subdomains \cap Paths = {} /\ NoSite \notin Subdomains \cup Paths
(* A word of a path that counts for a bucket weighs three at least         *)
(* (_BUCKET_PATTERNS).                                                     *)
ASSUME ProfileConstants ==
    /\ Home \in SitePages
    /\ \A p \in SitePages : \A b \in {"product", "audience", "proof"} : p.weights[b] \in {0} \cup 3 .. 10
    /\ Maps \subseteq Seq(SitePages) /\ Sitemaps \subseteq Seq(SitePages)
    /\ Payloads \subseteq Seq([key : STRING, blank : BOOLEAN])

groundsVars == <<inferVars, generationVars, techVars, profileVars>>

-----------------------------------------------------------------------------
GroundsInit == InferInit /\ GenerationInit /\ TechInit /\ ProfileInit
GroundsNext ==
    \/ InferNext /\ UNCHANGED <<generationVars, techVars, profileVars>>
    \/ GenerationNext /\ UNCHANGED <<inferVars, techVars, profileVars>>
    \/ TechNext /\ UNCHANGED <<inferVars, generationVars, profileVars>>
    \/ ProfileNext /\ UNCHANGED <<inferVars, generationVars, techVars>>
GroundsSpec == GroundsInit /\ [][GroundsNext]_groundsVars

-----------------------------------------------------------------------------
(* A document stands on what was found: technologies on chains from what a *)
(* site showed, none of them lost, compounds on their signals, the prompt  *)
(* on every source, the sections and scores on one valid answer, a fact in *)
(* one place; and a seller's profile on pages that were read               *)
(* (_resolve_implies, analyze_multiple_domains, evaluate,                  *)
(* _build_user_prompt, generate_research_document, select_profile_urls).   *)
DocumentsStandOnFacts ==
    /\ CompoundsStandOnSignals /\ PromptIsComplete
    /\ DocumentIsOneAnswer /\ FactsSaidOnce /\ CompositeIsMean
    /\ ImplicationsAreChains /\ StacksAreComplete
    /\ ScrapesAreWellSpent /\ ProductAndAudienceAreRead /\ SourcesWereRead
=============================================================================
