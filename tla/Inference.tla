----------------------------- MODULE Inference ------------------------------
(***************************************************************************)
(* From what was collected about a company to the prompt of the document:  *)
(* the signals read out of job postings (services/job_parser.py), the pain *)
(* rules with their confidences (services/pain_inference.py), and the      *)
(* prompt, ordered by the quality of the evidence (services/claude.py).    *)
(* A company is the record of what the rules ask about it; names of        *)
(* technologies, titles and wording are left out.                          *)
(***************************************************************************)
EXTENDS Integers, FiniteSets, FiniteSetsExt, Picking

CONSTANTS
    Bundles,    \* of signals, one of a company: records [tech, infra, jobs, sources, silenced]
    Sellers,    \* records [category, product, hits, services]
    Tierings    \* values of research_tiered_prompt_enabled

VARIABLES
    company, seller,    \* of this document
    pains,      \* what the engine has inferred
    prompt,     \* a set of <<tier, source or rule>>
    reading     \* "idle", "collected", "inferred", "prompted"

inferVars == <<company, seller, pains, prompt, reading>>

Unseen == [seen |-> FALSE]  \* infra or jobs that were not collected
SpecialistRoles == {"backend", "frontend", "fullstack", "data", "devops", "security", "mobile", "product",
                    "project_management"}
HiredRoles == SpecialistRoles \cup {"legal"}

(***************************************************************************)
(* Job postings.                                                           *)
(***************************************************************************)
ExpectedRoles(initiative) ==
    CASE initiative = "cloud" -> {"devops", "backend", "fullstack", "security"}
      [] initiative \in {"platform", "quality"} -> {"devops", "backend", "fullstack", "product"}
      [] initiative = "data" -> {"data", "backend", "fullstack"}
      [] initiative = "ai" -> {"data", "backend", "fullstack", "devops"}
      [] initiative = "compliance" -> {"security", "devops", "legal"}
Specialists(j) == MapThenSumSet(LAMBDA r : j.roles[r], SpecialistRoles)

\* Programmes that no expected role is hired for.
CapabilityGaps(j) == {i \in j.initiatives : \A r \in ExpectedRoles(i) : j.roles[r] = 0}
CoordinatedHiring(j) == Specialists(j) >= 3 /\ Cardinality({r \in SpecialistRoles : j.roles[r] > 0}) >= 2

Parsed(posting) == IF posting = Unseen THEN Unseen ELSE
    [roles |-> {r \in HiredRoles : posting.roles[r] > 0},
     senior |-> posting.senior, junior |-> posting.junior,
     mentions |-> posting.mentions, partners |-> posting.partners,
     initiatives |-> posting.initiatives,
     cluster |-> CoordinatedHiring(posting), gaps |-> CapabilityGaps(posting)]

(***************************************************************************)
(* The rules.  `t` is what the scan of the sites found, `i` the            *)
(* infrastructure, `j` the parsed postings; a rule that reads what was not *)
(* collected does not fire.                                                *)
(***************************************************************************)
Fire(rule, category, confidence, fires) ==
    IF fires THEN {[rule |-> rule, category |-> category, confidence |-> confidence, background |-> FALSE]} ELSE {}

StackRules(t, i, j) ==
    Fire("identity_fragmentation", "marketing", 75, t.tags >= 3 /\ ~t.cdp)
    \cup Fire("tech_debt", "engineering", 65, t.endOfLife /\ t.modern)
    \cup Fire("security_gap", "security", 75, i # Unseen /\ i.score <= 2)
    \cup Fire("scaling_pressure", "engineering", 55,
              /\ j # Unseen
              /\ j.roles \cap {"devops", "security"} # {}
              /\ (i = Unseen \/ Cardinality(i.clouds) <= 1))
    \cup Fire("multi_cloud", "operations", 60,
              Cardinality(t.clouds \cup (IF i = Unseen THEN {} ELSE i.clouds)) >= 2)

ProgrammeRules(t, i, j) ==
    Fire("cert_gap", "security", 85, i # Unseen /\ i.expiring /\ ~i.automated)
    \cup Fire("marketing_product_mismatch", "marketing", 45, t.apart)
    \cup (IF j = Unseen THEN {} ELSE
          Fire("data_infra_pain", "data", 50, "data" \in j.roles)
          \cup Fire("partner_delivery_motion", "operations", 60, j.partners)
          \cup Fire("cloud_program_capacity_gap", "operations", 70, j.gaps \cap {"cloud", "platform"} # {})
          \cup Fire("data_program_capacity_gap", "data", 70, j.gaps \cap {"data", "ai"} # {}))

ClusterCategory(initiatives) ==
    CASE initiatives \cap {"data", "ai"} # {} -> "data"
      [] initiatives \cap {"data", "ai"} = {} /\ initiatives \cap {"cloud", "platform"} # {} -> "operations"
      [] OTHER -> "engineering"

ClusterRules(t, i, j) ==
    Fire("tag_bloat", "marketing", 60, t.tags >= 6)
    \cup Fire("vendor_lock_in", "operations", 55, t.sourcesOfOneVendor >= 3)
    \cup (IF j = Unseen THEN {} ELSE
          Fire("transformation_hiring_cluster", ClusterCategory(j.initiatives), 60,
               j.cluster /\ j.initiatives \ {"compliance"} # {})
          \cup Fire("compliance_gap", "security", 70,
                    i # Unseen /\ i.score <= 2 /\ ("security" \in j.roles \/ "security" \in j.mentions)))

CapacityRules(t, i, j) ==
    Fire("hiring_velocity_anomaly", "engineering", 50,
         j # Unseen /\ {j.senior, j.junior} \cap 3..99 # {} /\ 0 \in {j.senior, j.junior})
    \cup Fire("tool_sprawl", "operations", 55, t.tools >= 40)
    \cup (IF ~t.product THEN {}
          ELSE IF t.monitored \/ (j # Unseen /\ "monitoring" \in j.mentions)
          THEN Fire("observability_stack_detected", "operations", 70, TRUE)
          ELSE Fire("observability_gap", "operations", 25, j = Unseen \/ "devops" \notin j.roles))

StoreRules(t, i, j) ==
    Fire("database_scaling_pressure", "engineering", 55,
         t.databases = 1 /\ ~t.cached /\ j # Unseen /\ j.roles \cap {"data", "backend"} # {})
    \cup Fire("auth_fragmentation", "operations", 50, t.logins >= 2)

\* Rules that fire together say more than each of them.
Compounds == [systemic_security_underinvestment |-> {"security_gap", "cert_gap"},
              engineering_capacity_crisis |-> {"tech_debt", "scaling_pressure", "hiring_velocity_anomaly"},
              marketing_infra_debt |-> {"identity_fragmentation", "tag_bloat", "marketing_product_mismatch"}]
CompoundCategory == [systemic_security_underinvestment |-> "security", engineering_capacity_crisis |-> "engineering",
                     marketing_infra_debt |-> "marketing"]

\* Mutant: percentages are bounded above alone.
ClampedAbove(n) == Least(n, 95)
Clamped(n) == IF n < 10 THEN 10 ELSE Least(n, 95)

WithCompounds(results) ==
    results \cup UNION {LET found == {p \in results : p.rule \in Compounds[c]} IN
                        Fire(c, CompoundCategory[c], Least(Max({0} \cup {p.confidence : p \in found}) + 10, 95),
                             \E p, q \in found : p # q)
                        : c \in DOMAIN Compounds}

\* What explains a signal away, and a floor of 10 below all of them.
Dampened(results, t, j) ==
    LET Less(p) == CASE p.rule = "tool_sprawl" /\ t.sites > 3 -> Least(10 * (t.sites - 3), p.confidence - 30)
                     [] p.rule = "database_scaling_pressure" /\ j # Unseen /\ "pipelines" \in j.mentions -> 10
                     [] OTHER -> 0
    IN {[p EXCEPT !.confidence = IF p.confidence - Less(p) < 10 THEN 10 ELSE p.confidence - Less(p)] : p \in results}

\* What was seen with little confidence proves little: t.doubt has the rules whose evidence names
\* technologies that were, and what that takes from each.
Doubted(results, t) ==
    {IF p.rule \in DOMAIN t.doubt THEN [p EXCEPT !.confidence = Clamped(p.confidence - t.doubt[p.rule])] ELSE p :
        p \in results}

(***************************************************************************)
(* What the seller sells.                                                  *)
(***************************************************************************)
Boosts(category) ==
    CASE category = "database" -> {"database_scaling_pressure", "data_infra_pain", "scaling_pressure", "tech_debt"}
      [] category = "fintech" -> {"compliance_gap", "security_gap", "cert_gap"}
      [] category = "devtools" -> {"observability_gap", "observability_stack_detected", "tool_sprawl",
                                   "scaling_pressure", "tech_debt"}
      [] category = "cloud" -> {"multi_cloud", "vendor_lock_in", "scaling_pressure", "cloud_program_capacity_gap",
                                "transformation_hiring_cluster", "partner_delivery_motion", "observability_gap",
                                "observability_stack_detected"}
      [] category = "healthtech" -> {"compliance_gap", "security_gap"}
      [] category = "martech" -> {"identity_fragmentation", "tag_bloat", "marketing_product_mismatch"}
      [] OTHER -> {}

Weighted(results, s) ==
    LET hits(c) == s.hits[c]
        most == Max({s.hits[c] : c \in DOMAIN s.hits})
        Suppressed(p) == p.category = "security" /\ hits("security") = 0
        Change(p) == (IF hits(p.category) >= 1 THEN 15 ELSE IF most >= 2 THEN -10 ELSE 0)
        Boost(p, n) == IF n > 0 /\ p.rule \in Boosts(s.category) THEN n + 15 ELSE n
        Service(p, n) == IF s.services /\ p.category \in {"operations", "data"} THEN n + 5 ELSE n
        Of(p) == IF Suppressed(p) THEN 0
                 ELSE IF most = 0 /\ s.category = "" THEN p.confidence
                 ELSE LET n == Service(p, Boost(p, p.confidence + Change(p))) IN IF n > 0 THEN Clamped(n) ELSE n
    IN {p \in {[p EXCEPT !.confidence = Of(p)] : p \in results} : p.confidence > 0}

Denied(category) ==
    CASE category \in {"database", "cloud", "fintech", "healthtech"} -> {"frontend_frameworks", "marketing_tags"}
      [] category = "devtools" -> {"marketing_tags"}
      [] category = "security" -> {"frontend_frameworks", "marketing_tags", "data_infra"}
      [] OTHER -> {}

Family(rule) ==
    CASE rule \in {"identity_fragmentation", "tag_bloat", "marketing_infra_debt"} -> {"marketing_tags"}
      [] rule = "marketing_product_mismatch" -> {"frontend_frameworks"}
      [] rule \in {"data_infra_pain", "database_scaling_pressure"} -> {"data_infra"}
      [] OTHER -> {}
\* A signal that names what the seller is about stays: t.linked are the rules whose evidence does,
\* and one rule's own description is about infrastructure. Sellers of security have no such terms.
Linked(rule, t, category) ==
    /\ category # "security"
    /\ rule \in t.linked \/ (category = "devtools" /\ rule = "marketing_infra_debt")
ActionRelevant(p, t, category) == Family(p.rule) \cap Denied(category) = {} \/ Linked(p.rule, t, category)

Demoted(results, t, category) ==
    {[p EXCEPT !.background = ~ActionRelevant(p, t, category)] : p \in results}

Evaluate(c, s) ==
    LET j == Parsed(c.jobs)
        fired == StackRules(c.tech, c.infra, j) \cup ProgrammeRules(c.tech, c.infra, j)
                 \cup ClusterRules(c.tech, c.infra, j) \cup CapacityRules(c.tech, c.infra, j)
                 \cup StoreRules(c.tech, c.infra, j)
    IN Demoted(Weighted(Doubted(Dampened(WithCompounds(fired), c.tech, j), c.tech), s), c.tech, s.category)

(***************************************************************************)
(* The prompt.                                                             *)
(***************************************************************************)
PainTier(p) == CASE p.background -> "tier3"
                 [] ~p.background /\ p.confidence >= 70 -> "tier1"
                 [] ~p.background /\ p.confidence < 70 /\ p.confidence >= 40 -> "tier2"
                 [] OTHER -> "tier3"
SourceTier(source) ==
    CASE source \in {"product technologies", "job signals", "postings", "firmographics", "filings"} -> "tier1"
      [] source \in {"homepage", "structure", "infrastructure", "regulations"} -> "tier2"
      [] source = "mentions" -> "tier3"

\* Job signals, postings and mentions are read for the product the seller's profile names, which
\* need not be the category its context is taken for: c.silenced has the sources of which nothing
\* is then left (filter_text_blocks, _format_job_signals_section).
Relevant(c, s) == {x \in c.sources : <<x, s.product>> \notin c.silenced}

\* Tiers leave out what was found on marketing sites alone (format_tech_by_tier); the flat prompt has it.
TieredUserPrompt(sources, ps) ==
    {<<SourceTier(x), x>> : x \in sources \ {"site technologies"}} \cup {<<PainTier(p), p.rule>> : p \in ps}
FlatUserPrompt(sources, ps) ==
    {<<"flat", x>> : x \in sources}
    \cup {<<IF p.background THEN "background" ELSE "flat", p.rule>> : p \in ps}

-----------------------------------------------------------------------------
InferInit ==
    /\ company = CHOOSE c \in Bundles : TRUE
    /\ seller = CHOOSE s \in Sellers : TRUE
    /\ pains = {}
    /\ prompt = {}
    /\ reading = "idle"

Collected ==
    /\ reading = "idle"
    /\ company' \in Bundles
    /\ seller' \in Sellers
    /\ reading' = "collected"
    /\ UNCHANGED <<pains, prompt>>

Infer ==
    /\ reading = "collected"
    /\ pains' = Evaluate(company, seller)
    /\ reading' = "inferred"
    /\ UNCHANGED <<company, seller, prompt>>

BuildUserPrompt ==
    /\ reading = "inferred"
    /\ \E tiered \in Tierings :
         prompt' = IF tiered THEN TieredUserPrompt(Relevant(company, seller), pains)
                   ELSE FlatUserPrompt(Relevant(company, seller), pains)
    /\ reading' = "prompted"
    /\ UNCHANGED <<company, seller, pains>>

InferNext == Collected \/ Infer \/ BuildUserPrompt
InferSpec == InferInit /\ [][InferNext]_inferVars

-----------------------------------------------------------------------------
\* Confidences are percentages of the range the engine promises, one signal for each rule.
InferTypeOK ==
    /\ reading \in {"idle", "collected", "inferred", "prompted"}
    /\ \A p \in pains : p.confidence \in 10..95
    /\ \A p, q \in pains : p.rule = q.rule => p = q

\* A compound is offered as a ground for action only if the signals it was
\* compounded from are too: the weights, the doubts and the demotion to the
\* background that come after it never leave it standing alone
\* (_evaluate_compounds runs first of four passes). Sellers of developer tools
\* are told of marketing infrastructure debt although its grounds are demoted:
\* its description holds a word of theirs (is_action_tier_relevant).
CompoundsStandOnSignals ==
    \A p \in pains : p.rule \in DOMAIN Compounds =>
        LET grounds == {q \in pains : q.rule \in Compounds[p.rule]} IN
        /\ \E q, r \in grounds : q # r
        /\ ~p.background => \/ \A q \in grounds : ~q.background
                            \/ p.rule = "marketing_infra_debt" /\ seller.category = "devtools"

\* A prompt names each signal and each source of which something is relevant to
\* the seller once, and no other. What the marketing sites run is in no tier,
\* so that no existential data point is built on it, and a flat prompt has it;
\* nothing the seller's category demoted stands among what documents are to be
\* built on.
PromptIsComplete ==
    reading = "prompted" =>
        LET named(x) == {entry \in prompt : entry[2] = x}
            relevant == Relevant(company, seller)
        IN
        /\ \A x \in (relevant \ {"site technologies"}) \cup {p.rule : p \in pains} : Cardinality(named(x)) = 1
        /\ \A x \in company.sources \ relevant : named(x) = {}
        /\ \A entry \in named("site technologies") : entry[1] = "flat"
        /\ "site technologies" \in relevant /\ (\E entry \in prompt : entry[1] = "flat") =>
              <<"flat", "site technologies">> \in prompt
        /\ \A p \in pains : p.background => \A tier \in {"tier1", "tier2", "flat"} : <<tier, p.rule>> \notin prompt

=============================================================================
