--------------------------- MODULE DocumentPages ---------------------------
(***************************************************************************)
(* What a signed-in user does with documents (routes/research.py,          *)
(* db/documents.py, db/contacts.py): has one made and stored under a slug, *)
(* opens it by number, by share token or by its link, buys its contacts.   *)
(* A job of the web page runs in the queue; its outcome alone is seen here.*)
(* Money is counted in halves of a credit, the price of the contacts.      *)
(***************************************************************************)
EXTENDS Integers, Sequences, FiniteSets, Functions

CONSTANTS
    Members,        \* users
    Orgs,           \* their organizations
    Companies,      \* company names, as slugs
    Visits,         \* requests in progress
    SlugAttempts,   \* a slug, and the slug with -2, -3, ... up to this number
    DocLimit,       \* bound on the documents
    Halves,         \* what each user owns at the start
    PageFaults      \* bound: requests that are cut off

VARIABLES
    team,       \* org_members
    docs,       \* research_documents by id: owner, company, slug suffix, age below a day, contacts
    visit,      \* the requests
    halves,     \* the balance of each user
    empty,      \* history: halves paid for contacts that were not found
    cutOff      \* history: halves kept from requests that were cut off, and how many there were

pagesVars == <<team, docs, visit, halves, empty, cutOff>>

NoVisit == [at |-> "idle", who |-> CHOOSE u \in Members : TRUE, company |-> CHOOSE c \in Companies : TRUE,
            doc |-> 0, shown |-> 0, paid |-> 0]

PagesInit ==
    /\ team \in [Members -> Orgs]
    /\ docs = <<>>
    /\ visit = [v \in Visits |-> NoVisit]
    /\ halves = [u \in Members |-> Halves]
    /\ empty = 0
    /\ cutOff = [halves |-> 0, times |-> 0]

PagesTypeOK ==
    /\ Len(docs) <= DocLimit
    /\ \A d \in DOMAIN docs : docs[d].suffix \in 1 .. SlugAttempts
    /\ \A v \in Visits : visit[v].at \in {"idle", "starting", "researching", "enrich", "enriching", "link"}
    /\ \A u \in Members : halves[u] \in 0 .. Halves

VisitAt(v, p) == visit[v].at = p
VisitTo(v, r) == visit' = [visit EXCEPT ![v] = r]
Answered(v) == VisitTo(v, NoVisit)
Shows(v, d, asked) == VisitTo(v, [NoVisit EXCEPT !.doc = asked, !.shown = d])
Pays(u, n) == halves[u] >= n /\ halves' = [halves EXCEPT ![u] = @ - n]
IsGivenBack(u, n) == halves' = [halves EXCEPT ![u] = @ + n]
OwnedBy(u) == {d \in DOMAIN docs : docs[d].owner = u}
-----------------------------------------------------------------------------
(* Research *)

\* start_research: the document of the last day, or a job and its credit, ...
StartResearch(v, u, c) ==
    /\ VisitAt(v, "idle")
    /\ LET recent == {d \in OwnedBy(u) : docs[d].company = c /\ docs[d].fresh}
       IN  \/ recent # {} /\ Answered(v) /\ UNCHANGED halves
           \/ /\ recent = {} /\ Pays(u, 2)
              /\ VisitTo(v, [NoVisit EXCEPT !.at = "starting", !.who = u, !.company = c, !.paid = 2])
    /\ UNCHANGED <<team, docs, empty, cutOff>>

\* ... then the item of the watchlist and the task.
SendResearch(v) ==
    /\ VisitAt(v, "starting")
    /\ VisitTo(v, [visit[v] EXCEPT !.at = "researching"])
    /\ UNCHANGED <<team, docs, halves, empty, cutOff>>

\* api_create_research: the whole pipeline in the request, whatever there is already.
CreateResearch(v, u, c) ==
    /\ VisitAt(v, "idle") /\ Pays(u, 2)
    /\ VisitTo(v, [NoVisit EXCEPT !.at = "researching", !.who = u, !.company = c, !.paid = 2])
    /\ UNCHANGED <<team, docs, empty, cutOff>>

\* save_document: the first suffix the user has not given to a document of the name.
FreeSuffixes(u, c) ==
    {n \in 1 .. SlugAttempts : \A d \in OwnedBy(u) : docs[d].company = c => docs[d].suffix # n}

SaveDocument(v) ==
    LET u == visit[v].who
        free == FreeSuffixes(u, visit[v].company)
    IN  /\ VisitAt(v, "researching") /\ Len(docs) < DocLimit
        /\ \E n \in free :
            /\ \A m \in free : n <= m
            /\ docs' = Append(docs, [owner |-> u, company |-> visit[v].company, suffix |-> n,
                                     fresh |-> TRUE, contacts |-> 0])
        /\ Answered(v)
        /\ UNCHANGED <<team, halves, empty, cutOff>>

\* Any exception, the one for want of a slug among them.
ResearchFails(v) ==
    /\ VisitAt(v, "researching")
    /\ IsGivenBack(visit[v].who, 2)
    /\ Answered(v)
    /\ UNCHANGED <<team, docs, empty, cutOff>>

DocumentAges(d) ==
    /\ docs[d].fresh
    /\ docs' = [docs EXCEPT ![d].fresh = FALSE]
    /\ UNCHANGED <<team, visit, halves, empty, cutOff>>
-----------------------------------------------------------------------------
(* Contacts *)

\* enrich_document_contacts: what is stored is shown ...
AskContacts(v, u, d) ==
    /\ VisitAt(v, "idle") /\ docs[d].owner = u
    /\ IF docs[d].contacts > 0 THEN Answered(v)
       ELSE VisitTo(v, [NoVisit EXCEPT !.at = "enrich", !.who = u, !.doc = d])
    /\ UNCHANGED <<team, docs, halves, empty, cutOff>>

\* ... otherwise half a credit is reserved, also by a second request that found nothing stored.
PayContacts(v) ==
    /\ VisitAt(v, "enrich")
    /\ \/ /\ Pays(visit[v].who, 1)
          /\ VisitTo(v, [visit[v] EXCEPT !.at = "enriching", !.paid = 1])
       \/ halves[visit[v].who] = 0 /\ Answered(v) /\ UNCHANGED halves
    /\ UNCHANGED <<team, docs, empty, cutOff>>

\* No contact is an answer that is paid for; save_enriched_contacts adds to what is stored.
ContactsArrive(v) ==
    /\ VisitAt(v, "enriching")
    /\ \/ empty' = empty + 1 /\ UNCHANGED docs
       \/ docs' = [docs EXCEPT ![visit[v].doc].contacts = @ + 1] /\ UNCHANGED empty
    /\ Answered(v)
    /\ UNCHANGED <<team, halves, cutOff>>

ContactsFail(v) ==
    /\ VisitAt(v, "enriching")
    /\ IsGivenBack(visit[v].who, 1)
    /\ Answered(v)
    /\ UNCHANGED <<team, docs, empty, cutOff>>

\* The process dies, the handler is cancelled, which its except clause does not catch, or one
\* of the statements of start_research fails, where there is no except clause: what was paid is
\* kept.
CutOff(v) ==
    /\ visit[v].paid > 0 /\ cutOff.times < PageFaults
    /\ cutOff' = [halves |-> cutOff.halves + visit[v].paid, times |-> cutOff.times + 1]
    /\ Answered(v)
    /\ UNCHANGED <<team, docs, halves, empty>>
-----------------------------------------------------------------------------
(* Pages *)

\* view_document: the owner is sent to the link, another user needs the share token.
ViewByNumber(v, u, d, token) ==
    /\ VisitAt(v, "idle")
    /\ \/ docs[d].owner = u /\ VisitTo(v, [NoVisit EXCEPT !.at = "link", !.who = u, !.doc = d])
       \/ docs[d].owner # u /\ token = d /\ Answered(v)
    /\ UNCHANGED <<team, docs, halves, empty, cutOff>>

\* get_document_meta_by_slug, get_document_by_slug: one of the documents of the organization
\* with the slug, whichever member's.
Linked(d) == {e \in DOMAIN docs : /\ team[docs[e].owner] = team[docs[d].owner]
                                  /\ docs[e].company = docs[d].company
                                  /\ docs[e].suffix = docs[d].suffix}

\* view_document_by_slug
FollowLink(v) ==
    /\ VisitAt(v, "link")
    /\ \E e \in Linked(visit[v].doc) : Shows(v, e, visit[v].doc)
    /\ UNCHANGED <<team, docs, halves, empty, cutOff>>

OpenLink(v, u, d) ==
    /\ VisitAt(v, "idle")
    /\ VisitTo(v, [NoVisit EXCEPT !.at = "link", !.who = u, !.doc = d])
    /\ UNCHANGED <<team, docs, halves, empty, cutOff>>

PagesNext ==
    \/ \E v \in Visits :
        \/ SendResearch(v) \/ SaveDocument(v) \/ ResearchFails(v)
        \/ PayContacts(v) \/ ContactsArrive(v) \/ ContactsFail(v) \/ CutOff(v) \/ FollowLink(v)
        \/ \E u \in Members, c \in Companies : StartResearch(v, u, c) \/ CreateResearch(v, u, c)
        \/ \E u \in Members, d \in DOMAIN docs :
            \/ AskContacts(v, u, d) \/ OpenLink(v, u, d)
            \/ \E token \in {0, d} : ViewByNumber(v, u, d, token)
    \/ \E d \in DOMAIN docs : DocumentAges(d)

PagesSpec == PagesInit /\ [][PagesNext]_pagesVars
-----------------------------------------------------------------------------
(* Every half that was paid is in a document, in contacts, in a search     *)
(* that found none, in a request under way or in one that was cut off,     *)
(* between the charge and the task of start_research too: no except branch *)
(* keeps money and none gives it back twice, though a document may fail    *)
(* for want of a slug as late as when it is stored                         *)
(* (api_create_research, enrich_document_contacts, save_document).         *)
MoneyIsExplained ==
    Cardinality(Members) * Halves =
        SumFunction(halves)
        + SumFunction([d \in DOMAIN docs |-> 2 + docs[d].contacts])
        + SumFunction([v \in Visits |-> visit[v].paid])
        + empty + cutOff.halves

(* Among the documents of one user a link opens the one it was made for    *)
(* (view_document redirects to a slug, save_document keeps slugs apart     *)
(* within a user); a colleague's document of the same name it may open.    *)
LinkOpensItsDocument ==
    \A v \in Visits :
        visit[v].shown # 0 /\ docs[visit[v].shown].owner = docs[visit[v].doc].owner
        => visit[v].shown = visit[v].doc
=============================================================================
