------------------------------ MODULE Websites ------------------------------
(***************************************************************************)
(* The websites, their subdomains, domains and redirects, pkg/services/    *)
(* websites, and what a visitor gets from them, pkg/services/site.         *)
(*                                                                         *)
(* A website is served at its subdomain, which its slug names, and at its  *)
(* domains; one of these is its primary domain, and the others redirect to *)
(* it.  Requests of the staff read the row of the website, without a lock, *)
(* and write all of it back.                                               *)
(*                                                                         *)
(* A slug stands for its subdomain.  Left out: who may do what; the limits *)
(* of a plan; the texts and colors of a website; the content that is made  *)
(* with it; which redirect counts when a path has several patterns.        *)
(***************************************************************************)
EXTENDS FiniteSets, SavedRedirects

CONSTANTS
    WebsiteIDs,   \* the websites that may be made
    Slugs,        \* their slugs, or subdomains
    Hostnames,    \* the names of domains
    DomainIDs,    \* the rows of domains that may be made
    RedirectIDs,  \* the rows of redirects that may be made
    Staff,        \* requests of the staff that may run at a time
    NoWebsite, NoDomain, NoSlug, NoDestination

ASSUME WebsitesAssumption ==
    /\ Slugs \cap Hostnames = {} /\ NoSlug \notin Slugs
    /\ NoWebsite \notin WebsiteIDs /\ NoDomain \notin DomainIDs
    /\ IsFiniteSet(RedirectIDs)

VARIABLES
    website,      \* website[w]: its row
    domain,       \* domain[d]: its row
    redirect,     \* redirect[r]: its row
    doing,        \* doing[x]: what the request x is going to write
    edits,        \* edits[x]: the website it works on
    copied,       \* copied[x]: the row of the website, as it will be
    named,        \* named[x]: the domain it adds, removes or makes primary
    changes,      \* changes[x]: the redirects it makes and the ones it removes
    outdated,     \* requests that read what was changed since
    disturbed,    \* websites that such a request wrote, or the domain of another
    wanted,       \* wanted[w]: the redirects saved last,
    original          \* original[w]: and where each of them was to lead when it was made

tableVars == <<website, domain, redirect>>
staffVars == <<doing, edits, copied, named, changes>>
historyVars == <<outdated, disturbed, wanted, original>>
websitesVars == <<tableVars, staffVars, historyVars>>

Website == [state : {"new", "live", "deleted"}, slug : Slugs \cup {NoSlug},
            primary : Slugs \cup Hostnames \cup {NoSlug}, blocked : BOOLEAN, icon : BOOLEAN]
Domain == [state : {"new", "live", "deleted"}, host : Hostnames,
           site : WebsiteIDs \cup {NoWebsite}, tls : BOOLEAN]
Redirect == [state : {"new", "live", "deleted"}, site : WebsiteIDs \cup {NoWebsite},
             pattern : Patterns, to : Destinations \cup {NoDestination}]
Changes == [create : SUBSET Patterns, remove : SUBSET RedirectIDs, want : Lists]

NewWebsite == [state |-> "new", slug |-> NoSlug, primary |-> NoSlug,
               blocked |-> FALSE, icon |-> FALSE]
NoChanges == [create |-> {}, remove |-> {}, want |-> NoRedirects]

LiveWebsites == {w \in WebsiteIDs : website[w].state = "live"}
LiveDomains == {d \in DomainIDs : domain[d].state = "live"}
LiveRedirects(w) == {r \in RedirectIDs : redirect[r].state = "live" /\ redirect[r].site = w}

WebsitesInit ==
    /\ website = [w \in WebsiteIDs |-> NewWebsite]
    /\ domain \in [DomainIDs -> {d \in Domain : d.state = "new" /\ d.site = NoWebsite /\ ~d.tls}]
    /\ redirect \in [RedirectIDs ->
          {r \in Redirect : r.state = "new" /\ r.site = NoWebsite /\ r.to = NoDestination}]
    /\ doing = [x \in Staff |-> "nothing"]
    /\ edits = [x \in Staff |-> NoWebsite]
    /\ copied = [x \in Staff |-> NewWebsite]
    /\ named = [x \in Staff |-> NoDomain]
    /\ changes = [x \in Staff |-> NoChanges]
    /\ outdated = {} /\ disturbed = {}
    /\ wanted = [w \in WebsiteIDs |-> NoRedirects] /\ original = wanted

-----------------------------------------------------------------------------
(* What is served.                                                         *)

FindWebsiteByDomain(host) ==
    {w \in LiveWebsites :
        \/ host \in Slugs /\ website[w].slug = host
        \/ \E d \in LiveDomains : domain[d].host = host /\ domain[d].site = w}

\* A visitor's request for a host: the website is not found, or its primary
\* domain is to be asked, or a redirect or the content is the answer.
ServeContent(host) ==
    {IF website[w].blocked THEN "not found"
     ELSE IF host # website[w].primary THEN website[w].primary ELSE w :
         w \in FindWebsiteByDomain(host)}

-----------------------------------------------------------------------------
(* The requests of the staff: what they read and decide,                   *)

Begin(x, what, w, row, d, c) ==
    /\ doing[x] = "nothing"
    /\ doing' = [doing EXCEPT ![x] = what]
    /\ edits' = [edits EXCEPT ![x] = w]
    /\ copied' = [copied EXCEPT ![x] = row]
    /\ named' = [named EXCEPT ![x] = d]
    /\ changes' = [changes EXCEPT ![x] = c]
    /\ UNCHANGED <<tableVars, historyVars>>

\* The row as it will be; a primary domain that is the subdomain stays so.
UpdatedRow(w, slug, blocked) ==
    [website[w] EXCEPT
         !.blocked = blocked,
         !.slug = IF slug = NoSlug THEN @ ELSE slug,
         !.primary = IF slug # NoSlug /\ @ \in Slugs THEN slug ELSE @]

\* With another slug, the one it has, or NoSlug: none in the request.
UpdateWebsite(x, w, slug, blocked) ==
    /\ w \in LiveWebsites
    /\ \A v \in LiveWebsites \ {w} : website[v].slug # slug
    /\ Begin(x, "update", w, UpdatedRow(w, slug, blocked), NoDomain, NoChanges)

AddDomain(x, w, d, primary) ==
    /\ w \in LiveWebsites /\ domain[d].state = "new"
    /\ FindWebsiteByDomain(domain[d].host) = {}
    /\ Begin(x, IF primary THEN "add primary" ELSE "add", w,
             [website[w] EXCEPT !.primary = IF primary THEN domain[d].host ELSE @],
             d, NoChanges)

\* The domain may be that of another website.
SetDomainAsPrimary(x, w, d) ==
    /\ w \in LiveWebsites /\ d \in LiveDomains
    /\ Begin(x, "update", w, [website[w] EXCEPT !.primary = domain[d].host], d, NoChanges)

SetSubdomainAsPrimary(x, w) ==
    /\ w \in LiveWebsites
    /\ Begin(x, "update", w, [website[w] EXCEPT !.primary = website[w].slug],
             NoDomain, NoChanges)

\* Fault: the website keeps its primary domain.
RemoveDomainOnly(x, d) ==
    /\ d \in LiveDomains
    /\ Begin(x, "remove", domain[d].site, website[domain[d].site], d, NoChanges)

RemoveDomain(x, d) ==
    LET w == domain[d].site
    IN  /\ d \in LiveDomains
        /\ IF website[w].primary = domain[d].host
           THEN Begin(x, "remove primary", w,
                      [website[w] EXCEPT !.primary = website[w].slug], d, NoChanges)
           ELSE Begin(x, "remove", w, website[w], d, NoChanges)

\* Fault: the redirects that are no longer wanted stay.
DiffRedirectsRemovingNone(existing, list) ==
    [create |-> DOMAIN list \ {redirect[r].pattern : r \in existing},
     remove |-> {}, want |-> list]

\* Only the patterns are compared.
DiffRedirects(existing, list) ==
    [create |-> DOMAIN list \ {redirect[r].pattern : r \in existing},
     remove |-> {r \in existing : redirect[r].pattern \notin DOMAIN list},
     want |-> list]

SaveRedirects(x, w, list) ==
    /\ w \in LiveWebsites
    /\ Begin(x, "redirect", w, website[w], NoDomain, DiffRedirects(LiveRedirects(w), list))

\* The icons are stored before.
UpdateWebsiteIcon(x, w) ==
    /\ w \in LiveWebsites
    /\ Begin(x, "icon", w, website[w], NoDomain, NoChanges)

-----------------------------------------------------------------------------
(* and what they write, in a transaction.                                  *)

\* The request is over.  What the others read of the website is outdated.
Finish(x, sites) ==
    /\ doing' = [doing EXCEPT ![x] = "nothing"]
    /\ edits' = [edits EXCEPT ![x] = NoWebsite]
    /\ copied' = [copied EXCEPT ![x] = NewWebsite]
    /\ named' = [named EXCEPT ![x] = NoDomain]
    /\ changes' = [changes EXCEPT ![x] = NoChanges]
    /\ outdated' = (outdated \cup {y \in Staff : edits[y] \in sites}) \ {x}

\* An update of a website that is gone changes nothing; another website with
\* its slug makes it fail.
WriteWebsite(w, row) ==
    /\ \A v \in LiveWebsites \ {w} : website[v].slug # row.slug
    /\ website' = IF w \in LiveWebsites THEN [website EXCEPT ![w] = row] ELSE website

Disturb(x, w) ==
    disturbed' = IF x \in outdated THEN disturbed \cup {w} ELSE disturbed

CommitUpdate(x) ==
    LET w == edits[x]
        d == named[x]
    IN  /\ doing[x] = "update"
        /\ WriteWebsite(w, copied[x])
        /\ Finish(x, {w})
        /\ disturbed' = IF x \in outdated \/ (d # NoDomain /\ domain[d].site # w)
                        THEN disturbed \cup {w} ELSE disturbed
        /\ UNCHANGED <<domain, redirect, wanted, original>>

\* The name must not be taken meanwhile, and the website must be there.
CommitAddDomain(x) ==
    LET w == edits[x]
        d == named[x]
    IN  /\ doing[x] \in {"add", "add primary"}
        /\ w \in LiveWebsites /\ domain[d].state = "new"
        /\ \A e \in LiveDomains : domain[e].host # domain[d].host
        /\ domain' = [domain EXCEPT ![d].state = "live", ![d].site = w]
        /\ IF doing[x] = "add primary"
           THEN WriteWebsite(w, copied[x]) /\ Disturb(x, w)
           ELSE UNCHANGED <<website, disturbed>>
        /\ Finish(x, IF doing[x] = "add primary" THEN {w} ELSE {})
        /\ UNCHANGED <<redirect, wanted, original>>

\* The row of the domain is deleted; other websites may have it as primary.
CommitRemoveDomain(x) ==
    LET w == edits[x]
        d == named[x]
    IN  /\ doing[x] \in {"remove", "remove primary"}
        /\ domain' = [domain EXCEPT ![d].state = "deleted"]
        /\ IF doing[x] = "remove primary"
           THEN WriteWebsite(w, copied[x]) ELSE UNCHANGED website
        /\ Disturb(x, w)
        /\ Finish(x, WebsiteIDs)
        /\ UNCHANGED <<redirect, wanted, original>>

\* Rows that are gone are not deleted again; those that stay are not updated.
CommitRedirects(x) ==
    LET w == edits[x]
        c == changes[x]
    IN  /\ doing[x] = "redirect" /\ w \in LiveWebsites
        /\ \E new \in SUBSET {r \in RedirectIDs : redirect[r].state = "new"} :
             /\ Cardinality(new) = Cardinality(c.create)
             /\ {redirect[r].pattern : r \in new} = c.create
             /\ redirect' = [r \in RedirectIDs |->
                    IF r \in new
                    THEN [redirect[r] EXCEPT !.state = "live", !.site = w,
                                             !.to = c.want[redirect[r].pattern]]
                    ELSE IF r \in c.remove THEN [redirect[r] EXCEPT !.state = "deleted"]
                    ELSE redirect[r]]
        /\ wanted' = [wanted EXCEPT ![w] = c.want]
        /\ original' = [original EXCEPT ![w] = Saved(c.want, original[w])]
        /\ Disturb(x, w)
        /\ Finish(x, {w})
        /\ UNCHANGED <<website, domain>>

\* This one reads the row again, and locks it.
CommitIcon(x) ==
    /\ doing[x] = "icon" /\ edits[x] \in LiveWebsites
    /\ website' = [website EXCEPT ![edits[x]].icon = TRUE]
    /\ Finish(x, {edits[x]})
    /\ UNCHANGED <<domain, redirect, disturbed, wanted, original>>

\* A request fails, or its server.
FailRequest(x) ==
    /\ doing[x] # "nothing"
    /\ Finish(x, {})
    /\ UNCHANGED <<tableVars, disturbed, wanted, original>>

\* The website is made with its subdomain as primary domain.
CreateWebsite(w, slug) ==
    /\ website[w].state = "new"
    /\ \A v \in LiveWebsites : website[v].slug # slug
    /\ website' = [website EXCEPT ![w] = [NewWebsite EXCEPT !.state = "live", !.slug = slug,
                                                            !.primary = slug]]
    /\ UNCHANGED <<domain, redirect, staffVars, historyVars>>

\* Its domains and redirects are deleted with it.
DeleteWebsite(w) ==
    /\ w \in LiveWebsites
    /\ website' = [website EXCEPT ![w].state = "deleted"]
    /\ domain' = [d \in DomainIDs |-> IF d \in LiveDomains /\ domain[d].site = w
                                      THEN [domain[d] EXCEPT !.state = "deleted"] ELSE domain[d]]
    /\ redirect' = [r \in RedirectIDs |-> IF r \in LiveRedirects(w)
                                          THEN [redirect[r] EXCEPT !.state = "deleted"]
                                          ELSE redirect[r]]
    /\ outdated' = outdated \cup {x \in Staff : doing[x] # "nothing"}
    /\ UNCHANGED <<staffVars, disturbed, wanted, original>>

\* The domain is read before; of its row, only this is written.
CheckTlsCertificateForDomain(d) ==
    /\ d \in LiveDomains /\ ~domain[d].tls
    /\ domain' = [domain EXCEPT ![d].tls = TRUE]
    /\ UNCHANGED <<website, redirect, staffVars, historyVars>>

-----------------------------------------------------------------------------

StaffStep(x) ==
    \/ \E w \in WebsiteIDs :
         \/ \E slug \in Slugs \cup {NoSlug}, blocked \in BOOLEAN :
              UpdateWebsite(x, w, slug, blocked)
         \/ \E d \in DomainIDs :
              SetDomainAsPrimary(x, w, d) \/ \E primary \in BOOLEAN : AddDomain(x, w, d, primary)
         \/ SetSubdomainAsPrimary(x, w) \/ UpdateWebsiteIcon(x, w)
         \/ \E list \in Lists : SaveRedirects(x, w, list)
    \/ \E d \in DomainIDs : RemoveDomain(x, d)
    \/ CommitUpdate(x) \/ CommitAddDomain(x) \/ CommitRemoveDomain(x)
    \/ CommitRedirects(x) \/ CommitIcon(x) \/ FailRequest(x)

WebsitesNext ==
    \/ \E x \in Staff : StaffStep(x)
    \/ \E w \in WebsiteIDs : DeleteWebsite(w) \/ \E slug \in Slugs : CreateWebsite(w, slug)
    \/ \E d \in DomainIDs : CheckTlsCertificateForDomain(d)

WebsitesSpec == WebsitesInit /\ [][WebsitesNext]_websitesVars

-----------------------------------------------------------------------------
(* Properties.                                                             *)

WebsitesTypeOK ==
    /\ website \in [WebsiteIDs -> Website]
    /\ domain \in [DomainIDs -> Domain] /\ redirect \in [RedirectIDs -> Redirect]
    /\ \A d \in LiveDomains : domain[d].site \in LiveWebsites
    /\ doing \in [Staff -> {"nothing", "update", "add", "add primary", "remove",
                            "remove primary", "redirect", "icon"}]
    /\ edits \in [Staff -> WebsiteIDs \cup {NoWebsite}]
    /\ copied \in [Staff -> Website]
    /\ named \in [Staff -> DomainIDs \cup {NoDomain}]
    /\ changes \in [Staff -> Changes]
    /\ outdated \subseteq Staff /\ disturbed \subseteq WebsiteIDs
    /\ wanted \in [WebsiteIDs -> Lists] /\ original \in [WebsiteIDs -> Lists]

\* A visitor who asks for a website at any of its hosts gets it, after one
\* redirection at most: its primary domain is its own, whatever is renamed,
\* added and removed, one request after the other.
WebsitesAreReachable ==
    \A w \in LiveWebsites \ disturbed : ~website[w].blocked =>
        \A host \in Slugs \cup Hostnames : w \in FindWebsiteByDomain(host) =>
            ServeContent(host) = {w} \/ \E h \in Slugs \cup Hostnames :
                ServeContent(host) = {h} /\ ServeContent(h) = {w}

\* A website has the patterns that were saved last, each of them once, and each
\* leads where it was to lead when it was made, for as long as every list has it.
RedirectsAreSaved ==
    \A w \in LiveWebsites \ disturbed :
        /\ {redirect[r].pattern : r \in LiveRedirects(w)} = DOMAIN wanted[w]
        /\ Cardinality(LiveRedirects(w)) = Cardinality(DOMAIN wanted[w])
        /\ \A r \in LiveRedirects(w) : redirect[r].to = original[w][redirect[r].pattern]

\* Where a visitor is led by the domains of a website is what its staff made of them
\* last, and so are the patterns that lead him elsewhere; where they lead is what the
\* staff made of each when it was new.
VisitorsAreLed == WebsitesAreReachable /\ RedirectsAreSaved

\* Each redirect leads where the list that was saved last has it lead.  No run checks
\* it, since it isn't so: a second list can't change where a pattern leads, although
\* mdninja logs "Redirects successfully updated" (cmd/mdninja/client/publish_website.go:67).
RedirectsAreUpdated ==
    \A w \in LiveWebsites \ disturbed : \A r \in LiveRedirects(w) :
        redirect[r].to = wanted[w][redirect[r].pattern]
=============================================================================
