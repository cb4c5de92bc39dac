------------------------------- MODULE Serving -------------------------------
(***************************************************************************)
(* What visitors of a website are served and the copies that are kept of   *)
(* it, pkg/services/site: in the caches of the servers, and under an ETag  *)
(* by browsers and proxies, which ask whether the ETag is still the one.   *)
(*                                                                         *)
(* The ETag of an answer is a hash of stamps, in seconds: the modified_at  *)
(* of the website, which every edit sets to the time at which it began,    *)
(* and for a page its updated_at, for the feed and the sitemap the time of *)
(* the last post.  A request reads the website, then what the ETag is made *)
(* of, and then, if it finds no copy, the rest; edits commit in between.   *)
(*                                                                         *)
(* An edition stands for the texts that an edit writes, and one copy for   *)
(* any: it is kept, found again and replaced as it pleases, for an address *)
(* that is any as well.  Left out:                                         *)
(* answers to signed in contacts, which no cache keeps; the country and    *)
(* the theme, which are in the ETag as well; assets, icons and files of a  *)
(* theme, whose ETag is a hash of the content or the path.                 *)
(***************************************************************************)
EXTENDS Naturals, Sequences

CONSTANTS
    SitePages,    \* the pages and posts of the website
    SitePosts,    \* the posts among them
    SiteEditors,  \* edits that may be under way at a time
    SiteDates,    \* dates of pages
    LastSecond,   \* bound: time, in seconds
    LastEdition,  \* bound: edits that are committed
    NoCopy, NoEdit, NoView

ASSUME ServingAssumption ==
    /\ SitePosts \subseteq SitePages /\ SiteDates \subseteq Nat
    /\ LastSecond \in Nat /\ LastEdition \in Nat

VARIABLES
    second,       \* the time
    edition,      \* edits committed
    row,          \* row[p]: of a page
    site,         \* the row of the website
    part,         \* the editions of a tag and of a snippet, 0 if there is none
    edit,         \* edit[x]: when it began, and the stamp that it read
    url,          \* the address that visitors ask for
    view,         \* the request of a visitor
    copy,         \* a copy that is kept
    stamps,       \* the seconds at which edits began that were committed
    twice,        \* those at which two did
    rewritten,    \* stamps that an added domain wrote again
    released      \* pages published by the job since the last edit

contentVars == <<edition, row, site, part>>
pastStamps  == <<stamps, twice, rewritten>>
servingVars == <<second, contentVars, edit, url, view, copy, pastStamps, released>>

Seconds  == 0 .. LastSecond
Editions == 0 .. LastEdition

\* A draft is hidden, as is a page that doesn't exist.
PageRow == [status : {"hidden", "scheduled", "published"}, date : {0} \cup SiteDates,
            updated : Seconds \cup SiteDates, text : Editions]
Hidden == [status |-> "hidden", date |-> 0, updated |-> 0, text |-> 0]
SiteRow == [modified : Seconds, settings : Editions]
PartNames == {"tags", "snippets"}

\* The list of posts is read as the feed.
Listings == {"feed", "sitemap", "pages", "tags", "robots"}
Urls == SitePages \cup Listings

Later(a, b) == IF a < b THEN b ELSE a
PublishedOf(P) == {p \in P : row[p].status = "published"}

\* FindLastPublishedPost and its ModifiedAt
LastModified ==
    LET posts == PublishedOf(SitePosts)
        p == CHOOSE q \in posts : \A r \in posts : row[r].date <= row[q].date
    IN  IF posts = {} THEN 0 ELSE Later(row[p].updated, row[p].date)

\* What the ETag is made of, for a request that read m as the modified_at.
EtagOf(u, m) ==
    IF u \in SitePages THEN <<m, row[u].updated>>
    ELSE IF u \in {"feed", "sitemap"} THEN <<Later(m, LastModified)>>
    ELSE <<m>>

\* What a request reads after the website, in this order.
ServePage      == <<"rows", "tags", "snippets">>
ServeFeed      == <<"etag", "rows">>
ServeSitemap   == <<"etag", "rows", "tags">>
ListPages      == <<"rows">>
ListTags       == <<"tags">>
ServeRobotsTxt == <<>>

Reads(u) ==
    CASE u \in SitePages -> ServePage
      [] u = "feed"      -> ServeFeed
      [] u = "sitemap"   -> ServeSitemap
      [] u = "pages"     -> ListPages
      [] u = "tags"      -> ListTags
      [] u = "robots"    -> ServeRobotsTxt

RowsFor(u) ==
    {<<p, row[p].text>> : p \in PublishedOf(IF u \in SitePages THEN {u}
                                            ELSE IF u = "feed" THEN SitePosts ELSE SitePages)}

NoContent == [rows |-> {}, tags |-> 0, snippets |-> 0]

\* What is read last is shown: convertPage, the feed, the sitemap and the lists.
WithRead(content, what, u) ==
    CASE what = "rows"   -> [content EXCEPT !.rows = RowsFor(u)]
      [] what \in PartNames -> [content EXCEPT ![what] = part[what]]
      [] OTHER           -> content

Reading(u) == {Reads(u)[i] : i \in 1 .. Len(Reads(u))}
Shown(u) ==
    [settings |-> site.settings,
     content  |-> [rows     |-> IF "rows" \in Reading(u) THEN RowsFor(u) ELSE {},
                   tags     |-> IF "tags" \in Reading(u) THEN part["tags"] ELSE 0,
                   snippets |-> IF "snippets" \in Reading(u) THEN part["snippets"] ELSE 0]]

ServingInit ==
    /\ second = 0 /\ edition = 0
    /\ row = [p \in SitePages |-> Hidden]
    /\ site = [modified |-> 0, settings |-> 0]
    /\ part = [k \in PartNames |-> 0]
    /\ edit = [x \in SiteEditors |-> NoEdit]
    /\ url \in Urls /\ view = NoView /\ copy = NoCopy
    /\ stamps = {0} /\ twice = {} /\ rewritten = {}
    /\ released = {}

SecondPasses ==
    /\ second < LastSecond /\ second' = second + 1
    /\ UNCHANGED <<contentVars, edit, url, view, copy, pastStamps, released>>

-----------------------------------------------------------------------------
(* Edits: the time is taken first, and stamps what is committed.           *)

\* AddDomain reads the row of the website as well, and writes it back.
BeginEdit(x) ==
    /\ edit[x] = NoEdit
    /\ edit' = [edit EXCEPT ![x] = [at |-> second, read |-> site.modified]]
    /\ UNCHANGED <<second, contentVars, url, view, copy, pastStamps, released>>

FailEdition(x) ==
    /\ edit[x] # NoEdit
    /\ edit' = [edit EXCEPT ![x] = NoEdit]
    /\ UNCHANGED <<second, contentVars, url, view, copy, pastStamps, released>>

\* x is over, and its texts are the next edition.
Ends(x) ==
    /\ edit[x] # NoEdit
    /\ edition < LastEdition /\ edition' = edition + 1
    /\ edit' = [edit EXCEPT ![x] = NoEdit]
    /\ UNCHANGED <<second, url, view, copy>>

\* UpdateWebsiteModifiedAt, in the transaction of the edit.
Stamped(at) ==
    /\ stamps' = stamps \cup {at}
    /\ twice' = IF at \in stamps THEN twice \cup {at} ELSE twice
    /\ released' = {}
    /\ UNCHANGED rewritten

\* The page is made, changed, hidden or deleted.  Its updated_at is the one that
\* is asked for, which for the command line client is the date.
CommitPage(x, p, shown, date, dated) ==
    /\ Ends(x)
    /\ row' = [row EXCEPT ![p] =
                 IF shown THEN [status |-> IF date > edit[x].at THEN "scheduled" ELSE "published",
                                date |-> date, text |-> edition + 1,
                                updated |-> IF dated THEN date ELSE edit[x].at]
                 ELSE Hidden]
    /\ site' = [site EXCEPT !.modified = edit[x].at]
    /\ Stamped(edit[x].at) /\ UNCHANGED part

\* Fault: the website isn't stamped.
CommitPartOnly(x, k, text) ==
    /\ Ends(x)
    /\ part' = [part EXCEPT ![k] = text]
    /\ UNCHANGED <<row, site, pastStamps, released>>

CommitPart(x, k, text) ==
    /\ Ends(x)
    /\ part' = [part EXCEPT ![k] = text]
    /\ site' = [site EXCEPT !.modified = edit[x].at]
    /\ Stamped(edit[x].at) /\ UNCHANGED row

\* The names are unique, and the row is found by its ID.
CreateTag(x)     == part["tags"] = 0     /\ CommitPart(x, "tags", edition + 1)
UpdateTag(x)     == part["tags"] # 0     /\ CommitPart(x, "tags", edition + 1)
DeleteTag(x)     == part["tags"] # 0     /\ CommitPart(x, "tags", 0)
CreateSnippet(x) == part["snippets"] = 0 /\ CommitPart(x, "snippets", edition + 1)
UpdateSnippet(x) == part["snippets"] # 0 /\ CommitPart(x, "snippets", edition + 1)
DeleteSnippet(x) == part["snippets"] # 0 /\ CommitPart(x, "snippets", 0)

\* UpdateWebsite, SetDomainAsPrimary and RemoveDomain write the whole row.
CommitWebsite(x) ==
    /\ Ends(x)
    /\ site' = [modified |-> edit[x].at, settings |-> edition + 1]
    /\ Stamped(edit[x].at) /\ UNCHANGED <<row, part>>

\* AddDomain writes the whole row as well, but for the primary domain as it was:
\* the stamp that was read is written back.
CommitDomain(x) ==
    /\ Ends(x)
    /\ site' = [modified |-> edit[x].read, settings |-> edition + 1]
    /\ rewritten' = rewritten \cup {edit[x].read}
    /\ UNCHANGED <<row, part, stamps, twice, released>>

\* The pages whose date has come are published: neither they nor the website
\* are stamped.
JobReleasesPages ==
    LET due == {p \in SitePages : row[p].status = "scheduled" /\ row[p].date <= second}
    IN  /\ due # {}
        /\ row' = [p \in SitePages |-> IF p \in due THEN [row[p] EXCEPT !.status = "published"]
                                       ELSE row[p]]
        /\ released' = released \cup due
        /\ UNCHANGED <<second, edition, site, part, edit, url, view, copy, pastStamps>>

-----------------------------------------------------------------------------
(* Requests of visitors.                                                   *)

\* The website is found, not blocked, and asked for at its primary domain; a list
\* of pages, the tags and robots.txt need no more for their ETag.
FindSite ==
    /\ view = NoView
    /\ view' = [modified |-> site.modified, settings |-> site.settings,
                etag |-> IF url \in {"pages", "tags", "robots"} THEN EtagOf(url, site.modified) ELSE <<>>,
                todo |-> Reads(url), content |-> NoContent]
    /\ UNCHANGED <<second, contentVars, edit, url, copy, pastStamps, released>>

\* The next read, and with the first one the ETag of a page, the feed or the
\* sitemap.  A page that isn't published is not found.
Read ==
    /\ view # NoView /\ view.todo # <<>>
    /\ view' = IF url \in SitePages \ PublishedOf(SitePages) /\ view.etag = <<>> THEN NoView
               ELSE [view EXCEPT
                        !.etag = IF @ = <<>> THEN EtagOf(url, view.modified) ELSE @,
                        !.content = WithRead(@, Head(view.todo), url),
                        !.todo = Tail(@)]
    /\ UNCHANGED <<second, contentVars, edit, url, copy, pastStamps, released>>

\* The copy is found under the ETag, or the request fails.
EndView ==
    /\ view # NoView /\ view' = NoView
    /\ UNCHANGED <<second, contentVars, edit, url, copy, pastStamps, released>>

\* What was read is rendered, served and kept.
Render ==
    /\ view # NoView /\ view.todo = <<>>
    /\ copy' = [modified |-> view.modified, etag |-> view.etag,
                shows |-> [settings |-> view.settings, content |-> view.content]]
    /\ view' = NoView
    /\ UNCHANGED <<second, contentVars, edit, url, pastStamps, released>>

ServingNext ==
    \/ SecondPasses \/ JobReleasesPages
    \/ \E x \in SiteEditors :
         \/ BeginEdit(x) \/ FailEdition(x)
         \/ \E p \in SitePages, shown \in BOOLEAN, date \in SiteDates, dated \in BOOLEAN :
               CommitPage(x, p, shown, date, dated)
         \/ CreateTag(x) \/ UpdateTag(x) \/ DeleteTag(x)
         \/ CreateSnippet(x) \/ UpdateSnippet(x) \/ DeleteSnippet(x)
         \/ CommitWebsite(x) \/ CommitDomain(x)
    \/ FindSite \/ Read \/ EndView \/ Render

ServingSpec == ServingInit /\ [][ServingNext]_servingVars

-----------------------------------------------------------------------------
(* Properties.                                                             *)

ServingTypeOK ==
    /\ second \in Seconds /\ edition \in Editions
    /\ row \in [SitePages -> PageRow] /\ site \in SiteRow
    /\ part \in [PartNames -> Editions]
    /\ \A x \in SiteEditors : edit[x] = NoEdit \/ edit[x] \in [at : Seconds, read : Seconds]
    /\ url \in Urls
    /\ view = NoView \/ view.modified \in Seconds
    /\ copy = NoCopy \/ copy.modified \in Seconds
    /\ stamps \cup twice \cup rewritten \subseteq Seconds
    /\ released \subseteq SitePages

\* A copy whose ETag is the one of today shows what is there today, whatever was
\* edited while it was made: but edits of one second share a stamp, a new primary
\* domain leaves the old one, and what a list may lack is what the job published
\* since the last edit.  Nothing is said of a feed or sitemap whose ETag is the
\* time of a post: it may outlive an edit, whether it began before or after.
CopiesAreCurrent ==
    \/ copy = NoCopy
    \/ url \in SitePages /\ row[url].status # "published"
    \/ copy.etag # EtagOf(url, site.modified)
    \/ copy.etag[1] \in twice \cup rewritten
    \/ copy.etag[1] \notin {copy.modified} \cap {site.modified}
    \/ LET shown == Shown(url)
           old == copy.shows.content.rows
       IN  /\ copy.shows = [shown EXCEPT !.content.rows = old]
           /\ old \subseteq shown.content.rows
           /\ \A r \in shown.content.rows \ old : r[1] \in released
=============================================================================
