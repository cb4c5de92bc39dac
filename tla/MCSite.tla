------------------------------- MODULE MCSite -------------------------------
(***************************************************************************)
(* Instances of Pages, Assets, Websites, Redirects and Client for TLC: a   *)
(* run checks the components of a site, and the client that publishes one, *)
(* one after the other, and each in small instances, of which the initial  *)
(* state chooses one.                                                      *)
(***************************************************************************)
EXTENDS Pages, Assets, Websites, Redirects, Client, TLC

CONSTANTS x1, x2, w1, w2, s2, q1, q2, q3, r1, r2, r3

\* Two folders and a file, each in the one before.
MCAbove == q1 :> {} @@ q2 :> {q1} @@ q3 :> {q1, q2}

MCFolderOf == [a \in AssetPaths |-> IF a = "folder/file" THEN "folder" ELSE NoFile]

\* Of the words one is the beginning of another.
MCWords == {<<"a">>, <<"b">>, <<"a", "b">>}

VARIABLE instance

PagesInstances    == {"posts", "tags"}
WebsitesInstances == {"a website", "two websites", "redirects"}
ClientInstances   == {"files", "local pages", "settings"}

\* The posts are edited by two requests at a time, the tags by one, together
\* with pages that are published at once.
PagesWithin ==
    CASE instance = "posts" -> tag' = tag /\ \A x \in Editors : draft'[x].hash = {}
      [] instance = "tags"  -> /\ step'[x2] = "idle" /\ ~publishing'
                               /\ \A p \in PageIDs : ~page'[p].flag /\ page'[p].status # "scheduled"
                               /\ \A x \in Editors : ~draft'[x].flag /\ draft'[x].status # "scheduled"

\* Rows of redirects, which are all alike, are made in this order.
InOrder ==
    /\ redirect'[r2].state # "new" => redirect'[r1].state # "new"
    /\ redirect'[r3].state # "new" => redirect'[r2].state # "new"

WebsitesWithin ==
    CASE instance = "a website" ->
            /\ website'[w2].state = "new" /\ redirect' = redirect
            /\ \A x \in Staff : doing'[x] \notin {"redirect", "icon"} /\ ~copied'[x].blocked
      [] instance = "two websites" ->
            /\ doing'[x2] = "nothing" /\ redirect' = redirect
            /\ doing'[x1] \notin {"redirect", "icon"} /\ \A d \in DomainIDs : ~domain'[d].tls
      [] instance = "redirects" ->
            /\ website'[w2].state = "new" /\ website'[w1].slug # s2 /\ domain' = domain /\ InOrder
            /\ doing'[x1] \in {"nothing", "redirect", "icon"}
            /\ doing'[x2] \in {"nothing", "redirect"}

\* The files of other kinds stay as they are.
Only(kind) == \A f \in DiskFiles \ kind : disk'[f] = disk[f] /\ remote'[f] = remote[f]
NothingIsGiven == UNCHANGED settings /\ (IF upload' = NoUpload THEN TRUE ELSE upload'.given = {})

ClientWithin ==
    CASE instance = "files" -> NothingIsGiven /\ Only(AssetPaths \cup SnippetNames)
      [] instance = "local pages" ->
            /\ NothingIsGiven /\ Only(PageUrls) /\ touches' <= 2
            /\ \A p \in On(disk', PageUrls) : disk'[p].type # "page"
      [] instance = "settings" -> Only({}) /\ touches' <= 2

MCInit ==
    /\ instance \in PagesInstances \cup {"assets"} \cup WebsitesInstances \cup {"patterns"}
                    \cup ClientInstances
    /\ PagesInit /\ (instance # "tags" => \A t \in TagNames : tag[t] = "new")
    /\ AssetsInit /\ (instance # "assets" => \A a \in AssetIDs : path[a] = q1)
    /\ WebsitesInit /\ ClientInit
    /\ RedirectsInit /\ (instance # "patterns" => asked = <<<<>>>> /\ rule = <<<<>>>>)

MCNext ==
    /\ UNCHANGED instance
    /\ \/ instance \in PagesInstances /\ PagesNext /\ PagesWithin
          /\ UNCHANGED <<assetsVars, websitesVars, redirectsVars, clientVars>>
       \/ instance = "assets" /\ AssetsNext
          /\ UNCHANGED <<pagesVars, websitesVars, redirectsVars, clientVars>>
       \/ instance \in WebsitesInstances /\ WebsitesNext /\ WebsitesWithin
          /\ UNCHANGED <<pagesVars, assetsVars, redirectsVars, clientVars>>
       \/ instance = "patterns" /\ RedirectsNext
          /\ UNCHANGED <<pagesVars, assetsVars, websitesVars, clientVars>>
       \/ instance \in ClientInstances /\ ClientNext /\ ClientWithin
          /\ UNCHANGED <<pagesVars, assetsVars, websitesVars, redirectsVars>>

MCSpec ==
    /\ MCInit
    /\ [][MCNext]_<<pagesVars, assetsVars, websitesVars, redirectsVars, clientVars, instance>>
    /\ PagesFairness

SiteTypeOK == PagesTypeOK /\ AssetsTypeOK /\ WebsitesTypeOK /\ RedirectsTypeOK /\ ClientTypeOK

\* A visitor reaches a website at any of its hosts as its staff left them last.  The
\* website has the patterns that were saved last, each leads where it was to lead when
\* it was new, and a path is led on by a pattern as the pattern means.
VisitorsArrive == VisitorsAreLed /\ RedirectsAreMeant
=============================================================================
