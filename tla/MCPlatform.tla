----------------------------- MODULE MCPlatform -----------------------------
(***************************************************************************)
(* Instances of Servers, EventsBuffer, Serving, Downloads and Catalogue    *)
(* for TLC: a run checks one after the other; of the downloads, two of     *)
(* whole files and then one of any range, and of the catalogue the pages   *)
(* of one product and then the coupons for two.                            *)
(***************************************************************************)
EXTENDS Servers, EventsBuffer, Serving, Downloads, Catalogue, TLC

VARIABLE instance

Symmetry == Permutations(ServerIDs)

First(S) == CHOOSE x \in S : TRUE

WholeFiles ==
    /\ \A x \in Downloads : download'[x] = NoDownload
                            \/ (download'[x].range = NoRange /\ ~download'[x].contact)
    /\ \A f \in FileIDs : file'[f].state = "new"
                          \/ (~file'[f].product /\ SizeOf(file'[f].content) > 0)

AnyRange ==
    /\ Cardinality({x \in Downloads : download'[x] # NoDownload}) <= 1
    /\ \A f \in FileIDs \ {First(FileIDs)} : file'[f].state = "new"

MCInit ==
    /\ ServersInit /\ EventsInit /\ ServingInit /\ DownloadsInit /\ CatalogueInit
    /\ instance \in {"servers", "events", "serving", "files", "ranges", "pages", "coupons"}
    /\ instance = "serving" \/ url = "feed"

Servers_   == ServersNext /\ UNCHANGED <<eventsVars, servingVars, downloadsVars, catalogueVars>>
Events_    == EventsNext /\ UNCHANGED <<serversVars, servingVars, downloadsVars, catalogueVars>>
Serving_   == ServingNext /\ UNCHANGED <<serversVars, eventsVars, downloadsVars, catalogueVars>>
Downloads_ == DownloadsNext /\ UNCHANGED <<serversVars, eventsVars, servingVars, catalogueVars>>
Pages_     == /\ ProductsNext \/ ProductPagesNext
              /\ \A p \in ProductIDs : product'[p] = "none" \/ p = First(ProductIDs)
              /\ UNCHANGED <<serversVars, eventsVars, servingVars, downloadsVars>>
Coupons_   == /\ ProductsNext \/ SalesNext \/ CouponsNext
              /\ UNCHANGED <<serversVars, eventsVars, servingVars, downloadsVars>>

MCNext ==
    /\ UNCHANGED instance
    /\ \/ instance = "servers" /\ Servers_
       \/ instance = "events" /\ Events_
       \/ instance = "serving" /\ Serving_
       \/ instance = "files" /\ Downloads_ /\ WholeFiles
       \/ instance = "ranges" /\ Downloads_ /\ AnyRange
       \/ instance = "pages" /\ Pages_
       \/ instance = "coupons" /\ Coupons_

MCSpec ==
    MCInit /\ [][MCNext]_<<serversVars, eventsVars, servingVars, downloadsVars, catalogueVars,
                           instance>>

PlatformTypeOK ==
    ServersTypeOK /\ EventsTypeOK /\ ServingTypeOK /\ DownloadsTypeOK /\ CatalogueTypeOK

\* What visitors are answered is what the website has: pages and lists, read again
\* or kept under an ETag, and its files.
AnswersAreRight == CopiesAreCurrent /\ DownloadsAreWhole
=============================================================================
