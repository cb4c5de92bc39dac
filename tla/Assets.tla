------------------------------- MODULE Assets -------------------------------
(***************************************************************************)
(* The assets of a website, pkg/services/content: files and folders are    *)
(* rows of the database, and the data of a file a blob in the storage,     *)
(* under the ID of its row.                                                *)
(*                                                                         *)
(* A request that makes a file or a folder looks for the folders above it, *)
(* makes those that are missing, checks that nothing has its path, stores  *)
(* the blob and inserts the row, each on its own.  Rows are deleted with   *)
(* the job that deletes the blob, in one transaction.                      *)
(*                                                                         *)
(* A path is a file's or a folder's, never one and then the other.  Left   *)
(* out: the "/assets" folder, which every website has and nobody deletes;  *)
(* sizes, hashes and media types; the limit on the storage of a plan; the  *)
(* assets of a product, which have no folder and whose path isn't checked.*)
(***************************************************************************)
EXTENDS FiniteSets

CONSTANTS
    AssetIDs,     \* the rows that may be made
    Uploads,      \* requests that make a file or a folder
    Deletions,    \* requests that delete one
    Paths,        \* where an asset can be
    FolderPaths,  \* those of a folder
    Above,        \* Above[q]: the folders above q, without "/assets"
    NoAsset       \* no row

ASSUME AssetsAssumption ==
    /\ FolderPaths \subseteq Paths
    /\ Above \in [Paths -> SUBSET FolderPaths]
    /\ \A q \in Paths : q \notin Above[q] /\ \A f \in Above[q] : Above[f] \subseteq Above[q]
    /\ Uploads \cap Deletions = {} /\ NoAsset \notin AssetIDs

VARIABLES
    websiteLive,  \* whether the website is there
    assets,       \* the rows
    path,         \* path[a]: the path of the row or upload a
    blobs,        \* the IDs under which there is data in the storage
    deleting,     \* those of the JobDeleteAssetData in the queue
    erasing,      \* a JobDeleteAssetsDataWithPrefix is in the queue
    at,           \* at[x]: what the request x does next
    asset,        \* asset[x]: the ID it has chosen, or the row it deletes
    walked,       \* walked[x]: the folders above that it has found or made
    used,         \* IDs that were chosen
    abandoned,    \* blobs of uploads that ended before their row
    kept,         \* blobs that jobs gave up to delete
    uprooted      \* rows inserted after a folder was deleted meanwhile

rowVars == <<websiteLive, assets, path, used>>
blobVars == <<blobs, deleting, erasing, abandoned, kept>>
requestVars == <<at, asset, walked>>
assetsVars == <<rowVars, blobVars, requestVars, uprooted>>

Files == {a \in AssetIDs : path[a] \notin FolderPaths}
At(q) == {a \in assets : path[a] = q}

AssetsInit ==
    /\ websiteLive = TRUE /\ assets = {} /\ blobs = {}
    /\ path \in [AssetIDs -> Paths] /\ used = {}
    /\ deleting = {} /\ erasing = FALSE
    /\ at = [x \in Uploads \cup Deletions |-> "idle"]
    /\ asset = [x \in Uploads \cup Deletions |-> NoAsset]
    /\ walked = [x \in Uploads |-> {}]
    /\ abandoned = {} /\ kept = {} /\ uprooted = {}

\* The request x is over.
End(x) ==
    /\ at' = [at EXCEPT ![x] = "idle"]
    /\ asset' = [asset EXCEPT ![x] = NoAsset]
    /\ walked' = [y \in Uploads |-> IF y = x THEN {} ELSE walked[y]]

Proceed(x, step) == at' = [at EXCEPT ![x] = step] /\ UNCHANGED asset

-----------------------------------------------------------------------------
(* UploadAsset and CreateAssetFolder.                                      *)

\* With findOrCreateFolder's first look: if the folder is there, so are, it is
\* assumed, the ones above.
StartUpload(x, a) ==
    /\ at[x] = "idle" /\ websiteLive
    /\ a \notin used /\ used' = used \cup {a}
    /\ asset' = [asset EXCEPT ![x] = a]
    /\ IF \E b \in assets : path[b] \in Above[path[a]]
                            /\ Above[path[a]] = Above[path[b]] \cup {path[b]}
       THEN /\ at' = [at EXCEPT ![x] = "check"]
            /\ walked' = [walked EXCEPT ![x] = Above[path[a]]]
       ELSE at' = [at EXCEPT ![x] = "walk"] /\ UNCHANGED walked
    /\ UNCHANGED <<websiteLive, assets, path, blobVars, uprooted>>

\* The loop of findOrCreateFolder: the next folder, from the top, is found,
FindFolder(x, f) ==
    /\ at[x] = "walk"
    /\ f \in Above[path[asset[x]]] /\ Above[f] = walked[x] /\ At(f) # {}
    /\ walked' = [walked EXCEPT ![x] = @ \cup {f}]
    /\ UNCHANGED <<rowVars, blobVars, at, asset, uprooted>>

\* or made.
CreateFolder(x, f, a) ==
    /\ at[x] = "walk" /\ websiteLive
    /\ f \in Above[path[asset[x]]] /\ Above[f] = walked[x] /\ At(f) = {}
    /\ a \notin used /\ path[a] = f
    /\ used' = used \cup {a}
    /\ assets' = assets \cup {a}
    /\ walked' = [walked EXCEPT ![x] = @ \cup {f}]
    /\ uprooted' = IF \A g \in Above[f] : At(g) # {} THEN uprooted ELSE uprooted \cup {a}
    /\ UNCHANGED <<websiteLive, path, blobVars, at, asset>>

\* What is looked up is a row at the path that is asked for.
CheckPath(x) ==
    /\ at[x] \in {"walk", "check"} /\ walked[x] = Above[path[asset[x]]]
    /\ IF At(path[asset[x]]) = {}
       THEN /\ Proceed(x, IF asset[x] \in Files THEN "put" ELSE "insert")
            /\ UNCHANGED walked
       ELSE End(x)
    /\ UNCHANGED <<rowVars, blobVars, uprooted>>

\* Fault: the row is inserted before the data is stored.
InsertFirst(x) ==
    /\ at[x] = "put" /\ websiteLive
    /\ assets' = assets \cup {asset[x]}
    /\ Proceed(x, "put")
    /\ UNCHANGED <<websiteLive, path, used, blobVars, walked, uprooted>>

PutObject(x) ==
    /\ at[x] = "put"
    /\ blobs' = blobs \cup {asset[x]}
    /\ Proceed(x, "insert")
    /\ UNCHANGED <<rowVars, deleting, erasing, abandoned, kept, walked, uprooted>>

\* The website must be there still, the folders may be gone.
InsertAsset(x) ==
    /\ at[x] = "insert" /\ websiteLive
    /\ assets' = assets \cup {asset[x]}
    /\ uprooted' = IF \A g \in Above[path[asset[x]]] : At(g) # {}
                   THEN uprooted ELSE uprooted \cup {asset[x]}
    /\ End(x)
    /\ UNCHANGED <<websiteLive, path, used, blobVars>>

\* The storage, the database or the server fails: what was stored stays there.
FailUpload(x) ==
    /\ at[x] # "idle"
    /\ abandoned' = abandoned \cup ({asset[x]} \cap blobs)
    /\ End(x)
    /\ UNCHANGED <<rowVars, blobs, deleting, erasing, kept, uprooted>>

-----------------------------------------------------------------------------
(* DeleteAsset and DeleteWebsite.                                          *)

\* The row is read before the transaction.
StartDelete(x, a) ==
    /\ at[x] = "idle" /\ a \in assets
    /\ at' = [at EXCEPT ![x] = "delete"]
    /\ asset' = [asset EXCEPT ![x] = a]
    /\ UNCHANGED <<rowVars, blobVars, walked, uprooted>>

\* Fault: what is in the folders of a folder is not found.
FindAssetsDirectChildren(f) ==
    {a \in assets : f \in Above[path[a]] /\ Above[path[a]] = Above[f] \cup {f}}

FindAssetsAllChildren(f) == {a \in assets : f \in Above[path[a]]}

\* The rows are deleted and the jobs pushed; a file that was deleted meanwhile
\* gets another job.
DeleteAsset(x) ==
    LET a    == asset[x]
        gone == {a} \cup IF a \in Files THEN {} ELSE FindAssetsAllChildren(path[a])
    IN  /\ at[x] = "delete"
        /\ assets' = assets \ gone
        /\ deleting' = deleting \cup (gone \cap Files)
        /\ End(x)
        /\ UNCHANGED <<websiteLive, path, used, blobs, erasing, abandoned, kept, uprooted>>

FailDelete(x) ==
    /\ at[x] = "delete"
    /\ End(x)
    /\ UNCHANGED <<rowVars, blobVars, uprooted>>

\* With DeleteWebsiteData, in the transaction of DeleteWebsite.
DeleteWebsiteAssets ==
    /\ websiteLive /\ websiteLive' = FALSE
    /\ assets' = {}
    /\ erasing' = TRUE
    /\ UNCHANGED <<path, used, blobs, deleting, abandoned, kept, requestVars, uprooted>>

-----------------------------------------------------------------------------
(* The jobs.                                                               *)

JobDeleteAssetData(a) ==
    /\ a \in deleting
    /\ blobs' = blobs \ {a} /\ deleting' = deleting \ {a}
    /\ UNCHANGED <<rowVars, erasing, abandoned, kept, requestVars, uprooted>>

\* After a number of attempts, and of retries, the job is given up.
GiveUpBlob(a) ==
    /\ a \in deleting
    /\ deleting' = deleting \ {a} /\ kept' = kept \cup {a}
    /\ UNCHANGED <<rowVars, blobs, erasing, abandoned, requestVars, uprooted>>

JobDeleteAssetsDataWithPrefix ==
    /\ erasing /\ erasing' = FALSE
    /\ blobs' = {}
    /\ UNCHANGED <<rowVars, deleting, abandoned, kept, requestVars, uprooted>>

GiveUpPrefix ==
    /\ erasing /\ erasing' = FALSE
    /\ kept' = kept \cup blobs
    /\ UNCHANGED <<rowVars, blobs, deleting, abandoned, requestVars, uprooted>>

-----------------------------------------------------------------------------

UploadStep(x) ==
    \/ \E a \in AssetIDs : StartUpload(x, a)
    \/ \E f \in FolderPaths : FindFolder(x, f) \/ \E a \in AssetIDs : CreateFolder(x, f, a)
    \/ CheckPath(x) \/ PutObject(x) \/ InsertAsset(x) \/ FailUpload(x)

AssetsNext ==
    \/ \E x \in Uploads : UploadStep(x)
    \/ \E x \in Deletions :
         (\E a \in AssetIDs : StartDelete(x, a)) \/ DeleteAsset(x) \/ FailDelete(x)
    \/ \E a \in AssetIDs : JobDeleteAssetData(a) \/ GiveUpBlob(a)
    \/ DeleteWebsiteAssets \/ JobDeleteAssetsDataWithPrefix \/ GiveUpPrefix

AssetsSpec == AssetsInit /\ [][AssetsNext]_assetsVars

-----------------------------------------------------------------------------
(* Properties.                                                             *)

AssetsTypeOK ==
    /\ websiteLive \in BOOLEAN /\ erasing \in BOOLEAN
    /\ assets \subseteq used /\ used \subseteq AssetIDs
    /\ path \in [AssetIDs -> Paths]
    /\ blobs \subseteq Files /\ deleting \subseteq Files
    /\ abandoned \subseteq Files /\ kept \subseteq Files /\ uprooted \subseteq AssetIDs
    /\ at \in [Uploads \cup Deletions -> {"idle", "walk", "check", "put", "insert", "delete"}]
    /\ asset \in [Uploads \cup Deletions -> AssetIDs \cup {NoAsset}]
    /\ \A x \in DOMAIN at : at[x] # "idle" => asset[x] \in used
    /\ walked \in [Uploads -> SUBSET FolderPaths]

\* A file that the database has can be served: its data is stored, and nothing
\* is going to delete it.
RowsHaveBlobs == \A a \in assets \cap Files : a \in blobs /\ a \notin deleting /\ ~erasing

\* What is stored and not of use anymore is going to be deleted, but for what
\* the code doesn't count on: an upload that ends between its blob and its row.
BlobsAreAccounted ==
    blobs \subseteq assets \cup deleting \cup abandoned \cup kept
                    \cup {asset[x] : x \in Uploads}
                    \cup IF erasing THEN Files ELSE {}

\* Everything is in a folder that can be opened and deleted, but for what was
\* made while its folder was deleted.
FoldersAreThere ==
    \A a \in assets \ uprooted : \A f \in Above[path[a]] :
        At(f) # {} \/ \E b \in uprooted : path[b] \in Above[path[a]]

\* Rows, blobs and folders agree, whatever uploads and deletions overlap.
BlobsFollowRows == RowsHaveBlobs /\ BlobsAreAccounted /\ FoldersAreThere

\* The inductive invariant behind it.  The asset of an upload is its own: it is
\* neither a row nor about to be deleted, and no other request has it; its blob
\* is there when its row is going to be inserted, unless the website was deleted;
UploadIsApart(x) ==
    /\ at[x] # "delete"
    /\ at[x] # "idle" => /\ asset[x] \notin assets \cup deleting
                         /\ \A y \in DOMAIN at \ {x} : asset[y] # asset[x]
    /\ at[x] \in {"walk", "check"} => asset[x] \notin blobs
    /\ at[x] = "put" => asset[x] \in Files
    /\ at[x] = "insert" /\ websiteLive /\ asset[x] \in Files => asset[x] \in blobs

\* a website that is gone has no assets, and only then all its data is deleted.
RequestsAreApart ==
    /\ \A x \in DOMAIN at : at[x] = "idle" => asset[x] = NoAsset
    /\ \A x \in Uploads : UploadIsApart(x)
    /\ blobs \cup deleting \subseteq used
    /\ IF websiteLive THEN ~erasing ELSE assets = {}

AssetsInv == AssetsTypeOK /\ RequestsAreApart /\ BlobsFollowRows
=============================================================================
