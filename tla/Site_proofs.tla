---------------------------- MODULE Site_proofs ----------------------------
(***************************************************************************)
(* Proofs about Assets, Pages, Client and Websites, for any sets of        *)
(* assets, folders, pages, tags, files, websites, domains and requests,    *)
(* and what they and the proofs about Redirects say of MCSite.             *)
(***************************************************************************)
EXTENDS MCSite, Redirects_proofs

-----------------------------------------------------------------------------
(* Assets: the types.                                                      *)

LEMMA AssetsInitInv == AssetsInit => AssetsInv
<1> SUFFICES ASSUME AssetsInit PROVE AssetsInv
  OBVIOUS
<1>1. AssetsTypeOK
  BY DEF AssetsInit, AssetsTypeOK, Files
<1>2. RequestsAreApart
  BY DEF AssetsInit, RequestsAreApart, UploadIsApart
<1>3. BlobsFollowRows
  BY DEF AssetsInit, BlobsFollowRows, RowsHaveBlobs, BlobsAreAccounted, FoldersAreThere
<1> QED
  BY <1>1, <1>2, <1>3 DEF AssetsInv

\* A request that is over has no asset, and the others go on.
LEMMA EndType ==
    ASSUME AssetsTypeOK, NEW x \in Uploads \cup Deletions, End(x), used \subseteq used'
    PROVE  /\ at' \in [Uploads \cup Deletions ->
                         {"idle", "walk", "check", "put", "insert", "delete"}]
           /\ asset' \in [Uploads \cup Deletions -> AssetIDs \cup {NoAsset}]
           /\ \A y \in DOMAIN at' : at'[y] # "idle" => asset'[y] \in used'
           /\ walked' \in [Uploads -> SUBSET FolderPaths]
  BY DEF End, AssetsTypeOK

LEMMA UploadTypes ==
    ASSUME AssetsInv, NEW x \in Uploads, UploadStep(x)
    PROVE  AssetsTypeOK'
<1> USE DEF AssetsTypeOK, rowVars, blobVars, requestVars
<1>0. AssetsTypeOK /\ x \in Uploads \cup Deletions
  BY DEF AssetsInv
<1>1. ASSUME NEW a \in AssetIDs, StartUpload(x, a) PROVE AssetsTypeOK'
  <2>1. Above[path[a]] \in SUBSET FolderPaths
    BY <1>0, AssetsAssumption
  <2> QED
    BY <1>0, <1>1, <2>1 DEF StartUpload, Files
<1>2. ASSUME NEW f \in FolderPaths, FindFolder(x, f) PROVE AssetsTypeOK'
  BY <1>0, <1>2 DEF FindFolder, Files
<1>3. ASSUME NEW f \in FolderPaths, NEW a \in AssetIDs, CreateFolder(x, f, a) PROVE AssetsTypeOK'
  BY <1>0, <1>3 DEF CreateFolder, Files
<1>4. CASE CheckPath(x)
  <2>1. CASE At(path[asset[x]]) = {}
    BY <1>0, <1>4, <2>1 DEF CheckPath, Proceed, Files
  <2>2. CASE At(path[asset[x]]) # {}
    <3>1. End(x) /\ UNCHANGED <<rowVars, blobVars, uprooted>>
      BY <1>4, <2>2 DEF CheckPath
    <3> QED
      BY <1>0, <3>1, EndType DEF Files
  <2> QED
    BY <2>1, <2>2
<1>5. CASE PutObject(x)
  <2>1. asset[x] \in Files
    BY <1>5 DEF PutObject, AssetsInv, RequestsAreApart, UploadIsApart
  <2> QED
    BY <1>0, <1>5, <2>1 DEF PutObject, Proceed, Files
<1>6. CASE InsertAsset(x)
  BY <1>0, <1>6, EndType DEF InsertAsset, Files
<1>7. CASE FailUpload(x)
  BY <1>0, <1>7, EndType DEF FailUpload, Files
<1> QED
  BY <1>1, <1>2, <1>3, <1>4, <1>5, <1>6, <1>7 DEF UploadStep

LEMMA DeletionTypes ==
    ASSUME AssetsInv, NEW x \in Deletions,
           \/ \E a \in AssetIDs : StartDelete(x, a)
           \/ DeleteAsset(x) \/ FailDelete(x)
    PROVE  AssetsTypeOK'
<1> USE DEF AssetsTypeOK, rowVars, blobVars, requestVars
<1>0. AssetsTypeOK /\ x \in Uploads \cup Deletions
  BY DEF AssetsInv
<1>1. ASSUME NEW a \in AssetIDs, StartDelete(x, a) PROVE AssetsTypeOK'
  BY <1>0, <1>1 DEF StartDelete, Files
<1>2. CASE DeleteAsset(x)
  BY <1>0, <1>2, EndType DEF DeleteAsset, Files
<1>3. CASE FailDelete(x)
  BY <1>0, <1>3, EndType DEF FailDelete, Files
<1> QED
  BY <1>1, <1>2, <1>3

LEMMA JobTypes ==
    ASSUME AssetsInv,
           \/ \E a \in AssetIDs : JobDeleteAssetData(a) \/ GiveUpBlob(a)
           \/ DeleteWebsiteAssets \/ JobDeleteAssetsDataWithPrefix \/ GiveUpPrefix
           \/ UNCHANGED assetsVars
    PROVE  AssetsTypeOK'
<1> USE DEF AssetsTypeOK, rowVars, blobVars, requestVars, AssetsInv
<1>1. ASSUME NEW a \in AssetIDs, JobDeleteAssetData(a) \/ GiveUpBlob(a) PROVE AssetsTypeOK'
  BY <1>1 DEF JobDeleteAssetData, GiveUpBlob, Files
<1>2. CASE DeleteWebsiteAssets
  BY <1>2 DEF DeleteWebsiteAssets, Files
<1>3. CASE JobDeleteAssetsDataWithPrefix \/ GiveUpPrefix
  BY <1>3 DEF JobDeleteAssetsDataWithPrefix, GiveUpPrefix, Files
<1>4. CASE UNCHANGED assetsVars
  BY <1>4 DEF assetsVars, Files
<1> QED
  BY <1>1, <1>2, <1>3, <1>4

-----------------------------------------------------------------------------
(* Assets: requests are apart.                                             *)

\* A request ends; the assets of the others are what they were.
LEMMA EndOthers ==
    ASSUME AssetsInv, NEW x \in Uploads \cup Deletions, End(x)
    PROVE  /\ DOMAIN at' = DOMAIN at /\ DOMAIN at = Uploads \cup Deletions
           /\ at'[x] = "idle" /\ asset'[x] = NoAsset
           /\ \A y \in DOMAIN at \ {x} : at'[y] = at[y] /\ asset'[y] = asset[y]
  BY DEF End, AssetsInv, AssetsTypeOK

\* After it the others are as far apart as before, provided that nothing of
\* theirs became a row, or is going to be deleted.
LEMMA EndIsApart ==
    ASSUME AssetsInv, NEW x \in Uploads \cup Deletions, End(x), path' = path,
           UNCHANGED <<websiteLive, used, blobs, erasing>>,
           \A y \in Uploads \ {x} :
               at[y] # "idle" => asset[y] \notin assets' \cup deleting',
           deleting' \subseteq used,
           websiteLive \/ assets' = {}
    PROVE  RequestsAreApart'
<1>1. \A y \in DOMAIN at' : at'[y] = "idle" => asset'[y] = NoAsset
  BY EndOthers DEF AssetsInv, RequestsAreApart
<1>2. ASSUME NEW y \in Uploads, y # x PROVE UploadIsApart(y)'
  <2>1. at'[y] = at[y] /\ asset'[y] = asset[y]
    BY <1>2, EndOthers
  <2>2. ASSUME at[y] # "idle", NEW z \in DOMAIN at' \ {y} PROVE asset'[z] # asset'[y]
    BY <1>2, <2>1, <2>2, EndOthers, AssetsAssumption
       DEF AssetsInv, RequestsAreApart, UploadIsApart, AssetsTypeOK
  <2> QED
    BY <1>2, <2>1, <2>2, EndOthers DEF AssetsInv, RequestsAreApart, UploadIsApart, Files
<1>3. x \in Uploads => UploadIsApart(x)'
  BY EndOthers DEF UploadIsApart
<1> QED
  BY <1>1, <1>2, <1>3 DEF AssetsInv, RequestsAreApart

LEMMA UploadsApart ==
    ASSUME AssetsInv, NEW x \in Uploads, UploadStep(x)
    PROVE  RequestsAreApart'
<1> USE DEF rowVars, blobVars, requestVars
<1>0. /\ x \in Uploads \cup Deletions /\ AssetsTypeOK /\ RequestsAreApart
      /\ DOMAIN at = Uploads \cup Deletions
      /\ \A y \in Uploads \cup Deletions : at[y] = "idle" => asset[y] = NoAsset
      /\ \A y \in Uploads : UploadIsApart(y)
      /\ \A y \in Uploads \cup Deletions : asset[y] \in used \cup {NoAsset}
  BY DEF AssetsInv, RequestsAreApart, AssetsTypeOK
<1>1. ASSUME NEW a \in AssetIDs, StartUpload(x, a) PROVE RequestsAreApart'
  <2>1. /\ a \notin used /\ used' = used \cup {a} /\ asset' = [asset EXCEPT ![x] = a]
        /\ DOMAIN at' = DOMAIN at
        /\ at'[x] \in {"walk", "check"} /\ asset'[x] = a
        /\ \A y \in DOMAIN at \ {x} : at'[y] = at[y] /\ asset'[y] = asset[y]
        /\ UNCHANGED <<websiteLive, assets, path, blobs, deleting, erasing>>
    BY <1>0, <1>1 DEF StartUpload, AssetsTypeOK
  <2>2. a \notin blobs \cup deleting \cup assets
    BY <1>0, <2>1 DEF RequestsAreApart, AssetsTypeOK
  <2>3. \A y \in DOMAIN at : asset[y] # a
    BY <1>0, <2>1, AssetsAssumption
  <2>4. ASSUME NEW y \in Uploads PROVE UploadIsApart(y)'
    <3>1. CASE y = x
      BY <1>0, <2>1, <2>2, <2>3, <3>1 DEF UploadIsApart
    <3>2. CASE y # x
      BY <1>0, <2>1, <2>3, <3>2 DEF UploadIsApart, Files
    <3> QED
      BY <3>1, <3>2
  <2> QED
    BY <1>0, <2>1, <2>4 DEF RequestsAreApart
<1>2. ASSUME NEW f \in FolderPaths, FindFolder(x, f) PROVE RequestsAreApart'
  BY <1>0, <1>2 DEF FindFolder, RequestsAreApart, UploadIsApart, Files
<1>3. ASSUME NEW f \in FolderPaths, NEW a \in AssetIDs, CreateFolder(x, f, a)
      PROVE  RequestsAreApart'
  <2>1. /\ a \notin used /\ used' = used \cup {a} /\ assets' = assets \cup {a}
        /\ websiteLive /\ UNCHANGED <<websiteLive, path, blobVars, at, asset>>
    BY <1>3 DEF CreateFolder
  <2>2. \A y \in DOMAIN at : asset[y] # a
    BY <1>0, <2>1, AssetsAssumption
  <2> QED
    BY <1>0, <2>1, <2>2 DEF RequestsAreApart, UploadIsApart, Files
<1>4. CASE CheckPath(x)
  <2>1. CASE At(path[asset[x]]) = {}
    <3> DEFINE s == IF asset[x] \in Files THEN "put" ELSE "insert"
    <3>1. /\ at[x] \in {"walk", "check"} /\ at' = [at EXCEPT ![x] = s]
          /\ s \in {"put", "insert"} /\ (s = "put" <=> asset[x] \in Files)
          /\ UNCHANGED <<asset, rowVars, blobVars>>
      BY <1>4, <2>1 DEF CheckPath, Proceed
    <3> HIDE DEF s
    <3>2. /\ DOMAIN at' = DOMAIN at /\ at'[x] = s
          /\ \A y \in DOMAIN at \ {x} : at'[y] = at[y]
      BY <1>0, <3>1 DEF AssetsTypeOK
    <3> QED
      BY <1>0, <3>1, <3>2 DEF RequestsAreApart, UploadIsApart, Files
  <2>2. CASE At(path[asset[x]]) # {}
    <3>1. End(x) /\ UNCHANGED <<rowVars, blobVars>>
      BY <1>4, <2>2 DEF CheckPath
    <3> QED
      BY <1>0, <3>1, EndIsApart DEF RequestsAreApart, UploadIsApart
  <2> QED
    BY <2>1, <2>2
<1>5. CASE PutObject(x)
  <2>1. /\ at[x] = "put" /\ at' = [at EXCEPT ![x] = "insert"] /\ blobs' = blobs \cup {asset[x]}
        /\ UNCHANGED <<asset, rowVars, deleting, erasing>>
    BY <1>5 DEF PutObject, Proceed
  <2>2. /\ DOMAIN at' = DOMAIN at /\ at'[x] = "insert"
        /\ \A y \in DOMAIN at \ {x} : at'[y] = at[y]
    BY <1>0, <2>1 DEF AssetsTypeOK
  <2>3. asset[x] \in used
    BY <1>0, <2>1 DEF AssetsTypeOK
  <2>4. ASSUME NEW y \in Uploads PROVE UploadIsApart(y)'
    <3>1. CASE y = x
      BY <1>0, <2>1, <2>2, <3>1 DEF UploadIsApart
    <3>2. CASE y # x
      <4>1. at[y] # "idle" => asset[y] # asset[x]
        BY <1>0, <3>2 DEF UploadIsApart
      <4> QED
        BY <1>0, <2>1, <2>2, <3>2, <4>1 DEF UploadIsApart, Files
    <3> QED
      BY <3>1, <3>2
  <2> QED
    BY <1>0, <2>1, <2>2, <2>3, <2>4 DEF RequestsAreApart
<1>6. CASE InsertAsset(x)
  <2>1. /\ at[x] = "insert" /\ websiteLive /\ assets' = assets \cup {asset[x]} /\ End(x)
        /\ UNCHANGED <<websiteLive, path, used, blobVars>>
    BY <1>6 DEF InsertAsset
  <2>2. \A y \in Uploads \ {x} : at[y] # "idle" => asset[y] \notin assets' \cup deleting'
    BY <1>0, <2>1 DEF UploadIsApart
  <2> QED
    BY <1>0, <2>1, <2>2, EndIsApart DEF RequestsAreApart
<1>7. CASE FailUpload(x)
  <2>1. End(x) /\ UNCHANGED <<rowVars, blobs, deleting, erasing>>
    BY <1>7 DEF FailUpload
  <2> QED
    BY <1>0, <2>1, EndIsApart DEF RequestsAreApart, UploadIsApart
<1> QED
  BY <1>1, <1>2, <1>3, <1>4, <1>5, <1>6, <1>7 DEF UploadStep

LEMMA DeletionsApart ==
    ASSUME AssetsInv, NEW x \in Deletions,
           \/ \E a \in AssetIDs : StartDelete(x, a)
           \/ DeleteAsset(x) \/ FailDelete(x)
    PROVE  RequestsAreApart'
<1> USE DEF rowVars, blobVars, requestVars
<1>0. /\ x \in Uploads \cup Deletions /\ AssetsTypeOK /\ RequestsAreApart
      /\ x \notin Uploads /\ DOMAIN at = Uploads \cup Deletions
      /\ \A y \in Uploads : UploadIsApart(y)
  BY AssetsAssumption DEF AssetsInv, RequestsAreApart, AssetsTypeOK
<1>1. ASSUME NEW a \in AssetIDs, StartDelete(x, a) PROVE RequestsAreApart'
  <2>1. /\ a \in assets /\ DOMAIN at' = DOMAIN at /\ at'[x] = "delete" /\ asset'[x] = a
        /\ \A y \in DOMAIN at \ {x} : at'[y] = at[y] /\ asset'[y] = asset[y]
        /\ UNCHANGED <<rowVars, blobVars>>
    BY <1>0, <1>1 DEF StartDelete, AssetsTypeOK
  <2> QED
    BY <1>0, <2>1 DEF RequestsAreApart, UploadIsApart, Files
<1>2. CASE DeleteAsset(x)
  <2>1. PICK gone : /\ gone = {asset[x]} \cup IF asset[x] \in Files THEN {}
                                              ELSE FindAssetsAllChildren(path[asset[x]])
                    /\ assets' = assets \ gone
                    /\ deleting' = deleting \cup (gone \cap Files)
    BY <1>2 DEF DeleteAsset
  <2>2. at[x] = "delete" /\ End(x) /\ UNCHANGED <<websiteLive, path, used, blobs, erasing>>
    BY <1>2 DEF DeleteAsset
  <2>3. asset[x] \in used
    BY <1>0, <2>2 DEF AssetsTypeOK
  <2>4. gone \subseteq assets \cup {asset[x]}
    BY <2>1 DEF FindAssetsAllChildren
  <2>5. \A y \in Uploads \ {x} : at[y] # "idle" => asset[y] \notin assets' \cup deleting'
    BY <1>0, <2>1, <2>4 DEF UploadIsApart
  <2>6. deleting' \subseteq used
    BY <1>0, <2>1, <2>3, <2>4 DEF RequestsAreApart, AssetsTypeOK
  <2>7. websiteLive \/ assets' = {}
    BY <1>0, <2>1 DEF RequestsAreApart
  <2> QED
    BY <1>0, <2>2, <2>5, <2>6, <2>7, EndIsApart
<1>3. CASE FailDelete(x)
  <2>1. End(x) /\ UNCHANGED <<rowVars, blobVars>>
    BY <1>3 DEF FailDelete
  <2> QED
    BY <1>0, <2>1, EndIsApart DEF RequestsAreApart, UploadIsApart
<1> QED
  BY <1>1, <1>2, <1>3

LEMMA JobsApart ==
    ASSUME AssetsInv,
           \/ \E a \in AssetIDs : JobDeleteAssetData(a) \/ GiveUpBlob(a)
           \/ DeleteWebsiteAssets \/ JobDeleteAssetsDataWithPrefix \/ GiveUpPrefix
           \/ UNCHANGED assetsVars
    PROVE  RequestsAreApart'
<1> USE DEF rowVars, blobVars, requestVars, AssetsInv, RequestsAreApart, UploadIsApart, Files
<1>1. ASSUME NEW a \in AssetIDs, JobDeleteAssetData(a) PROVE RequestsAreApart'
  BY <1>1 DEF JobDeleteAssetData
<1>2. ASSUME NEW a \in AssetIDs, GiveUpBlob(a) PROVE RequestsAreApart'
  BY <1>2 DEF GiveUpBlob
<1>3. CASE DeleteWebsiteAssets
  BY <1>3 DEF DeleteWebsiteAssets
<1>4. CASE JobDeleteAssetsDataWithPrefix \/ GiveUpPrefix
  BY <1>4 DEF JobDeleteAssetsDataWithPrefix, GiveUpPrefix
<1>5. CASE UNCHANGED assetsVars
  BY <1>5 DEF assetsVars
<1> QED
  BY <1>1, <1>2, <1>3, <1>4, <1>5

-----------------------------------------------------------------------------
(* Assets: blobs and folders follow the rows.                              *)

\* A step that adds no row without its blob, and takes no blob from a row.
LEMMA RowsKeepBlobs ==
    ASSUME AssetsInv, path' = path,
           \A a \in assets' \cap Files :
               /\ a \in assets \/ (a \in blobs /\ a \notin deleting /\ ~erasing)
               /\ a \notin deleting' \ deleting
               /\ a \in blobs /\ a \notin deleting => a \in blobs'
               /\ erasing' => erasing
    PROVE  RowsHaveBlobs'
  BY DEF AssetsInv, BlobsFollowRows, RowsHaveBlobs, Files

\* Where nothing is deleted, the folders stay above what is in them.
LEMMA FoldersStay ==
    ASSUME AssetsInv, path' = path, assets \subseteq assets', assets' \subseteq AssetIDs,
           uprooted \subseteq uprooted',
           \A a \in assets' \ assets :
               a \in uprooted' \/ \A f \in Above[path[a]] : At(f) # {}
    PROVE  FoldersAreThere'
<1>1. \A f \in FolderPaths : At(f) # {} => At(f)' # {}
  BY DEF At
<1>2. \A a \in assets' : Above[path[a]] \subseteq FolderPaths
  BY AssetsAssumption DEF AssetsInv, AssetsTypeOK
<1> QED
  BY <1>1, <1>2 DEF AssetsInv, BlobsFollowRows, FoldersAreThere

\* A row that is inserted: what stores its data or its folders is there, or its
\* folders were deleted meanwhile.
LEMMA UploadsFollow ==
    ASSUME AssetsInv, NEW x \in Uploads, UploadStep(x)
    PROVE  BlobsFollowRows'
<1> USE DEF rowVars, blobVars, requestVars
<1>0. /\ x \in Uploads \cup Deletions /\ AssetsTypeOK /\ RequestsAreApart
      /\ UploadIsApart(x) /\ RowsHaveBlobs /\ BlobsAreAccounted /\ AssetsTypeOK'
  BY UploadTypes DEF AssetsInv, RequestsAreApart, BlobsFollowRows
<1>1. ASSUME NEW a \in AssetIDs, StartUpload(x, a) PROVE BlobsFollowRows'
  <2>1. /\ at[x] = "idle" /\ asset' = [asset EXCEPT ![x] = a]
        /\ UNCHANGED <<websiteLive, assets, path, blobVars, uprooted>>
    BY <1>1 DEF StartUpload
  <2>2. NoAsset \notin blobs /\ asset[x] = NoAsset
    BY <1>0, <2>1, AssetsAssumption DEF RequestsAreApart, AssetsTypeOK
  <2>3. \A y \in Uploads \ {x} : asset'[y] = asset[y]
    BY <1>0, <2>1 DEF AssetsTypeOK
  <2>4. BlobsAreAccounted'
    BY <1>0, <2>1, <2>2, <2>3 DEF BlobsAreAccounted, Files
  <2>5. RowsHaveBlobs' /\ FoldersAreThere'
    BY <1>0, <2>1, RowsKeepBlobs, FoldersStay DEF AssetsTypeOK
  <2> QED
    BY <2>4, <2>5 DEF BlobsFollowRows
<1>2. ASSUME NEW f \in FolderPaths, FindFolder(x, f) PROVE BlobsFollowRows'
  <2>1. UNCHANGED <<rowVars, blobVars, asset, uprooted>>
    BY <1>2 DEF FindFolder
  <2>2. RowsHaveBlobs' /\ FoldersAreThere'
    BY <1>0, <2>1, RowsKeepBlobs, FoldersStay DEF AssetsTypeOK
  <2> QED
    BY <1>0, <2>1, <2>2 DEF BlobsFollowRows, BlobsAreAccounted, Files
<1>3. ASSUME NEW f \in FolderPaths, NEW a \in AssetIDs, CreateFolder(x, f, a)
      PROVE  BlobsFollowRows'
  <2>1. /\ assets' = assets \cup {a} /\ path[a] = f
        /\ uprooted' = IF \A g \in Above[f] : At(g) # {} THEN uprooted ELSE uprooted \cup {a}
        /\ UNCHANGED <<websiteLive, path, blobVars, at, asset>>
    BY <1>3 DEF CreateFolder
  <2>2. a \notin Files
    BY <2>1 DEF Files
  <2>3. RowsHaveBlobs'
    BY <1>0, <2>1, <2>2 DEF RowsHaveBlobs, Files
  <2>4. FoldersAreThere'
    BY <1>0, <2>1, FoldersStay DEF AssetsTypeOK
  <2> QED
    BY <1>0, <2>1, <2>3, <2>4 DEF BlobsFollowRows, BlobsAreAccounted, Files
<1>4. CASE CheckPath(x)
  <2>1. UNCHANGED <<rowVars, blobVars, uprooted>> /\ at[x] \in {"walk", "check"}
    BY <1>4 DEF CheckPath
  <2>2. asset' = asset \/ End(x)
    BY <1>4 DEF CheckPath, Proceed
  <2>3. asset[x] \notin blobs
    BY <1>0, <2>1 DEF UploadIsApart
  <2>4. \A y \in Uploads \ {x} : asset'[y] = asset[y]
    BY <1>0, <2>2, EndOthers DEF AssetsTypeOK
  <2>5. BlobsAreAccounted'
    BY <1>0, <2>1, <2>3, <2>4 DEF BlobsAreAccounted, Files
  <2>6. RowsHaveBlobs' /\ FoldersAreThere'
    BY <1>0, <2>1, RowsKeepBlobs, FoldersStay DEF AssetsTypeOK
  <2> QED
    BY <2>5, <2>6 DEF BlobsFollowRows
<1>5. CASE PutObject(x)
  <2>1. /\ blobs' = blobs \cup {asset[x]} /\ asset' = asset
        /\ UNCHANGED <<rowVars, deleting, erasing, abandoned, kept, uprooted>>
    BY <1>5 DEF PutObject, Proceed
  <2>2. RowsHaveBlobs' /\ FoldersAreThere'
    BY <1>0, <2>1, RowsKeepBlobs, FoldersStay DEF AssetsTypeOK
  <2> QED
    BY <1>0, <2>1, <2>2 DEF BlobsFollowRows, BlobsAreAccounted, Files
<1>6. CASE InsertAsset(x)
  <2>1. /\ at[x] = "insert" /\ websiteLive /\ assets' = assets \cup {asset[x]} /\ End(x)
        /\ uprooted' = IF \A g \in Above[path[asset[x]]] : At(g) # {}
                       THEN uprooted ELSE uprooted \cup {asset[x]}
        /\ UNCHANGED <<websiteLive, path, used, blobVars>>
    BY <1>6 DEF InsertAsset
  <2>2. asset[x] \in Files => asset[x] \in blobs /\ asset[x] \notin deleting
    BY <1>0, <2>1 DEF UploadIsApart
  <2>3. ~erasing
    BY <1>0, <2>1 DEF RequestsAreApart
  <2>4. RowsHaveBlobs'
    BY <1>0, <2>1, <2>2, <2>3 DEF RowsHaveBlobs, Files
  <2>5. FoldersAreThere'
    BY <1>0, <2>1, FoldersStay DEF AssetsTypeOK
  <2>6. \A y \in Uploads \ {x} : asset'[y] = asset[y]
    BY <1>0, <2>1, EndOthers
  <2>7. BlobsAreAccounted'
    BY <1>0, <2>1, <2>6 DEF BlobsAreAccounted, Files
  <2> QED
    BY <2>4, <2>5, <2>7 DEF BlobsFollowRows
<1>7. CASE FailUpload(x)
  <2>1. /\ abandoned' = abandoned \cup ({asset[x]} \cap blobs) /\ End(x)
        /\ UNCHANGED <<rowVars, blobs, deleting, erasing, kept, uprooted>>
    BY <1>7 DEF FailUpload
  <2>2. \A y \in Uploads \ {x} : asset'[y] = asset[y]
    BY <1>0, <2>1, EndOthers
  <2>3. BlobsAreAccounted'
    BY <1>0, <2>1, <2>2 DEF BlobsAreAccounted, Files
  <2>4. RowsHaveBlobs' /\ FoldersAreThere'
    BY <1>0, <2>1, RowsKeepBlobs, FoldersStay DEF AssetsTypeOK
  <2> QED
    BY <2>3, <2>4 DEF BlobsFollowRows
<1> QED
  BY <1>1, <1>2, <1>3, <1>4, <1>5, <1>6, <1>7 DEF UploadStep

\* Who loses a folder by a deletion was in it, and is deleted with it.
LEMMA DeletionsFollow ==
    ASSUME AssetsInv, NEW x \in Deletions,
           \/ \E a \in AssetIDs : StartDelete(x, a)
           \/ DeleteAsset(x) \/ FailDelete(x)
    PROVE  BlobsFollowRows'
<1> USE DEF rowVars, blobVars, requestVars
<1>0. /\ x \in Uploads \cup Deletions /\ AssetsTypeOK /\ RequestsAreApart /\ x \notin Uploads
      /\ RowsHaveBlobs /\ BlobsAreAccounted /\ FoldersAreThere
  BY AssetsAssumption DEF AssetsInv, BlobsFollowRows
<1>1. CASE (\E a \in AssetIDs : StartDelete(x, a)) \/ FailDelete(x)
  <2>1. UNCHANGED <<rowVars, blobVars, uprooted>>
    BY <1>1 DEF StartDelete, FailDelete
  <2>2. \A y \in Uploads : asset'[y] = asset[y]
    BY <1>0, <1>1, EndOthers DEF StartDelete, FailDelete, AssetsTypeOK
  <2>3. RowsHaveBlobs' /\ FoldersAreThere'
    BY <1>0, <2>1, RowsKeepBlobs, FoldersStay DEF AssetsTypeOK
  <2> QED
    BY <1>0, <2>1, <2>2, <2>3 DEF BlobsFollowRows, BlobsAreAccounted, Files
<1>2. CASE DeleteAsset(x)
  <2>1. PICK gone : /\ gone = {asset[x]} \cup IF asset[x] \in Files THEN {}
                                              ELSE FindAssetsAllChildren(path[asset[x]])
                    /\ assets' = assets \ gone
                    /\ deleting' = deleting \cup (gone \cap Files)
    BY <1>2 DEF DeleteAsset
  <2>2. at[x] = "delete" /\ End(x)
        /\ UNCHANGED <<websiteLive, path, used, blobs, erasing, abandoned, kept, uprooted>>
    BY <1>2 DEF DeleteAsset
  <2>3. \A y \in Uploads : asset'[y] = asset[y]
    BY <1>0, <2>2, EndOthers
  <2>4. RowsHaveBlobs'
    BY <1>0, <2>1, <2>2 DEF RowsHaveBlobs, Files
  <2>5. BlobsAreAccounted'
    BY <1>0, <2>1, <2>2, <2>3 DEF BlobsAreAccounted, Files, AssetsTypeOK
  <2>6. ASSUME NEW a \in assets', NEW f \in Above[path[a]], At(f) # {}
        PROVE  At(f)' # {}
    <3>1. /\ a \in assets /\ a \in AssetIDs /\ path[a] \in Paths /\ f \in FolderPaths
          /\ asset[x] \in AssetIDs /\ f \in Paths
      BY <1>0, <2>1, <2>2, AssetsAssumption DEF AssetsTypeOK
    <3>2. PICK b \in assets : path[b] = f
      BY <2>6 DEF At
    <3>3. b \notin gone
      <4>1. CASE asset[x] \in Files
        BY <2>1, <3>1, <3>2, <4>1 DEF Files
      <4>2. CASE asset[x] \notin Files
        <5>1. path[asset[x]] \notin Above[path[a]]
          BY <2>1, <3>1, <4>2 DEF FindAssetsAllChildren
        <5>2. Above[f] \subseteq Above[path[a]]
          BY <3>1, AssetsAssumption
        <5>3. b # asset[x]
          BY <3>2, <5>1
        <5>4. path[asset[x]] \notin Above[path[b]]
          BY <3>2, <5>1, <5>2
        <5> QED
          BY <2>1, <4>2, <5>3, <5>4 DEF FindAssetsAllChildren
      <4> QED
        BY <4>1, <4>2
    <3> QED
      BY <2>1, <2>2, <3>2, <3>3 DEF At
  <2>7. FoldersAreThere'
    BY <1>0, <2>1, <2>2, <2>6 DEF FoldersAreThere
  <2> QED
    BY <2>4, <2>5, <2>7 DEF BlobsFollowRows
<1> QED
  BY <1>1, <1>2

LEMMA JobsFollow ==
    ASSUME AssetsInv,
           \/ \E a \in AssetIDs : JobDeleteAssetData(a) \/ GiveUpBlob(a)
           \/ DeleteWebsiteAssets \/ JobDeleteAssetsDataWithPrefix \/ GiveUpPrefix
           \/ UNCHANGED assetsVars
    PROVE  BlobsFollowRows'
<1> USE DEF rowVars, blobVars, requestVars
<1>0. /\ AssetsTypeOK /\ RequestsAreApart
      /\ RowsHaveBlobs /\ BlobsAreAccounted /\ FoldersAreThere
  BY DEF AssetsInv, BlobsFollowRows
<1>1. ASSUME NEW a \in AssetIDs, JobDeleteAssetData(a) PROVE BlobsFollowRows'
  BY <1>0, <1>1 DEF JobDeleteAssetData, BlobsFollowRows, RowsHaveBlobs,
                    BlobsAreAccounted, FoldersAreThere, Files, At
<1>2. ASSUME NEW a \in AssetIDs, GiveUpBlob(a) PROVE BlobsFollowRows'
  BY <1>0, <1>2 DEF GiveUpBlob, BlobsFollowRows, RowsHaveBlobs, BlobsAreAccounted,
                    FoldersAreThere, Files, At
<1>3. CASE DeleteWebsiteAssets
  BY <1>0, <1>3 DEF DeleteWebsiteAssets, BlobsFollowRows, RowsHaveBlobs, AssetsTypeOK,
                    BlobsAreAccounted, FoldersAreThere, Files
<1>4. CASE JobDeleteAssetsDataWithPrefix \/ GiveUpPrefix
  <2>1. assets = {}
    BY <1>0, <1>4 DEF JobDeleteAssetsDataWithPrefix, GiveUpPrefix, RequestsAreApart
  <2> QED
    BY <1>0, <1>4, <2>1 DEF JobDeleteAssetsDataWithPrefix, GiveUpPrefix, BlobsFollowRows,
                            RowsHaveBlobs, BlobsAreAccounted, FoldersAreThere, Files
<1>5. CASE UNCHANGED assetsVars
  BY <1>0, <1>5 DEF assetsVars, BlobsFollowRows, RowsHaveBlobs, BlobsAreAccounted,
                    FoldersAreThere, Files, At
<1> QED
  BY <1>1, <1>2, <1>3, <1>4, <1>5

-----------------------------------------------------------------------------
(* Assets: the theorems.                                                   *)

LEMMA AssetsStepInv == AssetsInv /\ [AssetsNext]_assetsVars => AssetsInv'
<1> SUFFICES ASSUME AssetsInv, [AssetsNext]_assetsVars PROVE AssetsInv'
  OBVIOUS
<1>1. ASSUME NEW x \in Uploads, UploadStep(x) PROVE AssetsInv'
  BY <1>1, UploadTypes, UploadsApart, UploadsFollow DEF AssetsInv
<1>2. ASSUME NEW x \in Deletions,
             (\E a \in AssetIDs : StartDelete(x, a)) \/ DeleteAsset(x) \/ FailDelete(x)
      PROVE  AssetsInv'
  BY <1>2, DeletionTypes, DeletionsApart, DeletionsFollow DEF AssetsInv
<1>3. CASE \/ \E a \in AssetIDs : JobDeleteAssetData(a) \/ GiveUpBlob(a)
           \/ DeleteWebsiteAssets \/ JobDeleteAssetsDataWithPrefix \/ GiveUpPrefix
           \/ UNCHANGED assetsVars
  BY <1>3, JobTypes, JobsApart, JobsFollow DEF AssetsInv
<1> QED
  BY <1>1, <1>2, <1>3 DEF AssetsNext

\* The variables of the assets have their types, and the requests are apart.
THEOREM AssetsTypes == AssetsSpec => []AssetsTypeOK
<1>1. AssetsInv => AssetsTypeOK
  BY DEF AssetsInv
<1> QED
  BY <1>1, AssetsInitInv, AssetsStepInv, PTL DEF AssetsSpec

\* A file in the database has its data in the storage, data without a file is
\* going to be deleted, and everything is in a folder that is there, but for the
\* three ways out that the code has: an upload that ends after its blob, a job
\* that is given up, a folder deleted under an upload (UploadAsset, DeleteAsset,
\* findOrCreateFolder, DeleteWebsiteData and their jobs).
THEOREM FilesHaveData == AssetsSpec => []BlobsFollowRows
<1>1. AssetsInv => BlobsFollowRows
  BY DEF AssetsInv
<1> QED
  BY <1>1, AssetsInitInv, AssetsStepInv, PTL DEF AssetsSpec

-----------------------------------------------------------------------------
(* Pages: the edits.                                                       *)

Steps == {"insert", "insert unsent", "update"}

\* What CreatePage and UpdatePage have in common: x begins to write the row r of
\* p and the difference d of its tags.
Begins(x, p, s, r, d, send) ==
    /\ step[x] = "idle" /\ outbox[x] = {} /\ Prepare(x, p, s, r, d, send)
    /\ s \in Steps /\ r \in Page /\ d \in TagsDiff /\ send \in BOOLEAN
    /\ r.status \in {"draft", "scheduled", "published"}
    /\ send => r.sent
    /\ r.sent => send \/ page[p].sent
    /\ r.status = "published" /\ r.flag => r.sent \/ s = "insert unsent"
    /\ IF s = "update" THEN p \in LivePages
       ELSE page[p].status = "new" /\ \A y \in Editors : target[y] # p
    /\ d = DiffTags(TagsOf(p), r.hash)

LEMMA DiffType ==
    ASSUME NEW p \in PageIDs, NEW T \in SUBSET TagNames
    PROVE  DiffTags(TagsOf(p), T) \in TagsDiff
  BY DEF DiffTags, TagsDiff, TagsOf

LEMMA CreateBegins ==
    ASSUME PagesInv, NEW x \in Editors, NEW p \in PageIDs, NEW isDraft \in BOOLEAN,
           NEW flag \in BOOLEAN, NEW date \in {"past", "now", "future"},
           NEW T \in SUBSET TagNames, CreatePage(x, p, isDraft, date, flag, T)
    PROVE  \E s, r, d, send : Begins(x, p, s, r, d, send)
<1> DEFINE status == StatusFor(isDraft, date)
           send == flag /\ date = "past" /\ status = "published"
           s == IF date = "now" /\ flag /\ ~isDraft THEN "insert unsent" ELSE "insert"
           r == [status |-> status, flag |-> flag, sent |-> send, hash |-> T]
           d == DiffTags({}, T)
<1>1. /\ step[x] = "idle" /\ outbox[x] = {} /\ page[p].status = "new"
      /\ \A y \in Editors : target[y] # p
      /\ Prepare(x, p, s, r, d, send)
  BY DEF CreatePage
<1>2. status \in {"draft", "scheduled", "published"}
  BY DEF StatusFor
<1>3. TagsOf(p) = {}
  BY <1>1 DEF PagesInv, PagesTypeOK, TagsOf, LivePages
<1>4. r \in Page
  BY <1>2 DEF Page, PageStatus
<1>5. status = "published" /\ flag => send \/ s = "insert unsent"
  BY DEF StatusFor
<1>6. d = DiffTags(TagsOf(p), r.hash) /\ d \in TagsDiff
  BY <1>3, DiffType
<1>7. r.status = status /\ r.flag = flag /\ r.sent = send
  OBVIOUS
<1>8. s \in Steps /\ s # "update" /\ send \in BOOLEAN
  BY DEF Steps
<1> HIDE DEF status, send, s, r, d
<1>9. Begins(x, p, s, r, d, send)
  BY <1>1, <1>2, <1>4, <1>5, <1>6, <1>7, <1>8 DEF Begins
<1> QED
  BY <1>9

LEMMA UpdateBegins ==
    ASSUME PagesInv, NEW x \in Editors, NEW p \in PageIDs, NEW isDraft \in BOOLEAN,
           NEW flag \in BOOLEAN, NEW date \in {"past", "now", "future"},
           NEW T \in SUBSET TagNames, UpdatePage(x, p, isDraft, date, flag, T)
    PROVE  \E s, r, d, send : Begins(x, p, s, r, d, send)
<1> DEFINE status == StatusFor(isDraft, date)
           send == status = "published" /\ flag /\ ~page[p].sent
           r == [status |-> status, flag |-> flag, sent |-> page[p].sent \/ send, hash |-> T]
           d == DiffTags(TagsOf(p), T)
<1>1. /\ step[x] = "idle" /\ outbox[x] = {} /\ p \in LivePages
      /\ Prepare(x, p, "update", r, d, send)
  BY DEF UpdatePage
<1>2. status \in {"draft", "scheduled", "published"}
  BY DEF StatusFor
<1>3. page[p].sent \in BOOLEAN
  BY DEF PagesInv, PagesTypeOK, Page
<1>4. r \in Page
  BY <1>2, <1>3 DEF Page, PageStatus
<1>5. d = DiffTags(TagsOf(p), r.hash) /\ d \in TagsDiff
  BY DiffType
<1>6. r.status = status /\ r.flag = flag /\ r.sent = (page[p].sent \/ send)
  OBVIOUS
<1>7. "update" \in Steps /\ send \in BOOLEAN
  BY DEF Steps
<1>8. r.status = "published" /\ r.flag => r.sent
  BY <1>3, <1>6
<1> HIDE DEF status, r, d
<1>9. (send => r.sent) /\ (r.sent => send \/ page[p].sent)
  BY <1>6
<1> HIDE DEF send
<1>10. Begins(x, p, "update", r, d, send)
  BY <1>1, <1>2, <1>4, <1>5, <1>6, <1>7, <1>8, <1>9 DEF Begins
<1> QED
  BY <1>10

-----------------------------------------------------------------------------
(* Pages: the types.                                                       *)

LEMMA PagesInitInv == PagesInit => PagesInv
<1> SUFFICES ASSUME PagesInit PROVE PagesInv
  OBVIOUS
<1>1. NewPage \in Page /\ NoDiff \in TagsDiff
  BY DEF NewPage, Page, PageStatus, NoDiff, TagsDiff
<1>2. \A p \in PageIDs : page[p] = NewPage
  BY DEF PagesInit
<1>3. PagesTypeOK
  BY <1>1 DEF PagesInit, PagesTypeOK
<1>4. EditsAreSound
  BY DEF PagesInit, EditsAreSound
<1>5. SentIsHanded /\ MarkIsKept /\ PublishedIsPosted /\ TagsAreAsked
  BY <1>2 DEF PagesInit, NewPage, SentIsHanded, MarkIsKept, PublishedIsPosted,
              TagsAreAsked, Sending, LivePages
<1> QED
  BY <1>3, <1>4, <1>5 DEF PagesInv

LEMMA BeginTypes ==
    ASSUME PagesInv, NEW x \in Editors, NEW p \in PageIDs, NEW s, NEW r, NEW d, NEW send,
           Begins(x, p, s, r, d, send)
    PROVE  PagesTypeOK'
<1>1. /\ step' = [step EXCEPT ![x] = s] /\ target' = [target EXCEPT ![x] = p]
      /\ draft' = [draft EXCEPT ![x] = r] /\ diff' = [diff EXCEPT ![x] = d]
      /\ outbox' = [outbox EXCEPT ![x] = IF send THEN {p} ELSE {}]
      /\ UNCHANGED <<page, tag, tagged, publishing, posted, lost, missed, stale, raced, introduced>>
  BY DEF Begins, Prepare, pageVars, pastVars
<1>2. s \in Steps /\ r \in Page /\ d \in TagsDiff
  BY DEF Begins
<1> QED
  BY <1>1, <1>2 DEF PagesInv, PagesTypeOK, Steps, LivePages, LiveTags

\* Commit writes a live row, and relates live tags to live pages only.
LEMMA CommitTypes ==
    ASSUME PagesInv, NEW x \in Editors, Commit(x)
    PROVE  PagesTypeOK'
<1>1. PICK p, d, r, exists :
         /\ p = target[x] /\ d = diff[x] /\ r = draft[x]
         /\ exists = (step[x] # "update" \/ p \in LivePages)
  OBVIOUS
<1>2. p \in PageIDs /\ d \in TagsDiff /\ r \in Page /\ step[x] # "idle"
  BY <1>1 DEF Commit, PagesInv, PagesTypeOK
<1>3. r.status \in {"draft", "scheduled", "published"}
  BY <1>1, <1>2 DEF PagesInv, EditsAreSound, EditIsSound
<1>4. /\ \A t \in d.create : tag[t] = "new"
      /\ \A t \in d.relate : exists /\ tag[t] = "live" /\ <<p, t>> \notin tagged
      /\ tag' = [t \in TagNames |-> IF t \in d.create THEN "live" ELSE tag[t]]
      /\ tagged' = (tagged \cup ({p} \X d.relate)) \ ({p} \X d.remove)
      /\ page' = IF exists THEN [page EXCEPT ![p] = r] ELSE page
  BY <1>1 DEF Commit, AssociateTagsToPage
<1>5. page' \in [PageIDs -> Page] /\ tag' \in [TagNames -> {"new", "live", "deleted"}]
  BY <1>2, <1>4 DEF PagesInv, PagesTypeOK
<1>6. LivePages \subseteq LivePages' /\ LiveTags \subseteq LiveTags'
      /\ (exists => p \in LivePages')
  BY <1>2, <1>3, <1>4 DEF LivePages, LiveTags, PagesInv, PagesTypeOK
<1>7. d.relate \subseteq LiveTags
  BY <1>2, <1>4 DEF TagsDiff, LiveTags
<1>8. tagged' \subseteq LivePages' \X LiveTags'
  BY <1>4, <1>6, <1>7 DEF PagesInv, PagesTypeOK
<1>9. NewPage \in Page /\ NoDiff \in TagsDiff
  BY DEF NewPage, Page, PageStatus, NoDiff, TagsDiff
<1>10. /\ publishing' \in BOOLEAN /\ posted' \in [PageIDs -> Nat]
       /\ step' \in [Editors -> {"idle", "insert", "insert unsent", "update"}]
       /\ target' \in [Editors -> PageIDs \cup {NoPage}]
       /\ \A y \in Editors : step'[y] # "idle" => target'[y] \in PageIDs
       /\ draft' \in [Editors -> Page] /\ diff' \in [Editors -> TagsDiff]
       /\ outbox' \in [Editors \cup Publishers -> SUBSET PageIDs]
  BY <1>9 DEF Commit, PagesInv, PagesTypeOK
<1>11. missed' \subseteq PageIDs /\ stale' \subseteq PageIDs /\ raced' \subseteq PageIDs
       /\ lost' \subseteq PageIDs
  BY <1>1, <1>2 DEF Commit, PagesInv, PagesTypeOK
<1>12. introduced' \subseteq PageIDs \X TagNames
  <2>1. introduced' = (introduced \ ({p} \X d.relate)) \cup ({p} \X d.create)
    BY <1>1 DEF Commit
  <2> QED
    BY <1>2, <2>1 DEF PagesInv, PagesTypeOK, TagsDiff
<1> QED
  BY <1>5, <1>8, <1>10, <1>11, <1>12 DEF PagesTypeOK

\* The steps of the staff that are one transaction.
LEMMA StaffTypes ==
    ASSUME PagesInv,
           \/ \E p \in PageIDs : DeletePage(p) \/ DateComes(p)
           \/ \E t \in TagNames : CreateTag(t) \/ DeleteTag(t)
    PROVE  PagesTypeOK'
<1>0. PagesTypeOK
  BY DEF PagesInv
<1>1. ASSUME NEW p \in PageIDs, DeletePage(p) PROVE PagesTypeOK'
  <2>1. page' \in [PageIDs -> Page] /\ page' = [page EXCEPT ![p].status = "deleted"]
        /\ tagged' = {r \in tagged : r[1] # p}
    BY <1>0, <1>1 DEF DeletePage, PagesTypeOK, Page, PageStatus
  <2>2. LivePages \ {p} \subseteq LivePages'
    BY <1>0, <2>1 DEF LivePages, PagesTypeOK
  <2>3. tagged' \subseteq LivePages' \X LiveTags
    BY <1>0, <2>1, <2>2 DEF PagesTypeOK
  <2> QED
    BY <1>0, <1>1, <2>1, <2>3 DEF DeletePage, PagesTypeOK, editVars, pastVars, LiveTags
<1>2. ASSUME NEW p \in PageIDs, DateComes(p) PROVE PagesTypeOK'
  <2>1. page' \in [PageIDs -> Page] /\ page' = [page EXCEPT ![p].status = "due"]
    BY <1>0, <1>2 DEF DateComes, PagesTypeOK, Page, PageStatus
  <2>2. LivePages \subseteq LivePages'
    BY <1>0, <2>1 DEF LivePages, PagesTypeOK, Page
  <2> QED
    BY <1>0, <1>2, <2>1, <2>2 DEF DateComes, PagesTypeOK, editVars, pastVars, LiveTags
<1>3. ASSUME NEW t \in TagNames, CreateTag(t) PROVE PagesTypeOK'
  BY <1>0, <1>3 DEF CreateTag, PagesTypeOK, editVars, pastVars, LiveTags, LivePages
<1>4. ASSUME NEW t \in TagNames, DeleteTag(t) PROVE PagesTypeOK'
  <2>1. tag' = [tag EXCEPT ![t] = "deleted"] /\ tagged' = {r \in tagged : r[2] # t}
    BY <1>4 DEF DeleteTag
  <2>2. tagged' \subseteq LivePages \X LiveTags'
    BY <1>0, <2>1 DEF PagesTypeOK, LiveTags
  <2> QED
    BY <1>0, <1>4, <2>1, <2>2 DEF DeleteTag, PagesTypeOK, editVars, pastVars, LivePages
<1> QED
  BY <1>1, <1>2, <1>3, <1>4

\* The row that JobPublishPages writes for a page that is due.
LEMMA PublishedRow ==
    ASSUME PagesInv, NEW x \in Publishers, JobPublishPages(x), NEW p \in PageIDs
    PROVE  /\ page'[p] \in Page
           /\ page'[p].flag = page[p].flag /\ page'[p].hash = page[p].hash
           /\ page'[p].status = IF p \in DuePages THEN "published" ELSE page[p].status
           /\ page'[p].sent =
                (page[p].sent \/ p \in {q \in DuePages : page[q].flag /\ ~page[q].sent})
<1>1. page[p] \in Page
  BY DEF PagesInv, PagesTypeOK
<1>2. page'[p] =
        IF p \in DuePages
        THEN [page[p] EXCEPT !.status = "published",
                !.sent = @ \/ p \in {q \in DuePages : page[q].flag /\ ~page[q].sent}]
        ELSE page[p]
  BY DEF JobPublishPages
<1>3. CASE p \in DuePages
  BY <1>1, <1>2, <1>3 DEF Page, PageStatus
<1>4. CASE p \notin DuePages
  <2>1. page'[p] = page[p]
    BY <1>2, <1>4
  <2>2. ~(p \in {q \in DuePages : page[q].flag /\ ~page[q].sent})
    BY <1>4
  <2>3. page[p].sent \in BOOLEAN
    BY <1>1 DEF Page
  <2> QED
    BY <1>1, <1>4, <2>1, <2>2, <2>3
<1> QED
  BY <1>3, <1>4

\* Counting newsletters up to the bound.
LEMMA CountedType == \A k \in Nat : Counted(k) \in Nat
  BY PagesAssumption DEF Counted

LEMMA QueueTypes ==
    ASSUME PagesInv,
           \/ TaskPublishPages \/ \E x \in Editors : FailEdit(x)
           \/ \E x \in Publishers : JobPublishPages(x)
           \/ \E x \in Editors \cup Publishers :
                Die(x) \/ \E p \in PageIDs : PushNewsletter(x, p) \/ LoseNewsletter(x, p)
           \/ UNCHANGED pagesVars
    PROVE  PagesTypeOK'
<1> USE DEF pageVars, editVars, pastVars
<1>0. PagesTypeOK
  BY DEF PagesInv
<1>1. CASE TaskPublishPages
  BY <1>0, <1>1 DEF TaskPublishPages, PagesTypeOK, LivePages, LiveTags
<1>2. ASSUME NEW x \in Editors, FailEdit(x) PROVE PagesTypeOK'
  <2>1. NewPage \in Page /\ NoDiff \in TagsDiff
    BY DEF NewPage, Page, PageStatus, NoDiff, TagsDiff
  <2> QED
    BY <1>0, <1>2, <2>1 DEF FailEdit, PagesTypeOK, LivePages, LiveTags
<1>3. ASSUME NEW x \in Publishers, JobPublishPages(x) PROVE PagesTypeOK'
  <2>1. page' \in [PageIDs -> Page]
    <3>1. DOMAIN page' = PageIDs /\ page' = [p \in PageIDs |-> page'[p]]
      BY <1>3 DEF JobPublishPages
    <3> QED
      BY <1>3, <3>1, PublishedRow
  <2>2. LivePages' = LivePages
    BY <1>3, PublishedRow DEF LivePages, DuePages
  <2>3. outbox' \in [Editors \cup Publishers -> SUBSET PageIDs]
    BY <1>0, <1>3 DEF JobPublishPages, PagesTypeOK, DuePages
  <2> QED
    BY <1>0, <1>3, <2>1, <2>2, <2>3 DEF JobPublishPages, PagesTypeOK, LiveTags
<1>4. ASSUME NEW x \in Editors \cup Publishers, Die(x) PROVE PagesTypeOK'
  BY <1>0, <1>4 DEF Die, PagesTypeOK, LivePages, LiveTags
<1>5. ASSUME NEW x \in Editors \cup Publishers, NEW p \in PageIDs, PushNewsletter(x, p)
      PROVE  PagesTypeOK'
  <2>1. posted' \in [PageIDs -> Nat]
    <3>1. posted \in [PageIDs -> Nat]
      BY <1>0 DEF PagesTypeOK
    <3>2. posted[p] + 1 \in Nat
      BY <3>1
    <3>3. Counted(posted[p] + 1) \in Nat
      BY <3>2, CountedType
    <3>4. posted' = [posted EXCEPT ![p] = Counted(posted[p] + 1)]
      BY <1>5, <3>1 DEF PushNewsletter
    <3> QED
      BY <3>1, <3>3, <3>4
  <2> QED
    BY <1>0, <1>5, <2>1 DEF PushNewsletter, PagesTypeOK, LivePages, LiveTags
<1>6. ASSUME NEW x \in Editors \cup Publishers, NEW p \in PageIDs, LoseNewsletter(x, p)
      PROVE  PagesTypeOK'
  BY <1>0, <1>6 DEF LoseNewsletter, PagesTypeOK, LivePages, LiveTags
<1>7. CASE UNCHANGED pagesVars
  BY <1>0, <1>7 DEF pagesVars, PagesTypeOK, LivePages, LiveTags
<1> QED
  BY <1>1, <1>2, <1>3, <1>4, <1>5, <1>6, <1>7

-----------------------------------------------------------------------------
(* Pages: posts are sent once.                                             *)

\* What the posts, their jobs and the edits say of each other.
PostsInv ==
    /\ \A x \in Editors : IF step[x] = "idle" THEN target[x] = NoPage ELSE EditIsSound(x)
    /\ SentIsHanded /\ MarkIsKept /\ PublishedIsPosted

\* Who is handed on stays so; an edit that begins or fails sends nothing yet.
LEMMA SendingStays ==
    ASSUME PagesInv, UNCHANGED <<posted, lost, missed>>, NEW x \in Editors,
           \A y \in (Editors \cup Publishers) \ {x} : outbox'[y] = outbox[y],
           \A y \in Editors \ {x} : step'[y] = step[y],
           outbox' \in [Editors \cup Publishers -> SUBSET PageIDs],
           step[x] = "idle" => outbox[x] = {}, step'[x] = "idle" => outbox'[x] = {}
    PROVE  /\ \A p \in PageIDs : Sending(p)' = Sending(p)
           /\ \A p \in PageIDs : Handed(p)' = Handed(p)
<1>1. DOMAIN outbox' = Editors \cup Publishers /\ DOMAIN outbox = Editors \cup Publishers
  BY DEF PagesInv, PagesTypeOK
<1>2. ASSUME NEW p \in PageIDs PROVE Sending(p)' = Sending(p)
  BY <1>1 DEF Sending
<1> QED
  BY <1>2 DEF Handed

LEMMA BeginPosts ==
    ASSUME PagesInv, NEW x \in Editors, NEW p \in PageIDs, NEW s, NEW r, NEW d, NEW send,
           Begins(x, p, s, r, d, send)
    PROVE  PostsInv'
<1>1. /\ step' = [step EXCEPT ![x] = s] /\ target' = [target EXCEPT ![x] = p]
      /\ draft' = [draft EXCEPT ![x] = r]
      /\ outbox' = [outbox EXCEPT ![x] = IF send THEN {p} ELSE {}]
      /\ UNCHANGED <<page, posted, lost, missed, stale>>
  BY DEF Begins, Prepare, pageVars, pastVars
<1>2. s \in Steps /\ step[x] = "idle" /\ outbox[x] = {}
  BY DEF Begins
<1>3. PagesTypeOK /\ PagesTypeOK'
  BY BeginTypes DEF PagesInv
<1>4. /\ step'[x] = s /\ target'[x] = p /\ draft'[x] = r
      /\ outbox'[x] = IF send THEN {p} ELSE {}
      /\ \A y \in Editors \ {x} : /\ step'[y] = step[y] /\ target'[y] = target[y]
                                  /\ draft'[y] = draft[y]
      /\ \A y \in (Editors \cup Publishers) \ {x} : outbox'[y] = outbox[y]
  BY <1>1, <1>3 DEF PagesTypeOK
<1>5. /\ \A q \in PageIDs : Sending(q)' = Sending(q)
      /\ \A q \in PageIDs : Handed(q)' = Handed(q)
  BY <1>1, <1>2, <1>3, <1>4, SendingStays DEF PagesTypeOK, Steps
<1>6. SentIsHanded' /\ MarkIsKept' /\ PublishedIsPosted'
  BY <1>1, <1>5 DEF PagesInv, SentIsHanded, MarkIsKept, PublishedIsPosted
<1>7. EditIsSound(x)'
  <2>1. /\ r.status \in {"draft", "scheduled", "published"}
        /\ outbox'[x] # {} => outbox'[x] = {p} /\ r.sent
        /\ r.sent => outbox'[x] # {} \/ page[p].sent
        /\ r.status = "published" /\ r.flag => r.sent \/ s = "insert unsent"
        /\ s # "update" => page[p].status = "new" /\ \A y \in Editors \ {x} : target'[y] # p
    BY <1>4 DEF Begins
  <2>2. page[p].sent => Handed(p)'
    BY <1>5 DEF PagesInv, SentIsHanded
  <2>3. page' = page
    BY <1>1
  <2> QED
    BY <1>4, <2>1, <2>2, <2>3 DEF EditIsSound
<1>8. ASSUME NEW y \in Editors, y # x
      PROVE  IF step'[y] = "idle" THEN target'[y] = NoPage ELSE EditIsSound(y)'
  <2>1. CASE step[y] = "idle"
    BY <1>4, <1>8, <2>1 DEF PagesInv, EditsAreSound
  <2>2. CASE step[y] # "idle"
    <3>1. EditIsSound(y) /\ target[y] \in PageIDs
      BY <1>3, <2>2 DEF PagesInv, EditsAreSound, PagesTypeOK
    <3>2. step[y] # "update" => target[y] # p
      BY <3>1 DEF EditIsSound, Begins, LivePages
    <3>3. EditIsSound(y)'
      BY <1>1, <1>4, <1>5, <1>8, <3>1, <3>2 DEF EditIsSound
    <3> QED
      BY <1>4, <1>8, <2>2, <3>3
  <2> QED
    BY <2>1, <2>2
<1> QED
  BY <1>2, <1>4, <1>6, <1>7, <1>8 DEF PostsInv, Steps

\* What is written over a mark, or sent by two, is stale from then on; what isn't
\* was marked by one edit, which now sends it.
LEMMA CommitPosts ==
    ASSUME PagesInv, NEW x \in Editors, Commit(x)
    PROVE  PostsInv'
<1>1. PICK p, r, exists :
         /\ p = target[x] /\ r = draft[x]
         /\ exists = (step[x] # "update" \/ p \in LivePages)
  OBVIOUS
<1>2. /\ PagesTypeOK /\ PagesTypeOK' /\ SentIsHanded /\ MarkIsKept /\ PublishedIsPosted
      /\ step[x] # "idle" /\ p \in PageIDs /\ r \in Page /\ EditIsSound(x)
  BY <1>1, CommitTypes DEF Commit, PagesInv, PagesTypeOK, EditsAreSound
<1>3. /\ step'[x] = "idle" /\ target'[x] = NoPage /\ UNCHANGED <<posted, outbox, lost>>
      /\ \A y \in Editors \ {x} : /\ step'[y] = step[y] /\ target'[y] = target[y]
                                  /\ draft'[y] = draft[y]
  BY <1>2 DEF Commit, PagesTypeOK
<1>4. /\ \A q \in PageIDs \ {p} : page'[q] = page[q]
      /\ page'[p] = IF exists THEN r ELSE page[p]
  BY <1>1, <1>2 DEF Commit, PagesTypeOK
<1>5. missed' = IF step[x] = "insert unsent" THEN missed \cup {p} ELSE missed
  BY <1>1 DEF Commit
<1>6. stale' = IF (page[p].sent \/ ~exists) /\ (~r.sent \/ outbox[x] # {})
               THEN stale \cup {p} ELSE stale
  BY <1>1 DEF Commit
<1>7. /\ outbox[x] # {} => outbox[x] = {p} /\ r.sent
      /\ r.sent => outbox[x] # {} \/ Handed(p)
      /\ r.status = "published" /\ r.flag => r.sent \/ step[x] = "insert unsent"
  BY <1>1, <1>2 DEF EditIsSound
<1>8. DOMAIN outbox = Editors \cup Publishers
  BY <1>2 DEF PagesTypeOK
<1>9. \A q \in PageIDs \ {p} : Sending(q)' = Sending(q)
  BY <1>3, <1>7, <1>8 DEF Sending
<1>10. Sending(p)' = IF outbox[x] = {} THEN Sending(p) ELSE Sending(p) \cup {x}
  BY <1>2, <1>3, <1>7, <1>8 DEF Sending
<1>11. /\ \A q \in PageIDs : Handed(q) => Handed(q)'
       /\ outbox[x] # {} => Handed(p)'
  BY <1>2, <1>3, <1>5, <1>9, <1>10 DEF Handed
<1>12. SentIsHanded'
  <2>1. r.sent => Handed(p)'
    BY <1>2, <1>7, <1>11
  <2> QED
    BY <1>2, <1>4, <1>11, <2>1 DEF SentIsHanded
<1>13. PublishedIsPosted'
  <2>1. ASSUME NEW q \in PageIDs, page'[q].status = "published", page'[q].flag
        PROVE  Handed(q)'
    <3>1. CASE q = p /\ exists
      <4>1. r.sent => Handed(p)'
        BY <1>2, <1>7, <1>11
      <4>2. step[x] = "insert unsent" => Handed(p)'
        BY <1>5 DEF Handed
      <4> QED
        BY <1>4, <1>7, <2>1, <3>1, <4>1, <4>2
    <3>2. CASE q # p \/ ~exists
      <4>1. Handed(q)
        BY <1>2, <1>4, <2>1, <3>2 DEF PublishedIsPosted, Handed
      <4> QED
        BY <1>11, <4>1
    <3> QED
      BY <3>1, <3>2
  <2> QED
    BY <2>1 DEF PublishedIsPosted, Handed
<1>14. MarkIsKept'
  <2>1. ASSUME NEW q \in PageIDs \ stale', q # p
        PROVE  IF page'[q].sent
               THEN \/ posted[q] = 0 /\ \A y, z \in Sending(q)' : y = z
                    \/ posted[q] = 1 /\ Sending(q)' = {}
               ELSE posted[q] = 0 /\ Sending(q)' = {}
    <3>1. q \notin stale
      BY <1>6, <2>1
    <3> QED
      BY <1>2, <1>4, <1>9, <2>1, <3>1 DEF MarkIsKept
  <2>2. ASSUME p \notin stale'
        PROVE  IF page'[p].sent
               THEN \/ posted[p] = 0 /\ \A y, z \in Sending(p)' : y = z
                    \/ posted[p] = 1 /\ Sending(p)' = {}
               ELSE posted[p] = 0 /\ Sending(p)' = {}
    <3>1. p \notin stale /\ ((page[p].sent \/ ~exists) => r.sent /\ outbox[x] = {})
      BY <1>6, <2>2
    <3>2. IF page[p].sent
          THEN \/ posted[p] = 0 /\ \A y, z \in Sending(p) : y = z
               \/ posted[p] = 1 /\ Sending(p) = {}
          ELSE posted[p] = 0 /\ Sending(p) = {}
      BY <1>2, <3>1 DEF MarkIsKept
    <3>3. CASE outbox[x] = {}
      BY <1>4, <1>10, <3>1, <3>2, <3>3
    <3>4. CASE outbox[x] # {}
      BY <1>4, <1>7, <1>10, <3>1, <3>2, <3>4
    <3> QED
      BY <3>3, <3>4
  <2> QED
    BY <1>3, <2>1, <2>2 DEF MarkIsKept
<1>15. ASSUME NEW y \in Editors
       PROVE  IF step'[y] = "idle" THEN target'[y] = NoPage ELSE EditIsSound(y)'
  <2>1. CASE y = x
    BY <1>3, <2>1
  <2>2. CASE y # x /\ step[y] = "idle"
    BY <1>3, <2>2 DEF PagesInv, EditsAreSound
  <2>3. CASE y # x /\ step[y] # "idle"
    <3>1. EditIsSound(y) /\ target[y] \in PageIDs
      BY <1>2, <2>3 DEF PagesInv, EditsAreSound, PagesTypeOK
    <3>2. step[y] # "update" => target[y] # p
      BY <1>1, <2>3, <3>1 DEF EditIsSound
    <3>3. step[y] # "update" =>
            page'[target[y]].status = "new" /\ \A z \in Editors \ {y} : target'[z] # target[y]
      BY <1>3, <1>4, <3>1, <3>2, PagesAssumption DEF EditIsSound
    <3>4. EditIsSound(y)'
      BY <1>3, <1>11, <2>3, <3>1, <3>3 DEF EditIsSound
    <3> QED
      BY <1>3, <2>3, <3>4
  <2> QED
    BY <2>1, <2>2, <2>3
<1> QED
  BY <1>12, <1>13, <1>14, <1>15 DEF PostsInv

\* An edit that fails had sent nothing.
LEMMA FailPosts ==
    ASSUME PagesInv, NEW x \in Editors, FailEdit(x)
    PROVE  PostsInv'
<1>1. /\ step[x] # "idle" /\ step'[x] = "idle" /\ target'[x] = NoPage /\ outbox'[x] = {}
      /\ UNCHANGED <<page, posted, lost, missed, stale>>
      /\ \A y \in Editors \ {x} : /\ step'[y] = step[y] /\ target'[y] = target[y]
                                  /\ draft'[y] = draft[y]
      /\ \A y \in (Editors \cup Publishers) \ {x} : outbox'[y] = outbox[y]
      /\ outbox' \in [Editors \cup Publishers -> SUBSET PageIDs]
  BY DEF FailEdit, PagesInv, PagesTypeOK, pageVars, pastVars
<1>2. /\ \A q \in PageIDs : Sending(q)' = Sending(q)
      /\ \A q \in PageIDs : Handed(q)' = Handed(q)
  BY <1>1, SendingStays
<1>3. SentIsHanded' /\ MarkIsKept' /\ PublishedIsPosted'
  BY <1>1, <1>2 DEF PagesInv, SentIsHanded, MarkIsKept, PublishedIsPosted
<1>4. ASSUME NEW y \in Editors
      PROVE  IF step'[y] = "idle" THEN target'[y] = NoPage ELSE EditIsSound(y)'
  <2>1. CASE y = x
    BY <1>1, <2>1
  <2>2. CASE y # x /\ step[y] = "idle"
    BY <1>1, <2>2 DEF PagesInv, EditsAreSound
  <2>3. CASE y # x /\ step[y] # "idle"
    <3>1. EditIsSound(y) /\ target[y] \in PageIDs
      BY <2>3 DEF PagesInv, EditsAreSound, PagesTypeOK
    <3>2. step[y] # "update" =>
            page'[target[y]].status = "new" /\ \A z \in Editors \ {y} : target'[z] # target[y]
      BY <1>1, <3>1, PagesAssumption DEF EditIsSound
    <3>3. EditIsSound(y)'
      BY <1>1, <1>2, <2>3, <3>1, <3>2 DEF EditIsSound
    <3> QED
      BY <1>1, <2>3, <3>3
  <2> QED
    BY <2>1, <2>2, <2>3
<1> QED
  BY <1>3, <1>4 DEF PostsInv

\* The other steps leave the edits as they are: what they say still holds if what
\* was handed on stays so, and no page is made new, or ceases to be.
LEMMA EditsStay ==
    ASSUME PagesInv, UNCHANGED <<step, target, draft>>,
           \A y \in Editors : step[y] # "idle" => outbox'[y] = outbox[y],
           \A q \in PageIDs : Handed(q) => Handed(q)',
           \A q \in PageIDs : page[q].status = "new" => page'[q].status = "new"
    PROVE  \A y \in Editors :
               IF step'[y] = "idle" THEN target'[y] = NoPage ELSE EditIsSound(y)'
<1> SUFFICES ASSUME NEW y \in Editors
             PROVE  IF step'[y] = "idle" THEN target'[y] = NoPage ELSE EditIsSound(y)'
  OBVIOUS
<1>1. CASE step[y] = "idle"
  BY <1>1 DEF PagesInv, EditsAreSound
<1>2. CASE step[y] # "idle"
  <2>1. EditIsSound(y) /\ target[y] \in PageIDs
    BY <1>2 DEF PagesInv, EditsAreSound, PagesTypeOK
  <2> QED
    BY <1>2, <2>1 DEF EditIsSound
<1> QED
  BY <1>1, <1>2

LEMMA StaffPosts ==
    ASSUME PagesInv,
           \/ \E p \in PageIDs : DeletePage(p) \/ DateComes(p)
           \/ \E t \in TagNames : CreateTag(t) \/ DeleteTag(t)
           \/ TaskPublishPages \/ UNCHANGED pagesVars
    PROVE  PostsInv'
<1> USE DEF pageVars, editVars, pastVars
<1>1. UNCHANGED <<posted, step, target, draft, outbox, lost, missed, stale>>
  BY DEF DeletePage, DateComes, CreateTag, DeleteTag, TaskPublishPages, pagesVars
<1>2. ASSUME NEW q \in PageIDs
      PROVE  /\ page'[q].sent = page[q].sent /\ page'[q].flag = page[q].flag
             /\ page'[q].status = "published" => page[q].status = "published"
             /\ page[q].status = "new" => page'[q].status = "new"
  <2>1. page \in [PageIDs -> Page]
    BY DEF PagesInv, PagesTypeOK
  <2>2. ASSUME NEW p \in PageIDs, DeletePage(p)
        PROVE  /\ page'[q].sent = page[q].sent /\ page'[q].flag = page[q].flag
               /\ page'[q].status = "published" => page[q].status = "published"
               /\ page[q].status = "new" => page'[q].status = "new"
    BY <2>1, <2>2 DEF DeletePage, Page, LivePages
  <2>3. ASSUME NEW p \in PageIDs, DateComes(p)
        PROVE  /\ page'[q].sent = page[q].sent /\ page'[q].flag = page[q].flag
               /\ page'[q].status = "published" => page[q].status = "published"
               /\ page[q].status = "new" => page'[q].status = "new"
    BY <2>1, <2>3 DEF DateComes, Page
  <2>4. CASE page' = page
    BY <2>4
  <2> QED
    BY <2>2, <2>3, <2>4 DEF CreateTag, DeleteTag, TaskPublishPages, pagesVars
<1>3. \A q \in PageIDs : Sending(q)' = Sending(q)
  BY <1>1 DEF Sending
<1>4. \A q \in PageIDs : Handed(q)' = Handed(q)
  BY <1>1, <1>3 DEF Handed
<1>5. SentIsHanded' /\ MarkIsKept' /\ PublishedIsPosted'
  BY <1>1, <1>2, <1>3, <1>4 DEF PagesInv, SentIsHanded, MarkIsKept, PublishedIsPosted
<1> QED
  BY <1>1, <1>2, <1>4, <1>5, EditsStay DEF PostsInv

\* The job marks the posts that it is going to send, and none that was marked.
LEMMA PublishPosts ==
    ASSUME PagesInv, NEW x \in Publishers, JobPublishPages(x)
    PROVE  PostsInv'
<1>1. PICK sending : sending = {q \in DuePages : page[q].flag /\ ~page[q].sent}
  OBVIOUS
<1>2. /\ UNCHANGED <<posted, step, target, draft, lost, missed, stale>>
      /\ outbox[x] = {} /\ outbox' = [outbox EXCEPT ![x] = sending]
  BY <1>1 DEF JobPublishPages, editVars, pastVars
<1>3. /\ DOMAIN outbox = Editors \cup Publishers /\ x \notin Editors
      /\ \A q \in PageIDs : page[q].sent \in BOOLEAN
  BY PagesAssumption DEF PagesInv, PagesTypeOK, Page
<1>4. ASSUME NEW q \in PageIDs
      PROVE  /\ page'[q].flag = page[q].flag /\ page'[q].sent = (page[q].sent \/ q \in sending)
             /\ page'[q].status = IF q \in DuePages THEN "published" ELSE page[q].status
  BY <1>1, PublishedRow
<1>5. ASSUME NEW q \in PageIDs
      PROVE  Sending(q)' = IF q \in sending THEN Sending(q) \cup {x} ELSE Sending(q)
  BY <1>2, <1>3 DEF Sending
<1>6. \A q \in PageIDs : (Handed(q) => Handed(q)') /\ (q \in sending => Handed(q)')
  BY <1>2, <1>5 DEF Handed
<1>7. SentIsHanded'
  BY <1>4, <1>6 DEF PagesInv, SentIsHanded
<1>8. PublishedIsPosted'
  <2>1. ASSUME NEW q \in PageIDs, page'[q].status = "published", page'[q].flag
        PROVE  Handed(q)'
    <3>1. CASE q \in DuePages
      <4>1. q \in sending \/ page[q].sent
        BY <1>1, <1>4, <2>1, <3>1
      <4> QED
        BY <1>6, <4>1 DEF PagesInv, SentIsHanded
    <3>2. CASE q \notin DuePages
      <4>1. Handed(q)
        BY <1>4, <2>1, <3>2 DEF PagesInv, PublishedIsPosted, Handed
      <4> QED
        BY <1>6, <4>1
    <3> QED
      BY <3>1, <3>2
  <2> QED
    BY <2>1 DEF PublishedIsPosted, Handed
<1>9. MarkIsKept'
  <2>1. ASSUME NEW q \in PageIDs \ stale
        PROVE  IF page'[q].sent
               THEN \/ posted[q] = 0 /\ \A y, z \in Sending(q)' : y = z
                    \/ posted[q] = 1 /\ Sending(q)' = {}
               ELSE posted[q] = 0 /\ Sending(q)' = {}
    <3>1. IF page[q].sent
          THEN \/ posted[q] = 0 /\ \A y, z \in Sending(q) : y = z
               \/ posted[q] = 1 /\ Sending(q) = {}
          ELSE posted[q] = 0 /\ Sending(q) = {}
      BY <2>1 DEF PagesInv, MarkIsKept
    <3>2. CASE q \in sending
      <4>1. ~page[q].sent
        BY <1>1, <3>2
      <4> QED
        BY <1>4, <1>5, <3>1, <3>2, <4>1
    <3>3. CASE q \notin sending
      <4>1. page'[q].sent = page[q].sent
        BY <1>3, <1>4, <3>3
      <4> QED
        BY <1>5, <3>1, <3>3, <4>1
    <3> QED
      BY <3>2, <3>3
  <2> QED
    BY <1>2, <2>1 DEF MarkIsKept
<1>10. \A q \in PageIDs : page[q].status = "new" => page'[q].status = "new"
  BY <1>4 DEF DuePages
<1>11. \A y \in Editors : outbox'[y] = outbox[y]
  BY <1>2, <1>3
<1> QED
  BY <1>2, <1>6, <1>7, <1>8, <1>9, <1>10, <1>11, EditsStay DEF PostsInv

\* A job that was to be pushed is, or is lost.
LEMMA QueuePosts ==
    ASSUME PagesInv, NEW x \in Editors \cup Publishers,
           Die(x) \/ \E p \in PageIDs : PushNewsletter(x, p) \/ LoseNewsletter(x, p)
    PROVE  PostsInv'
<1> USE DEF pageVars, editVars, pastVars
<1>1. /\ UNCHANGED <<page, step, target, draft, missed, stale>>
      /\ x \in Editors => step[x] = "idle"
  BY DEF Die, PushNewsletter, LoseNewsletter
<1>2. /\ DOMAIN outbox = Editors \cup Publishers /\ outbox'[x] \subseteq outbox[x]
      /\ DOMAIN outbox' = Editors \cup Publishers
      /\ \A y \in (Editors \cup Publishers) \ {x} : outbox'[y] = outbox[y]
  <2>1. outbox \in [Editors \cup Publishers -> SUBSET PageIDs]
    BY DEF PagesInv, PagesTypeOK
  <2>2. PICK sent \in SUBSET outbox[x] : outbox' = [outbox EXCEPT ![x] = sent]
    <3>1. CASE Die(x)
      BY <3>1 DEF Die
    <3>2. ASSUME NEW p \in PageIDs, PushNewsletter(x, p) \/ LoseNewsletter(x, p)
          PROVE  outbox' = [outbox EXCEPT ![x] = outbox[x] \ {p}]
      BY <2>1, <3>2 DEF PushNewsletter, LoseNewsletter
    <3> QED
      BY <3>1, <3>2
  <2> QED
    BY <2>1, <2>2
<1>3. ASSUME NEW q \in PageIDs
      PROVE  /\ Sending(q)' = IF q \in outbox[x] \ outbox'[x] THEN Sending(q) \ {x} ELSE Sending(q)
             /\ q \in outbox[x] => x \in Sending(q)
  BY <1>1, <1>2 DEF Sending
<1>4. ASSUME NEW q \in PageIDs
      PROVE  /\ posted[q] \in Nat /\ posted'[q] \in Nat
             /\ \/ posted'[q] = posted[q]
                \/ q \in outbox[x] \ outbox'[x] /\ posted'[q] = Counted(posted[q] + 1)
             /\ q \in outbox[x] \ outbox'[x] => q \in lost' \/ posted'[q] = Counted(posted[q] + 1)
  <2>1. posted \in [PageIDs -> Nat] /\ posted' \in [PageIDs -> Nat]
    BY QueueTypes DEF PagesInv, PagesTypeOK
  <2>2. CASE Die(x)
    BY <2>1, <2>2 DEF Die, PagesInv, PagesTypeOK
  <2>3. ASSUME NEW p \in PageIDs, LoseNewsletter(x, p)
        PROVE  q \in outbox[x] \ outbox'[x] => q \in lost'
    BY <2>3, <1>2 DEF LoseNewsletter, PagesInv, PagesTypeOK
  <2>4. ASSUME NEW p \in PageIDs, PushNewsletter(x, p)
        PROVE  /\ posted'[q] = IF q = p THEN Counted(posted[q] + 1) ELSE posted[q]
               /\ p \in outbox[x] \ outbox'[x]
               /\ q \in outbox[x] \ outbox'[x] => q = p
    BY <2>4, <1>2 DEF PushNewsletter, PagesInv, PagesTypeOK
  <2> QED
    BY <2>1, <2>2, <2>3, <2>4 DEF LoseNewsletter, PagesInv, PagesTypeOK
<1>5. \A k \in Nat : (k > 0 => Counted(k) > 0) /\ Counted(1) = 1
  BY PagesAssumption DEF Counted
<1>6. lost \subseteq lost'
  BY DEF Die, PushNewsletter, LoseNewsletter
<1>7. ASSUME NEW q \in PageIDs, Handed(q) PROVE Handed(q)'
  <2>1. posted[q] > 0 => posted'[q] > 0
    BY <1>4, <1>5
  <2>2. CASE q \in outbox[x] \ outbox'[x]
    <3>1. posted'[q] = Counted(posted[q] + 1) => posted'[q] > 0
      BY <1>4, <1>5
    <3> QED
      BY <1>4, <2>2, <3>1 DEF Handed
  <2>3. CASE q \notin outbox[x] \ outbox'[x]
    BY <1>1, <1>3, <1>6, <1>7, <2>1, <2>3 DEF Handed
  <2> QED
    BY <2>2, <2>3
<1>8. SentIsHanded' /\ PublishedIsPosted'
  BY <1>1, <1>7 DEF PagesInv, SentIsHanded, PublishedIsPosted, Handed
<1>9. MarkIsKept'
  <2>1. ASSUME NEW q \in PageIDs \ stale
        PROVE  IF page[q].sent
               THEN \/ posted'[q] = 0 /\ \A y, z \in Sending(q)' : y = z
                    \/ posted'[q] = 1 /\ Sending(q)' = {}
               ELSE posted'[q] = 0 /\ Sending(q)' = {}
    <3>1. IF page[q].sent
          THEN \/ posted[q] = 0 /\ \A y, z \in Sending(q) : y = z
               \/ posted[q] = 1 /\ Sending(q) = {}
          ELSE posted[q] = 0 /\ Sending(q) = {}
      BY <2>1 DEF PagesInv, MarkIsKept
    <3>2. CASE q \in outbox[x] \ outbox'[x]
      <4>1. page[q].sent /\ posted[q] = 0 /\ Sending(q) = {x}
        BY <1>3, <3>1, <3>2
      <4>2. posted'[q] \in {0, 1} /\ Sending(q)' = {}
        BY <1>3, <1>4, <1>5, <3>2, <4>1
      <4> QED
        BY <4>1, <4>2
    <3>3. CASE q \notin outbox[x] \ outbox'[x]
      BY <1>3, <1>4, <3>1, <3>3
    <3> QED
      BY <3>2, <3>3
  <2> QED
    BY <1>1, <2>1 DEF MarkIsKept
<1>10. \A y \in Editors : step[y] # "idle" => outbox'[y] = outbox[y]
  BY <1>1, <1>2
<1> QED
  BY <1>1, <1>7, <1>8, <1>9, <1>10, EditsStay DEF PostsInv

-----------------------------------------------------------------------------
(* Pages: a page has the tags it was saved with.                           *)

DiffHolds(x) ==
    step[x] # "idle" => ((step[x] = "update" => target[x] \in LivePages \ raced) => DiffIsSound(x))

TagsInv == (\A x \in Editors : DiffHolds(x)) /\ TagsAreAsked

LEMMA InvIsBoth ==
    /\ PagesInv => PostsInv /\ TagsInv
    /\ PagesTypeOK /\ PostsInv /\ TagsInv => PagesInv
<1>1. EditsAreSound <=>
        \A x \in Editors : /\ IF step[x] = "idle" THEN target[x] = NoPage ELSE EditIsSound(x)
                           /\ DiffHolds(x)
  BY DEF EditsAreSound, DiffHolds
<1> QED
  BY <1>1 DEF PagesInv, PostsInv, TagsInv

\* An edit stays sound while the tags of its page are only deleted, and deleted
\* tags aren't made again.
LEMMA DiffStays ==
    ASSUME PagesInv, NEW y \in Editors, step[y] # "idle", DiffHolds(y),
           step'[y] = step[y], target'[y] = target[y], draft'[y] = draft[y],
           diff'[y] = diff[y],
           step[y] = "update" /\ target[y] \in LivePages' \ raced' =>
               target[y] \in LivePages \ raced,
           step[y] # "update" \/ target[y] \in LivePages' \ raced' =>
               /\ TagsOf(target[y])' \subseteq TagsOf(target[y])
               /\ \A t \in TagsOf(target[y]) \ TagsOf(target[y])' : tag'[t] = "deleted",
           \A t \in TagNames : tag[t] = "deleted" => tag'[t] = "deleted"
    PROVE  DiffHolds(y)'
<1> SUFFICES ASSUME step[y] = "update" => target[y] \in LivePages' \ raced'
             PROVE  DiffIsSound(y)'
  BY DEF DiffHolds
<1>1. DiffIsSound(y)
  BY DEF DiffHolds
<1>2. PICK q, T, B, A, d : /\ q = target[y] /\ T = draft[y].hash /\ d = diff[y]
                           /\ B = TagsOf(q) /\ A = TagsOf(target[y])'
  OBVIOUS
<1>3. T \subseteq TagNames
  BY <1>2 DEF PagesInv, PagesTypeOK, Page
<1>5. A \subseteq B /\ \A t \in B \ A : tag'[t] = "deleted"
  BY <1>2
<1>6. /\ d.create \cup d.relate \subseteq T /\ d.remove \cap T = {}
      /\ B \ d.remove \subseteq T
      /\ \A t \in T \ (d.create \cup d.relate) : t \in B \/ tag[t] = "deleted"
  BY <1>1, <1>2 DEF DiffIsSound
<1>7. /\ A \ d.remove \subseteq T
      /\ \A t \in T \ (d.create \cup d.relate) : t \in A \/ tag'[t] = "deleted"
  BY <1>3, <1>5, <1>6
<1> QED
  BY <1>2, <1>6, <1>7 DEF DiffIsSound

LEMMA BeginTags ==
    ASSUME PagesInv, NEW x \in Editors, NEW p \in PageIDs, NEW s, NEW r, NEW d, NEW send,
           Begins(x, p, s, r, d, send)
    PROVE  TagsInv'
<1>1. /\ step' = [step EXCEPT ![x] = s] /\ target' = [target EXCEPT ![x] = p]
      /\ draft' = [draft EXCEPT ![x] = r] /\ diff' = [diff EXCEPT ![x] = d]
      /\ UNCHANGED <<page, tag, tagged, raced, introduced>>
  BY DEF Begins, Prepare, pageVars, pastVars
<1>2. /\ step'[x] = s /\ target'[x] = p /\ draft'[x] = r /\ diff'[x] = d
      /\ \A y \in Editors \ {x} : /\ step'[y] = step[y] /\ target'[y] = target[y]
                                  /\ draft'[y] = draft[y] /\ diff'[y] = diff[y]
  BY <1>1 DEF PagesInv, PagesTypeOK
<1>3. \A q : TagsOf(q)' = TagsOf(q)
  BY <1>1 DEF TagsOf
<1>4. LivePages' = LivePages
  BY <1>1 DEF LivePages
<1>5. TagsAreAsked'
  BY <1>1, <1>3, <1>4 DEF PagesInv, TagsAreAsked
<1>6. DiffHolds(x)'
  <2>1. d = DiffTags(TagsOf(p), r.hash) /\ r \in Page
    BY DEF Begins
  <2>2. PICK T, C : T = r.hash /\ C = TagsOf(p)
    OBVIOUS
  <2>3. /\ d.create = T \ (C \cup LiveTags) /\ d.relate = (T \cap LiveTags) \ C
        /\ d.remove = C \ T
    BY <2>1, <2>2 DEF DiffTags
  <2>4. /\ d.create \cup d.relate \subseteq T /\ d.remove \cap T = {}
        /\ C \ d.remove \subseteq T
        /\ \A t \in T \ (d.create \cup d.relate) : t \in C
    BY <2>3
  <2>5. TagsOf(target[x])' = C
    BY <1>1, <1>2, <2>2 DEF TagsOf
  <2>6. DiffIsSound(x)'
    BY <1>2, <2>2, <2>4, <2>5 DEF DiffIsSound
  <2> QED
    BY <2>6 DEF DiffHolds
<1>7. ASSUME NEW y \in Editors, y # x PROVE DiffHolds(y)'
  <2>1. CASE step[y] = "idle"
    BY <1>2, <1>7, <2>1 DEF DiffHolds
  <2>2. CASE step[y] # "idle"
    <3>1. DiffHolds(y)
      BY InvIsBoth DEF TagsInv
    <3> QED
      BY <1>1, <1>2, <1>3, <1>4, <1>7, <2>2, <3>1, DiffStays
  <2> QED
    BY <2>1, <2>2
<1> QED
  BY <1>5, <1>6, <1>7 DEF TagsInv

\* The commit leads to the tags that were asked for, or the page is raced.
LEMMA CommitTags ==
    ASSUME PagesInv, NEW x \in Editors, Commit(x)
    PROVE  TagsInv'
<1>1. PICK p, d, T, exists, B :
         /\ p = target[x] /\ d = diff[x] /\ T = draft[x].hash /\ B = TagsOf(p)
         /\ exists = (step[x] # "update" \/ p \in LivePages)
  OBVIOUS
<1>2. /\ p \in PageIDs /\ d \in TagsDiff /\ step[x] # "idle" /\ T \in SUBSET TagNames
      /\ EditIsSound(x) /\ DiffHolds(x)
  BY <1>1, InvIsBoth DEF Commit, PagesInv, PagesTypeOK, EditsAreSound, TagsInv, Page
<1>3. /\ \A t \in d.create : tag[t] = "new"
      /\ tag' = [t \in TagNames |-> IF t \in d.create THEN "live" ELSE tag[t]]
      /\ tagged' = (tagged \cup ({p} \X d.relate)) \ ({p} \X d.remove)
      /\ page' = IF exists THEN [page EXCEPT ![p] = draft[x]] ELSE page
  BY <1>1 DEF Commit, AssociateTagsToPage
<1>4. /\ raced' = IF \E y \in Editors \ {x} : target[y] = p THEN raced \cup {p} ELSE raced
      /\ introduced' = (introduced \ ({p} \X d.relate)) \cup ({p} \X d.create)
  BY <1>1 DEF Commit
<1>5. /\ step'[x] = "idle"
      /\ \A y \in Editors \ {x} : /\ step'[y] = step[y] /\ target'[y] = target[y]
                                  /\ draft'[y] = draft[y] /\ diff'[y] = diff[y]
  BY DEF Commit, PagesInv, PagesTypeOK
<1>6. \A t \in TagNames : tag[t] = "deleted" => tag'[t] = "deleted"
  BY <1>3
<1>7. /\ \A q \in PageIDs \ {p} : page'[q] = page[q] /\ TagsOf(q)' = TagsOf(q)
      /\ TagsOf(p)' = (B \cup d.relate) \ d.remove
  <2>1. \A q \in PageIDs \ {p} : page'[q] = page[q]
    BY <1>2, <1>3 DEF PagesInv, PagesTypeOK
  <2>2. \A q, t : <<q, t>> \in tagged' <=>
          (<<q, t>> \in tagged \/ (q = p /\ t \in d.relate)) /\ ~(q = p /\ t \in d.remove)
    BY <1>3
  <2>3. \A q \in PageIDs \ {p} : TagsOf(q)' = TagsOf(q)
    BY <2>2 DEF TagsOf
  <2>4. TagsOf(p)' = (B \cup d.relate) \ d.remove
    BY <1>1, <1>2, <2>2 DEF TagsOf, TagsDiff
  <2> QED
    BY <2>1, <2>3, <2>4
<1>8. \A q \in PageIDs \ {p} : (q \in LivePages' <=> q \in LivePages)
  BY <1>7 DEF LivePages
<1>9. TagsAreAsked'
  <2>1. ASSUME NEW q \in LivePages' \ raced', q # p
        PROVE  /\ TagsOf(q)' \subseteq page'[q].hash
               /\ \A t \in page'[q].hash \ TagsOf(q)' :
                    tag'[t] = "deleted" \/ <<q, t>> \in introduced'
    <3>1. q \in PageIDs /\ q \in LivePages \ raced /\ page'[q] = page[q] /\ TagsOf(q)' = TagsOf(q)
      BY <1>4, <1>7, <1>8, <2>1 DEF LivePages
    <3>2. page[q].hash \subseteq TagNames
      BY <3>1 DEF PagesInv, PagesTypeOK, Page
    <3>3. /\ TagsOf(q) \subseteq page[q].hash
          /\ \A t \in page[q].hash \ TagsOf(q) : tag[t] = "deleted" \/ <<q, t>> \in introduced
      BY <3>1 DEF PagesInv, TagsAreAsked
    <3>4. \A t : <<q, t>> \in introduced => <<q, t>> \in introduced'
      BY <1>4, <2>1
    <3> QED
      BY <1>6, <3>1, <3>2, <3>3, <3>4
  <2>2. ASSUME p \in LivePages' \ raced'
        PROVE  /\ TagsOf(p)' \subseteq page'[p].hash
               /\ \A t \in page'[p].hash \ TagsOf(p)' :
                    tag'[t] = "deleted" \/ <<p, t>> \in introduced'
    <3>1. exists
      BY <1>1, <1>3, <2>2 DEF LivePages
    <3>2. page'[p].hash = T
      BY <1>1, <1>2, <1>3, <3>1 DEF PagesInv, PagesTypeOK
    <3>3. p \notin raced
      BY <1>4, <2>2
    <3>4. DiffIsSound(x)
      BY <1>1, <1>2, <3>1, <3>3 DEF DiffHolds
    <3>5. /\ d.create \cup d.relate \subseteq T /\ d.remove \cap T = {}
          /\ B \ d.remove \subseteq T
          /\ \A t \in T \ (d.create \cup d.relate) : t \in B \/ tag[t] = "deleted"
      BY <1>1, <3>4 DEF DiffIsSound
    <3>6. \A t \in d.create : <<p, t>> \in introduced'
      BY <1>4
    <3>7. (B \cup d.relate) \ d.remove \subseteq T
      BY <3>5
    <3>8. \A t \in T \ ((B \cup d.relate) \ d.remove) :
            tag'[t] = "deleted" \/ <<p, t>> \in introduced'
      BY <1>2, <1>6, <3>5, <3>6
    <3> QED
      BY <1>7, <3>2, <3>7, <3>8
  <2> QED
    BY <2>1, <2>2 DEF TagsAreAsked
<1>10. ASSUME NEW y \in Editors PROVE DiffHolds(y)'
  <2>1. CASE y = x \/ step[y] = "idle"
    BY <1>5, <2>1 DEF DiffHolds
  <2>2. CASE y # x /\ step[y] # "idle" /\ target[y] = p
    <3>1. step[y] = "update"
      <4>1. EditIsSound(y)
        BY <2>2 DEF PagesInv, EditsAreSound
      <4> QED
        BY <1>1, <2>2, <4>1 DEF EditIsSound
    <3>2. p \in raced'
      BY <1>4, <2>2
    <3> QED
      BY <1>5, <2>2, <3>1, <3>2 DEF DiffHolds
  <2>3. CASE y # x /\ step[y] # "idle" /\ target[y] # p
    <3>1. DiffHolds(y) /\ target[y] \in PageIDs \ {p}
      BY <2>3, InvIsBoth DEF TagsInv, PagesInv, PagesTypeOK
    <3>2. target[y] \in LivePages' \ raced' => target[y] \in LivePages \ raced
      BY <1>4, <1>8, <3>1
    <3>3. TagsOf(target[y])' = TagsOf(target[y])
      <4>1. PICK q \in PageIDs \ {p} : q = target[y]
        BY <3>1
      <4>2. TagsOf(q)' = TagsOf(q)
        BY <1>7
      <4> QED
        BY <1>5, <2>3, <4>1, <4>2 DEF TagsOf
    <3> QED
      BY <1>5, <1>6, <2>3, <3>1, <3>2, <3>3, DiffStays
  <2> QED
    BY <2>1, <2>2, <2>3
<1> QED
  BY <1>9, <1>10 DEF TagsInv

LEMMA FailTags ==
    ASSUME PagesInv, NEW x \in Editors, FailEdit(x)
    PROVE  TagsInv'
<1>1. /\ step'[x] = "idle" /\ UNCHANGED <<page, tag, tagged, raced, introduced>>
      /\ \A y \in Editors \ {x} : /\ step'[y] = step[y] /\ target'[y] = target[y]
                                  /\ draft'[y] = draft[y] /\ diff'[y] = diff[y]
  BY DEF FailEdit, PagesInv, PagesTypeOK, pageVars, pastVars
<1>2. TagsAreAsked'
  BY <1>1 DEF PagesInv, TagsAreAsked, TagsOf, LivePages
<1>3. ASSUME NEW y \in Editors PROVE DiffHolds(y)'
  <2>1. CASE y = x \/ step[y] = "idle"
    BY <1>1, <2>1 DEF DiffHolds
  <2>2. CASE y # x /\ step[y] # "idle"
    <3>1. DiffHolds(y)
      BY InvIsBoth DEF TagsInv
    <3>2. TagsOf(target[y])' = TagsOf(target[y]) /\ LivePages' = LivePages
      BY <1>1, <2>2 DEF TagsOf, LivePages
    <3> QED
      BY <1>1, <2>2, <3>1, <3>2, DiffStays
  <2> QED
    BY <2>1, <2>2
<1> QED
  BY <1>2, <1>3 DEF TagsInv

\* Where no edit begins or ends, tags only leave a page when they are deleted.
LEMMA TagsStay ==
    ASSUME PagesInv, UNCHANGED <<step, target, draft, diff, raced, introduced>>,
           \A q \in PageIDs :
               /\ page'[q].hash = page[q].hash
               /\ q \in LivePages' => q \in LivePages
               /\ q \in LivePages' \/ page[q].status = "new" =>
                    /\ TagsOf(q)' \subseteq TagsOf(q)
                    /\ \A t \in TagsOf(q) \ TagsOf(q)' : tag'[t] = "deleted",
           \A t \in TagNames : tag[t] = "deleted" => tag'[t] = "deleted"
    PROVE  TagsInv'
<1>1. LivePages' \subseteq PageIDs /\ \A q \in PageIDs : page[q].hash \subseteq TagNames
  BY DEF LivePages, PagesInv, PagesTypeOK, Page
<1>2. ASSUME NEW q \in LivePages' \ raced'
      PROVE  /\ TagsOf(q)' \subseteq page'[q].hash
             /\ \A t \in page'[q].hash \ TagsOf(q)' :
                  tag'[t] = "deleted" \/ <<q, t>> \in introduced'
  <2>1. q \in PageIDs /\ q \in LivePages \ raced
    BY <1>1, <1>2
  <2>2. /\ TagsOf(q) \subseteq page[q].hash
        /\ \A t \in page[q].hash \ TagsOf(q) : tag[t] = "deleted" \/ <<q, t>> \in introduced
    BY <2>1 DEF PagesInv, TagsAreAsked
  <2>3. /\ TagsOf(q)' \subseteq TagsOf(q)
        /\ \A t \in TagsOf(q) \ TagsOf(q)' : tag'[t] = "deleted"
    BY <1>2, <2>1
  <2>4. page'[q].hash = page[q].hash
    BY <2>1
  <2> QED
    BY <1>1, <2>1, <2>2, <2>3, <2>4
<1>3. ASSUME NEW y \in Editors PROVE DiffHolds(y)'
  <2>1. CASE step[y] = "idle"
    BY <2>1 DEF DiffHolds
  <2>2. CASE step[y] # "idle"
    <3>1. DiffHolds(y) /\ target[y] \in PageIDs
      BY <2>2, InvIsBoth DEF TagsInv, PagesInv, PagesTypeOK
    <3>2. PICK q \in PageIDs : q = target[y]
      BY <3>1
    <3>3. TagsOf(target[y])' = TagsOf(q)'
      BY <3>2 DEF TagsOf
    <3>4. step[y] # "update" => page[q].status = "new"
      BY <2>2, <3>2 DEF PagesInv, EditsAreSound, EditIsSound
    <3>5. q \in LivePages' => q \in LivePages
      OBVIOUS
    <3>6. q \in LivePages' \/ page[q].status = "new" =>
                    /\ TagsOf(q)' \subseteq TagsOf(q)
                    /\ \A t \in TagsOf(q) \ TagsOf(q)' : tag'[t] = "deleted"
      OBVIOUS
    <3> QED
      BY <2>2, <3>1, <3>2, <3>3, <3>4, <3>5, <3>6, DiffStays
  <2> QED
    BY <2>1, <2>2
<1> QED
  BY <1>2, <1>3 DEF TagsInv, TagsAreAsked

\* The steps that write no row of pages_tags, and leave the live pages alone.
LEMMA NoTagMoves ==
    ASSUME PagesInv, UNCHANGED <<step, target, draft, diff, raced, introduced, tag, tagged>>,
           \A q \in PageIDs : /\ page'[q].hash = page[q].hash
                              /\ q \in LivePages' => q \in LivePages
    PROVE  TagsInv'
<1>1. \A q : TagsOf(q)' = TagsOf(q)
  BY DEF TagsOf
<1> QED
  BY <1>1, TagsStay

LEMMA StaffTags ==
    ASSUME PagesInv,
           \/ \E p \in PageIDs : DeletePage(p) \/ DateComes(p)
           \/ \E t \in TagNames : CreateTag(t) \/ DeleteTag(t)
    PROVE  TagsInv'
<1> USE DEF editVars, pastVars
<1>0. page \in [PageIDs -> Page]
  BY DEF PagesInv, PagesTypeOK
<1>1. ASSUME NEW p \in PageIDs, DeletePage(p) PROVE TagsInv'
  <2>1. /\ UNCHANGED <<step, target, draft, diff, raced, introduced, tag>>
        /\ page' = [page EXCEPT ![p].status = "deleted"] /\ p \in LivePages
        /\ tagged' = {r \in tagged : r[1] # p}
    BY <1>1 DEF DeletePage
  <2>2. \A q \in PageIDs : page'[q].hash = page[q].hash /\ (q \in LivePages' => q \in LivePages)
    BY <1>0, <2>1 DEF Page, LivePages
  <2>3. p \notin LivePages' /\ page[p].status # "new"
    BY <1>0, <2>1 DEF LivePages, Page
  <2>4. ASSUME NEW q, q # p PROVE TagsOf(q)' = TagsOf(q)
    BY <2>1, <2>4 DEF TagsOf
  <2> QED
    BY <2>1, <2>2, <2>3, <2>4, TagsStay
<1>2. ASSUME NEW p \in PageIDs, DateComes(p) PROVE TagsInv'
  <2>1. \A q \in PageIDs : page'[q].hash = page[q].hash /\ (q \in LivePages' => q \in LivePages)
    BY <1>0, <1>2 DEF DateComes, Page, LivePages
  <2> QED
    BY <1>2, <2>1, NoTagMoves DEF DateComes
<1>3. ASSUME NEW t \in TagNames, CreateTag(t) PROVE TagsInv'
  <2>1. /\ UNCHANGED <<step, target, draft, diff, raced, introduced, page, tagged>>
        /\ tag[t] = "new" /\ tag' = [tag EXCEPT ![t] = "live"]
    BY <1>3 DEF CreateTag
  <2>2. \A q : TagsOf(q)' = TagsOf(q)
    BY <2>1 DEF TagsOf
  <2>3. \A u \in TagNames : tag[u] = "deleted" => tag'[u] = "deleted"
    BY <2>1 DEF PagesInv, PagesTypeOK
  <2>4. LivePages' = LivePages
    BY <2>1 DEF LivePages
  <2> QED
    BY <2>1, <2>2, <2>3, <2>4, TagsStay
<1>4. ASSUME NEW t \in TagNames, DeleteTag(t) PROVE TagsInv'
  <2>1. /\ UNCHANGED <<step, target, draft, diff, raced, introduced, page>>
        /\ tag' = [tag EXCEPT ![t] = "deleted"] /\ tagged' = {r \in tagged : r[2] # t}
    BY <1>4 DEF DeleteTag
  <2>2. \A q : TagsOf(q)' = TagsOf(q) \ {t}
    BY <2>1 DEF TagsOf
  <2>3. tag'[t] = "deleted" /\ \A u \in TagNames : tag[u] = "deleted" => tag'[u] = "deleted"
    BY <2>1 DEF PagesInv, PagesTypeOK
  <2>4. LivePages' = LivePages
    BY <2>1 DEF LivePages
  <2> QED
    BY <2>1, <2>2, <2>3, <2>4, TagsStay
<1> QED
  BY <1>1, <1>2, <1>3, <1>4

LEMMA QueueTags ==
    ASSUME PagesInv,
           \/ TaskPublishPages \/ \E x \in Publishers : JobPublishPages(x)
           \/ \E x \in Editors \cup Publishers :
                Die(x) \/ \E p \in PageIDs : PushNewsletter(x, p) \/ LoseNewsletter(x, p)
           \/ UNCHANGED pagesVars
    PROVE  TagsInv'
<1> USE DEF pageVars, editVars, pastVars
<1>1. ASSUME NEW x \in Publishers, JobPublishPages(x) PROVE TagsInv'
  <2>1. \A q \in PageIDs : page'[q].hash = page[q].hash /\ (q \in LivePages' => q \in LivePages)
    BY <1>1, PublishedRow DEF LivePages, DuePages
  <2> QED
    BY <1>1, <2>1, NoTagMoves DEF JobPublishPages
<1>2. CASE \/ TaskPublishPages \/ UNCHANGED pagesVars
           \/ \E x \in Editors \cup Publishers :
                Die(x) \/ \E p \in PageIDs : PushNewsletter(x, p) \/ LoseNewsletter(x, p)
  <2>1. UNCHANGED <<step, target, draft, diff, raced, introduced, tag, tagged, page>>
    BY <1>2 DEF TaskPublishPages, Die, PushNewsletter, LoseNewsletter, pagesVars
  <2>2. LivePages' = LivePages
    BY <2>1 DEF LivePages
  <2> QED
    BY <2>1, <2>2, NoTagMoves
<1> QED
  BY <1>1, <1>2

-----------------------------------------------------------------------------
(* Pages: the theorems.                                                    *)

LEMMA PagesStepInv == PagesInv /\ [PagesNext]_pagesVars => PagesInv'
<1> SUFFICES ASSUME PagesInv, [PagesNext]_pagesVars PROVE PagesTypeOK' /\ PostsInv' /\ TagsInv'
  <2>1. PagesTypeOK' /\ PostsInv' /\ TagsInv' => PagesInv'
    BY InvIsBoth, PTL
  <2> QED
    BY <2>1
<1>1. ASSUME NEW x \in Editors, EditorStep(x)
      PROVE  PagesTypeOK' /\ PostsInv' /\ TagsInv'
  <2>1. CASE \E p \in PageIDs, isDraft, flag \in BOOLEAN,
                date \in {"past", "now", "future"}, T \in SUBSET TagNames :
               CreatePage(x, p, isDraft, date, flag, T) \/ UpdatePage(x, p, isDraft, date, flag, T)
    <3>1. PICK p \in PageIDs : \E s, r, d, send : Begins(x, p, s, r, d, send)
      BY <2>1, CreateBegins, UpdateBegins
    <3>2. PICK s, r, d, send : Begins(x, p, s, r, d, send)
      BY <3>1
    <3> QED
      BY <3>2, BeginTypes, BeginPosts, BeginTags
  <2>2. CASE Commit(x)
    BY <2>2, CommitTypes, CommitPosts, CommitTags
  <2>3. CASE FailEdit(x)
    BY <2>3, QueueTypes, FailPosts, FailTags
  <2> QED
    BY <1>1, <2>1, <2>2, <2>3 DEF EditorStep
<1>2. CASE \/ \E p \in PageIDs : DeletePage(p) \/ DateComes(p)
           \/ \E t \in TagNames : CreateTag(t) \/ DeleteTag(t)
  BY <1>2, StaffTypes, StaffPosts, StaffTags
<1>3. CASE TaskPublishPages \/ UNCHANGED pagesVars
  BY <1>3, QueueTypes, StaffPosts, QueueTags
<1>4. ASSUME NEW x \in Publishers, JobPublishPages(x)
      PROVE  PagesTypeOK' /\ PostsInv' /\ TagsInv'
  BY <1>4, QueueTypes, PublishPosts, QueueTags
<1>5. ASSUME NEW x \in Editors \cup Publishers,
             Die(x) \/ \E p \in PageIDs : PushNewsletter(x, p) \/ LoseNewsletter(x, p)
      PROVE  PagesTypeOK' /\ PostsInv' /\ TagsInv'
  BY <1>5, QueueTypes, QueuePosts, QueueTags
<1> QED
  BY <1>1, <1>2, <1>3, <1>4, <1>5 DEF PagesNext

\* In every reachable state the edits are sound, and what is marked was handed on.
THEOREM PagesInvariance == PagesSpec => []PagesInv
  BY PagesInitInv, PagesStepInv, PTL DEF PagesSpec

\* The variables of the pages have their types.
THEOREM PagesTypes == PagesSpec => []PagesTypeOK
<1>1. PagesInv => PagesTypeOK
  BY DEF PagesInv
<1> QED
  BY <1>1, PagesInvariance, PTL

\* A post is sent to the subscribers when it is published, and once, but for the
\* races and losses that the code has and the model names (CreatePage, UpdatePage,
\* JobPublishPages and the push after their transactions).
THEOREM PostsSent == PagesSpec => []PostsAreSent
<1>1. PagesInv => PostedOnce
  <2> SUFFICES ASSUME PagesInv, NEW p \in PageIDs \ stale
               PROVE  posted[p] + Cardinality(Sending(p)) <= 1
    BY DEF PostedOnce
  <2>1. \/ posted[p] = 0 /\ \A x, y \in Sending(p) : x = y
        \/ posted[p] = 1 /\ Sending(p) = {}
    BY DEF PagesInv, MarkIsKept
  <2>2. CASE Sending(p) = {}
    <3>1. Cardinality(Sending(p)) = 0
      BY <2>2, FS_EmptySet
    <3> QED
      BY <2>1, <3>1
  <2>3. CASE Sending(p) # {}
    <3>1. PICK x : x \in Sending(p)
      BY <2>3
    <3>2. Sending(p) = {x} /\ posted[p] = 0
      BY <2>1, <3>1
    <3>3. Cardinality(Sending(p)) = 1
      BY <3>2, FS_Singleton
    <3> QED
      BY <3>2, <3>3
  <2> QED
    BY <2>2, <2>3
<1>2. PagesInv => PostsAreSent
  BY <1>1 DEF PagesInv, PostsAreSent
<1> QED
  BY <1>2, PagesInvariance, PTL

\* A page has the tags that its last edit asked for, where no two edits of it
\* overlapped, but for deleted tags and for those that the edit made
\* (associateTagsToPage and the difference that is computed before it).
THEOREM TagsAsked == PagesSpec => []TagsAreAsked
<1>1. PagesInv => TagsAreAsked
  BY DEF PagesInv
<1> QED
  BY <1>1, PagesInvariance, PTL

-----------------------------------------------------------------------------
(* Lists of redirects.                                                     *)

LEMMA ListFacts ==
    /\ NoRedirects \in Lists /\ DOMAIN NoRedirects = {}
    /\ \A list \in Lists : /\ DOMAIN list \in SUBSET Patterns
                           /\ \A p \in DOMAIN list : list[p] \in Destinations
<1>1. NoRedirects \in [{} -> Destinations]
  BY DEF NoRedirects
<1>2. \A P \in SUBSET Patterns : \A list \in [P -> Destinations] : list \in Lists
  BY DEF Lists
<1>3. {} \in SUBSET Patterns
  OBVIOUS
<1>4. NoRedirects \in Lists /\ DOMAIN NoRedirects = {}
  BY <1>1, <1>2, <1>3
<1>5. ASSUME NEW list \in Lists
      PROVE  /\ DOMAIN list \in SUBSET Patterns
             /\ \A p \in DOMAIN list : list[p] \in Destinations
  <2>1. PICK P \in SUBSET Patterns : list \in [P -> Destinations]
    BY DEF Lists
  <2> QED
    BY <2>1
<1> QED
  BY <1>4, <1>5

\* What a website has after a call has the patterns of the list.
LEMMA SavedIsList ==
    ASSUME NEW list \in Lists, NEW had \in Lists
    PROVE  /\ Saved(list, had) \in Lists /\ DOMAIN Saved(list, had) = DOMAIN list
           /\ \A p \in DOMAIN list :
                Saved(list, had)[p] = IF p \in DOMAIN had THEN had[p] ELSE list[p]
<1>1. PICK P : P = DOMAIN list
  OBVIOUS
<1>2. P \in SUBSET Patterns
  BY <1>1, ListFacts
<1>3. \A p \in P : (IF p \in DOMAIN had THEN had[p] ELSE list[p]) \in Destinations
  BY <1>1, ListFacts
<1>4. Saved(list, had) = [p \in P |-> IF p \in DOMAIN had THEN had[p] ELSE list[p]]
  BY <1>1 DEF Saved
<1>5. Saved(list, had) \in [P -> Destinations]
  BY <1>3, <1>4
<1>6. Saved(list, had) \in Lists
  BY <1>2, <1>5 DEF Lists
<1> QED
  BY <1>1, <1>4, <1>6

-----------------------------------------------------------------------------
(* Client: what is sent of each kind, and what is still to be.             *)

UploadFields == {"step", "given", "list", "had", "listed", "todo", "read", "now", "gone", "missed",
                 "unsent", "touched", "reasons"}

Sendings == {"send assets", "send snippets", "send pages"}

UploadIsSound ==
    /\ DOMAIN upload = UploadFields
    /\ upload.step \in {"find", "website", "redirects", "list assets", "list snippets",
                        "list pages", "over"} \cup Sendings
    /\ upload.given \subseteq Settings /\ upload.list \in Lists /\ upload.had \in Lists
    /\ upload.gone \subseteq upload.touched
    /\ upload.step = "redirects" => "redirects" \in upload.given
    /\ upload.step \notin Sendings => upload.todo = {}
    /\ upload.step # "send assets" => upload.now = NoFile

\* An asset that is still to be sent is on the disk, its folder is none there, and it
\* is on the website if it was listed, until it is deleted.
AssetsAreSent ==
    /\ upload.todo \subseteq AssetPaths
    /\ upload.now # NoFile =>
         /\ upload.now \in upload.todo \cap upload.listed
         /\ upload.now \in upload.touched \/ remote[upload.now] = NoFile
    /\ \A a \in upload.todo \ upload.touched :
         /\ disk[a] # NoFile
         /\ IF a \in upload.listed THEN remote[a] # NoFile \/ upload.now = a ELSE remote[a] = NoFile
    /\ \A b \in upload.todo, a \in AssetPaths :
         FolderOf[a] = b => a \in upload.touched \/ disk[a] = NoFile
    /\ \A a \in Due(AssetPaths) : a \in upload.todo \/ remote[a] = disk[a]

\* A snippet that is still to be sent is as it was read, and on the website if it was
\* listed.
SnippetsAreSent ==
    /\ upload.todo \subseteq SnippetNames \cap DOMAIN upload.read
    /\ \A n \in upload.todo :
         /\ upload.read[n] \in Texts
         /\ n \notin upload.touched =>
              upload.read[n] = disk[n] /\ (n \in upload.listed <=> remote[n] # NoFile)
    /\ \A n \in Due(SnippetNames) : n \in upload.todo \/ remote[n] = disk[n]

PageIsSent(p) ==
    /\ remote[p] # NoFile /\ remote[p].text = disk[p].text
    /\ p \in upload.unsent \/ remote[p].draft = disk[p].draft
    /\ p \in upload.listed \/ disk[p].type \in {"unsaid", remote[p].type}

\* So is a page, but for one that is not listed since there are too many.
PagesAreSent ==
    /\ upload.todo \subseteq PageUrls \cap DOMAIN upload.read
    /\ \A p \in upload.todo :
         /\ upload.read[p] \in LocalPages
         /\ p \notin upload.touched =>
              upload.read[p] = disk[p] /\ (p \in upload.listed => remote[p] # NoFile)
    /\ \A p \in Due(PageUrls) : p \in upload.todo \/ PageIsSent(p)
    /\ upload.touched = {} =>
         \A p \in upload.todo \ upload.listed :
            remote[p] # NoFile => Cardinality(OfType(remote[p].type)) > MaxListed

NameAndAdAreSent ==
    /\ "name" \in upload.given \ upload.touched => settings["name"] = "given"
    /\ "ad" \in upload.given \ upload.touched => settings["ad"] = "given"
    /\ "ad" \notin upload.given \cup upload.touched => settings["ad"] = "none"

\* Until they are saved the website has the redirects it had.
RedirectsAreAsBefore == "redirects" \notin upload.touched => settings.redirects = upload.had

LimitIsReached ==
    "limit" \in upload.reasons /\ upload.touched = {} =>
        \E t \in Types : Cardinality(OfType(t)) > MaxListed

UploadInv ==
    upload # NoUpload =>
      /\ UploadIsSound /\ LimitIsReached
      /\ upload.step = "redirects" => NameAndAdAreSent
      /\ upload.step \in {"find", "website", "redirects"} => RedirectsAreAsBefore
      /\ upload.step = "send assets" => AssetsAreSent
      /\ upload.step = "send snippets" => SnippetsAreSent
      /\ upload.step = "send pages" => PagesAreSent

ClientInv ==
    /\ ClientTypeOK /\ DOMAIN disk = DiskFiles /\ DOMAIN remote = DiskFiles
    /\ UploadInv /\ SiteIsPublished

LEMMA ClientConstants ==
    /\ NoFile \notin Texts \cup LocalPages \cup RemotePages
    /\ NoFile \notin AssetPaths \cup SnippetNames \cup PageUrls
    /\ Folder \notin Texts /\ NoFile # Folder
    /\ AssetPaths \cap SnippetNames = {} /\ AssetPaths \cap PageUrls = {}
    /\ SnippetNames \cap PageUrls = {}
    /\ FolderOf \in [AssetPaths -> AssetPaths \cup {NoFile}]
    /\ IsFiniteSet(PageUrls) /\ MaxListed \in Nat /\ MaxEdits \in Nat
BY ClientAssumption DEF LocalPages, RemotePages, Types

LEMMA RowTypes ==
    ASSUME ClientTypeOK
    PROVE  /\ \A f \in AssetPaths \cup SnippetNames : disk[f] \in Texts \cup {NoFile}
           /\ \A p \in PageUrls : disk[p] \in LocalPages \cup {NoFile}
           /\ \A a \in AssetPaths : disk[a] # NoFile /\ FolderOf[a] # NoFile => disk[FolderOf[a]] = NoFile
           /\ \A a \in AssetPaths : remote[a] \in Texts \cup {NoFile, Folder}
           /\ \A n \in SnippetNames : remote[n] \in Texts \cup {NoFile}
           /\ \A p \in PageUrls : remote[p] \in RemotePages \cup {NoFile}
           /\ settings \in RemoteSettings
           /\ touches \in 0 .. MaxEdits
BY DEF ClientTypeOK, IsDisk, On

\* The website has finitely many pages of a type.
LEMMA PagesAreFinite ==
    \A t : IsFiniteSet(OfType(t)) /\ Cardinality(OfType(t)) \in Nat
BY ClientConstants, FS_Subset, FS_CardinalityType DEF OfType, On

LEMMA ClientInitInv == ClientInit => ClientInv
<1> SUFFICES ASSUME ClientInit PROVE ClientInv
  OBVIOUS
<1>1. ClientTypeOK
  BY ClientConstants, ListFacts DEF ClientInit, ClientTypeOK, IsDisk, On, DiskFiles, RemoteSettings
<1>2. QED BY <1>1 DEF ClientInit, ClientInv, UploadInv, SiteIsPublished

-----------------------------------------------------------------------------
(* What others do is known of the files, and of those that it is done to.  *)

LEMMA OthersKeep ==
    ASSUME ClientInv, NEW what, NEW gone, what # {}, gone \subseteq what, Change(what, gone),
           ClientTypeOK', DOMAIN disk' = DiskFiles, DOMAIN remote' = DiskFiles,
           \A f \in DiskFiles \ what : disk'[f] = disk[f] /\ remote'[f] = remote[f],
           \A s \in Settings \ what : settings'[s] = settings[s]
    PROVE  ClientInv'
<1> SUFFICES ASSUME upload # NoUpload, upload' # NoUpload
             PROVE  UploadInv' /\ SiteIsPublished'
  BY DEF ClientInv, Change, UploadInv, SiteIsPublished
<1>1. UploadIsSound
  BY DEF ClientInv, UploadInv
<1>2. /\ DOMAIN upload' = UploadFields
      /\ upload'.touched = upload.touched \cup what /\ upload'.gone = upload.gone \cup gone
      /\ upload'.step = upload.step /\ upload'.given = upload.given
      /\ upload'.list = upload.list /\ upload'.had = upload.had
      /\ upload'.listed = upload.listed /\ upload'.todo = upload.todo
      /\ upload'.read = upload.read /\ upload'.now = upload.now
      /\ upload'.missed = upload.missed /\ upload'.unsent = upload.unsent
      /\ upload'.reasons = upload.reasons /\ upload'.touched # {}
  BY <1>1 DEF Change, UploadIsSound, UploadFields
<1>3. UploadIsSound'
  BY <1>1, <1>2 DEF UploadIsSound
<1>4. \A kind \in SUBSET DiskFiles :
         /\ Due(kind)' \subseteq Due(kind)
         /\ \A f \in Due(kind)' : f \notin what /\ disk'[f] = disk[f] /\ remote'[f] = remote[f]
  BY <1>2 DEF Due, On
<1>5. AssetPaths \subseteq DiskFiles /\ SnippetNames \subseteq DiskFiles /\ PageUrls \subseteq DiskFiles
  BY DEF DiskFiles
<1>6. "name" \in Settings /\ "ad" \in Settings /\ "redirects" \in Settings
  BY DEF Settings
<1>7. upload.step = "redirects" => NameAndAdAreSent'
  BY <1>2, <1>6 DEF ClientInv, UploadInv, NameAndAdAreSent
<1>8. upload.step = "send assets" => AssetsAreSent'
  <2> SUFFICES ASSUME upload.step = "send assets" PROVE AssetsAreSent'
    OBVIOUS
  <2>1. AssetsAreSent
    BY DEF ClientInv, UploadInv
  <2>2. \A a \in AssetPaths \ what : disk'[a] = disk[a] /\ remote'[a] = remote[a]
    BY <1>5
  <2>3. \A a \in Due(AssetPaths)' : a \in upload'.todo \/ remote'[a] = disk'[a]
    BY <1>2, <1>4, <1>5, <2>1 DEF AssetsAreSent
  <2>4. upload'.now # NoFile =>
          /\ upload'.now \in upload'.todo \cap upload'.listed
          /\ upload'.now \in upload'.touched \/ remote'[upload'.now] = NoFile
    <3>1. PICK b : b = upload.now
      OBVIOUS
    <3>2. b # NoFile => b \in AssetPaths
      BY <2>1, <3>1 DEF AssetsAreSent
    <3>3. b # NoFile => b \in upload.todo \cap upload.listed /\ (b \in upload.touched \/ remote[b] = NoFile)
      BY <2>1, <3>1 DEF AssetsAreSent
    <3>4. QED BY <1>2, <2>2, <3>1, <3>2, <3>3
  <2>5. /\ upload'.todo \subseteq AssetPaths
        /\ \A a \in upload'.todo \ upload'.touched :
             /\ disk'[a] # NoFile
             /\ IF a \in upload'.listed THEN remote'[a] # NoFile \/ upload'.now = a
                                        ELSE remote'[a] = NoFile
        /\ \A b \in upload'.todo, a \in AssetPaths :
             FolderOf[a] = b => a \in upload'.touched \/ disk'[a] = NoFile
    <3>1. \A a \in AssetPaths : a \notin upload'.touched =>
            a \notin upload.touched /\ disk'[a] = disk[a] /\ remote'[a] = remote[a]
      BY <1>2, <2>2
    <3>2. /\ upload.todo \subseteq AssetPaths
          /\ \A a \in upload.todo \ upload.touched :
               /\ disk[a] # NoFile
               /\ IF a \in upload.listed THEN remote[a] # NoFile \/ upload.now = a
                                         ELSE remote[a] = NoFile
          /\ \A b \in upload.todo, a \in AssetPaths :
               FolderOf[a] = b => a \in upload.touched \/ disk[a] = NoFile
      BY <2>1 DEF AssetsAreSent
    <3>3. /\ upload'.todo \subseteq AssetPaths
          /\ \A a \in upload'.todo \ upload'.touched :
               /\ disk'[a] # NoFile
               /\ IF a \in upload'.listed THEN remote'[a] # NoFile \/ upload'.now = a
                                          ELSE remote'[a] = NoFile
      <4>1. upload'.todo \subseteq AssetPaths
        BY <1>2, <3>2
      <4>2. ASSUME NEW a \in upload'.todo \ upload'.touched
            PROVE  /\ disk'[a] # NoFile
                   /\ IF a \in upload'.listed THEN remote'[a] # NoFile \/ upload'.now = a
                                              ELSE remote'[a] = NoFile
        <5>1. /\ a \in upload.todo \ upload.touched
              /\ disk'[a] = disk[a] /\ remote'[a] = remote[a]
          BY <1>2, <3>1, <3>2, <4>2
        <5>2. QED BY <1>2, <3>2, <5>1
      <4>3. QED BY <4>1, <4>2
    <3>4. ASSUME NEW b \in upload'.todo, NEW a \in AssetPaths, FolderOf[a] = b
          PROVE  a \in upload'.touched \/ disk'[a] = NoFile
      BY <1>2, <3>1, <3>2, <3>4
    <3>5. QED BY <3>3, <3>4
  <2>6. QED BY <2>3, <2>4, <2>5 DEF AssetsAreSent
<1>9. upload.step = "send snippets" => SnippetsAreSent'
  BY <1>2, <1>4, <1>5 DEF ClientInv, UploadInv, SnippetsAreSent
<1>10. upload.step = "send pages" => PagesAreSent'
  <2> SUFFICES ASSUME upload.step = "send pages" PROVE PagesAreSent'
    OBVIOUS
  <2>1. PagesAreSent
    BY DEF ClientInv, UploadInv
  <2>2. \A p \in PageUrls \ what : disk'[p] = disk[p] /\ remote'[p] = remote[p]
    BY <1>5
  <2>3. \A p \in Due(PageUrls)' : p \in upload'.todo \/ PageIsSent(p)'
    <3> SUFFICES ASSUME NEW p \in Due(PageUrls)', p \notin upload'.todo PROVE PageIsSent(p)'
      OBVIOUS
    <3>1. disk'[p] = disk[p] /\ remote'[p] = remote[p] /\ PageIsSent(p)
      BY <1>2, <1>4, <1>5, <2>1 DEF PagesAreSent
    <3>2. QED BY <1>2, <3>1 DEF PageIsSent
  <2>4. QED BY <1>2, <2>1, <2>2, <2>3 DEF PagesAreSent
<1>11. FilesAreSent'
  <2>1. FilesAreSent
    BY DEF ClientInv, SiteIsPublished
  <2>2. Past({"list snippets", "send snippets", "list pages", "send pages", "over"})' =>
          \A a \in Due(AssetPaths)' : remote'[a] = disk'[a]
    BY <1>2, <1>4, <1>5, <2>1 DEF FilesAreSent, Past
  <2>3. Past({"list pages", "send pages", "over"})' =>
          \A n \in Due(SnippetNames)' : remote'[n] = disk'[n]
    BY <1>2, <1>4, <1>5, <2>1 DEF FilesAreSent, Past
  <2>4. Past({"over"})' => \A p \in Due(PageUrls)' : PageIsSent(p)'
    <3> SUFFICES ASSUME Past({"over"})', NEW p \in Due(PageUrls)' PROVE PageIsSent(p)'
      OBVIOUS
    <3>1. disk'[p] = disk[p] /\ remote'[p] = remote[p] /\ p \in Due(PageUrls) /\ Past({"over"})
      BY <1>2, <1>4, <1>5 DEF Past
    <3>2. PageIsSent(p)
      BY <2>1, <3>1 DEF FilesAreSent, PageIsSent
    <3>3. QED BY <1>2, <3>1, <3>2 DEF PageIsSent
  <2>5. Past({"send assets"})' =>
          \A a \in Due(AssetPaths)' \cap upload'.listed : remote'[a] # NoFile \/ upload'.now = a
    BY <1>2, <1>4, <1>5, <2>1 DEF FilesAreSent, Past
  <2>6. QED BY <2>2, <2>3, <2>4, <2>5 DEF FilesAreSent, Past, PageIsSent
<1>12. SettingsAreSent'
  <2>1. SettingsAreSent
    BY DEF ClientInv, SiteIsPublished
  <2>2. "redirects" \notin upload'.touched /\ RedirectsAreSent => RedirectsAreSent'
    BY <1>2, <1>6 DEF RedirectsAreSent
  <2>3. QED BY <1>1, <1>2, <1>6, <2>1, <2>2 DEF SettingsAreSent, Past, UploadIsSound
<1>13. FilesAreMissedForAReason'
  BY <1>2 DEF FilesAreMissedForAReason
<1>14. LimitIsReached'
  BY <1>2 DEF LimitIsReached
<1>15. upload.step \in {"find", "website", "redirects"} => RedirectsAreAsBefore'
  BY <1>2, <1>6 DEF ClientInv, UploadInv, RedirectsAreAsBefore
<1>16. QED BY <1>2, <1>3, <1>7, <1>8, <1>9, <1>10, <1>11, <1>12, <1>13, <1>14, <1>15
          DEF UploadInv, SiteIsPublished

LEMMA OthersInv == ClientInv /\ OthersNext => ClientInv'
<1> SUFFICES ASSUME ClientInv, OthersNext PROVE ClientInv'
  OBVIOUS
<1>1. ClientTypeOK /\ DOMAIN disk = DiskFiles /\ DOMAIN remote = DiskFiles
  BY DEF ClientInv
<1>2. ASSUME NEW what, NEW gone, Change(what, gone), gone \subseteq what
      PROVE  /\ touches' \in 0 .. MaxEdits
             /\ upload' # NoUpload =>
                 /\ upload'.todo \cup upload'.listed \cup upload'.missed \cup upload'.unsent
                      \subseteq DiskFiles
                 /\ DOMAIN upload'.read \subseteq DiskFiles
  <2>1. touches' \in 0 .. MaxEdits
    BY <1>1, <1>2, ClientConstants, RowTypes DEF Change
  <2>2. CASE upload = NoUpload
    BY <1>1, <1>2, <2>1, <2>2 DEF Change
  <2>3. CASE upload # NoUpload
    <3>1. DOMAIN upload = UploadFields
      BY <2>3 DEF ClientInv, UploadInv, UploadIsSound
    <3>2. /\ upload'.todo = upload.todo /\ upload'.listed = upload.listed
          /\ upload'.missed = upload.missed /\ upload'.unsent = upload.unsent
          /\ upload'.read = upload.read
      BY <1>2, <2>3, <3>1 DEF Change, UploadFields
    <3>3. QED BY <1>1, <2>1, <2>3, <3>2 DEF ClientTypeOK
  <2>4. QED BY <2>2, <2>3
<1>3. ASSUME NEW f \in DiskFiles, NEW file \in Rows(f, LocalPages) \cup {NoFile}, ChangeDisk(f, file)
      PROVE  ClientInv'
  <2>1. ClientTypeOK' /\ DOMAIN disk' = DiskFiles /\ DOMAIN remote' = DiskFiles
    BY <1>1, <1>2, <1>3 DEF ChangeDisk, ClientTypeOK
  <2>2. /\ \A g \in DiskFiles \ {f} : disk'[g] = disk[g] /\ remote'[g] = remote[g]
        /\ settings' = settings /\ Change({f}, {})
    BY <1>1, <1>3 DEF ChangeDisk
  <2>3. QED BY <2>1, <2>2, OthersKeep
<1>4. ASSUME NEW f \in DiskFiles, NEW row \in Rows(f, RemotePages), CreateOrUpdate(f, row)
      PROVE  ClientInv'
  <2>1. /\ \A g \in DiskFiles \ {f} : disk'[g] = disk[g] /\ remote'[g] = remote[g]
        /\ remote'[f] = row /\ DOMAIN remote' = DiskFiles
        /\ disk' = disk /\ settings' = settings /\ Change({f}, {})
    BY <1>1, <1>4 DEF CreateOrUpdate
  <2>2. /\ \A a \in AssetPaths : remote'[a] \in Texts \cup {NoFile, Folder}
        /\ \A n \in SnippetNames : remote'[n] \in Texts \cup {NoFile}
        /\ \A p \in PageUrls : remote'[p] \in RemotePages \cup {NoFile}
    BY <1>1, <2>1, RowTypes, ClientConstants DEF Rows, DiskFiles
  <2>3. ClientTypeOK'
    BY <1>1, <1>2, <2>1, <2>2 DEF ClientTypeOK
  <2>4. QED BY <1>1, <2>1, <2>3, OthersKeep
<1>5. ASSUME NEW f \in DiskFiles, Delete(f) PROVE ClientInv'
  <2>1. PICK these : these = {g \in DiskFiles : remote'[g] # remote[g]}
    OBVIOUS
  <2>2. /\ Change(these, these) /\ disk' = disk /\ settings' = settings
        /\ \A g \in DiskFiles : remote'[g] \in {NoFile, remote[g]}
        /\ remote'[f] = NoFile /\ f \in these /\ DOMAIN remote' = DiskFiles
    BY <1>1, <1>5, <2>1 DEF Delete, WithoutAsset
  <2>3. /\ \A a \in AssetPaths : remote'[a] \in Texts \cup {NoFile, Folder}
        /\ \A n \in SnippetNames : remote'[n] \in Texts \cup {NoFile}
        /\ \A p \in PageUrls : remote'[p] \in RemotePages \cup {NoFile}
    BY <1>1, <2>2, RowTypes DEF DiskFiles
  <2>4. ClientTypeOK'
    BY <1>1, <1>2, <2>2, <2>3 DEF ClientTypeOK
  <2>5. QED BY <1>1, <2>1, <2>2, <2>4, OthersKeep
<1>6. ASSUME NEW s \in Settings, ChangeSetting(s) PROVE ClientInv'
  <2>0. settings \in RemoteSettings
    BY <1>1, RowTypes
  <2>1. /\ disk' = disk /\ remote' = remote /\ Change({s}, {})
        /\ settings' \in RemoteSettings
        /\ \A r \in Settings \ {s} : settings'[r] = settings[r]
    <3>1. CASE s = "redirects"
      <4>1. PICK list \in Lists :
               settings' = [settings EXCEPT !.redirects = Saved(list, settings.redirects)]
        BY <1>6, <3>1 DEF ChangeSetting
      <4>2. PICK had : had = Saved(list, settings.redirects)
        OBVIOUS
      <4>3. had \in Lists
        BY <4>2, <2>0, SavedIsList DEF RemoteSettings
      <4>4. settings' = [settings EXCEPT !.redirects = had]
        BY <4>1, <4>2
      <4>5. settings' \in RemoteSettings /\ \A r \in Settings \ {s} : settings'[r] = settings[r]
        BY <2>0, <3>1, <4>3, <4>4 DEF RemoteSettings, Settings
      <4> QED
        BY <1>6, <4>5 DEF ChangeSetting
    <3>2. CASE s # "redirects"
      <4>1. settings' = [settings EXCEPT ![s] = "other"] /\ s \in {"name", "ad"}
        BY <1>6, <3>2 DEF ChangeSetting, Settings
      <4>2. settings' \in RemoteSettings /\ \A r \in Settings \ {s} : settings'[r] = settings[r]
        BY <2>0, <4>1 DEF RemoteSettings, Settings
      <4> QED
        BY <1>6, <4>2 DEF ChangeSetting
    <3> QED
      BY <3>1, <3>2
  <2>2. ClientTypeOK'
    BY <1>1, <1>2, <2>1 DEF ClientTypeOK
  <2>3. QED BY <1>1, <2>1, <2>2, OthersKeep
<1>7. QED BY <1>3, <1>4, <1>5, <1>6 DEF OthersNext

-----------------------------------------------------------------------------
(* The course of a publication.  The disk is only read.                    *)

LEMMA TypesKeep ==
    ASSUME ClientInv, disk' = disk, touches' = touches,
           settings' \in RemoteSettings, DOMAIN remote' = DiskFiles,
           \A a \in AssetPaths : remote'[a] \in Texts \cup {NoFile, Folder},
           \A n \in SnippetNames : remote'[n] \in Texts \cup {NoFile},
           \A p \in PageUrls : remote'[p] \in RemotePages \cup {NoFile},
           upload' # NoUpload =>
             /\ upload'.todo \cup upload'.listed \cup upload'.missed \cup upload'.unsent \subseteq DiskFiles
             /\ DOMAIN upload'.read \subseteq DiskFiles
    PROVE  ClientTypeOK' /\ DOMAIN disk' = DiskFiles /\ DOMAIN remote' = DiskFiles
BY DEF ClientInv, ClientTypeOK

LEMMA UploadFacts ==
    ASSUME ClientInv, upload # NoUpload
    PROVE  /\ UploadIsSound /\ LimitIsReached
           /\ FilesAreSent /\ SettingsAreSent /\ FilesAreMissedForAReason
           /\ upload.todo \cup upload.listed \cup upload.missed \cup upload.unsent \subseteq DiskFiles
           /\ DOMAIN upload.read \subseteq DiskFiles
BY DEF ClientInv, ClientTypeOK, UploadInv, SiteIsPublished

LEMMA SettingsStay ==
    ASSUME SettingsAreSent, settings' = settings,
           upload'.given = upload.given,
           upload'.list = upload.list, upload'.had = upload.had,
           upload'.touched = upload.touched,
           upload.step \in Sendings \cup {"list assets", "list snippets", "list pages"}
    PROVE  SettingsAreSent'
BY DEF SettingsAreSent, RedirectsAreSent, Past, Sendings

LEMMA PagesStay ==
    ASSUME \A p \in PageUrls : remote'[p] = remote[p]
    PROVE  \A t : OfType(t)' = OfType(t)
BY DEF OfType, On

LEMMA LimitStays ==
    ASSUME LimitIsReached, upload'.touched = upload.touched,
           upload'.reasons \subseteq upload.reasons \cup {"call", "folder"},
           \A p \in PageUrls : remote'[p] = remote[p]
    PROVE  LimitIsReached'
BY PagesStay DEF LimitIsReached

\* The files of a kind are missed for a reason that doesn't have to do with the limit.
LEMMA ReasonsStay ==
    ASSUME LimitIsReached', FilesAreMissedForAReason, upload'.touched = upload.touched,
           upload.reasons \subseteq upload'.reasons,
           upload.touched = {} => upload'.missed = upload.missed \/ upload'.reasons # {}
    PROVE  FilesAreMissedForAReason'
BY DEF LimitIsReached, FilesAreMissedForAReason

LEMMA StartInv ==
    ASSUME ClientInv, NEW given \in SUBSET Settings, NEW list \in Lists, StartPublish(given, list)
    PROVE  ClientInv'
<1>1. /\ DOMAIN upload' = UploadFields /\ upload'.step = "find" /\ upload'.given = given
      /\ upload'.list = list /\ upload'.had = settings.redirects
      /\ upload'.listed = {} /\ upload'.todo = {} /\ upload'.read = NoFiles
      /\ upload'.now = NoFile /\ upload'.gone = {} /\ upload'.missed = {}
      /\ upload'.unsent = {} /\ upload'.touched = {} /\ upload'.reasons = {}
      /\ UNCHANGED <<disk, remote, settings, touches>>
  BY DEF StartPublish, UploadFields
<1>2. DOMAIN NoFiles = {}
  BY DEF NoFiles
<1>3. ClientTypeOK' /\ DOMAIN disk' = DiskFiles /\ DOMAIN remote' = DiskFiles
  BY <1>1, <1>2 DEF ClientInv, ClientTypeOK
<1>4. UploadInv'
  <2>1. settings.redirects \in Lists
    BY DEF ClientInv, ClientTypeOK, RemoteSettings
  <2>2. QED BY <1>1, <2>1
            DEF UploadInv, UploadIsSound, LimitIsReached, RedirectsAreAsBefore, Sendings
<1>5. SiteIsPublished'
  BY <1>1 DEF SiteIsPublished, FilesAreSent, SettingsAreSent, FilesAreMissedForAReason, Past
<1>6. QED BY <1>3, <1>4, <1>5 DEF ClientInv

\* Before the first kind nothing is sent and, unless the command is over, nothing missed.
LEMMA BeginInv ==
    ASSUME ClientInv, NEW answer \in Answers,
           FindWebsite(answer) \/ UpdateWebsite_(answer) \/ SaveRedirects_(answer)
    PROVE  ClientInv'
<1>1. upload # NoUpload /\ UNCHANGED <<disk, remote, touches>>
  BY DEF FindWebsite, UpdateWebsite_, SaveRedirects_, At_
<1>2. UploadIsSound
  BY <1>1, UploadFacts
<1>3. /\ DOMAIN upload' = UploadFields /\ upload'.given = upload.given
      /\ upload'.list = upload.list /\ upload'.had = upload.had
      /\ upload'.listed = upload.listed /\ upload'.todo = upload.todo
      /\ upload'.read = upload.read /\ upload'.now = upload.now /\ upload'.gone = upload.gone
      /\ upload'.unsent = upload.unsent /\ upload'.touched = upload.touched
      /\ upload.step \in {"find", "website", "redirects"}
      /\ \/ /\ upload'.step \in {"website", "redirects", "list assets"}
            /\ upload'.missed = upload.missed /\ upload'.reasons = upload.reasons
         \/ /\ upload'.step = "over" /\ upload'.missed = upload.missed \cup DiskFiles
            /\ upload'.reasons = upload.reasons \cup {"call"}
  BY <1>1, <1>2 DEF FindWebsite, UpdateWebsite_, SaveRedirects_, At_, Stop_, UploadIsSound, UploadFields
<1>4. settings' \in RemoteSettings
  <2>1. settings \in RemoteSettings /\ Saved(upload.list, settings.redirects) \in Lists
    BY <1>2, RowTypes, SavedIsList DEF ClientInv, RemoteSettings, UploadIsSound
  <2>2. PICK saved : saved = Saved(upload.list, settings.redirects)
    OBVIOUS
  <2>3. CASE FindWebsite(answer) \/ UpdateWebsite_(answer)
    BY <2>1, <2>3 DEF RemoteSettings, FindWebsite, UpdateWebsite_
  <2>4. CASE SaveRedirects_(answer)
    <3>1. settings' = settings \/ settings' = [settings EXCEPT !.redirects = saved]
      BY <2>2, <2>4 DEF SaveRedirects_
    <3>2. QED BY <2>1, <2>2, <3>1 DEF RemoteSettings
  <2>5. QED BY <2>3, <2>4
<1>5. ClientTypeOK' /\ DOMAIN disk' = DiskFiles /\ DOMAIN remote' = DiskFiles
  BY <1>1, <1>3, <1>4, UploadFacts DEF ClientInv, ClientTypeOK
<1>6. UploadIsSound'
  <2>1. upload'.step = "redirects" => "redirects" \in upload.given
    BY <1>1, <1>2 DEF FindWebsite, UpdateWebsite_, SaveRedirects_, At_, Stop_, UploadIsSound,
                      UploadFields
  <2>2. QED BY <1>2, <1>3, <2>1 DEF UploadIsSound, Sendings
<1>7. LimitIsReached' /\ FilesAreMissedForAReason'
  <2>1. LimitIsReached'
    BY <1>1, <1>3, UploadFacts, LimitStays
  <2>2. QED BY <1>1, <1>3, <2>1, UploadFacts, ReasonsStay
<1>8. FilesAreSent'
  <2>1. CASE upload'.step = "over"
    BY <1>3, <2>1 DEF FilesAreSent, Past, Due, On, DiskFiles
  <2>2. CASE upload'.step # "over"
    BY <1>3, <2>2 DEF FilesAreSent, Past
  <2>3. QED BY <2>1, <2>2
<1>9. /\ upload'.step = "redirects" => NameAndAdAreSent'
      /\ upload'.step \in {"find", "website", "redirects"} => RedirectsAreAsBefore'
      /\ SettingsAreSent'
  <2>1. settings \in RemoteSettings /\ RedirectsAreAsBefore
    BY <1>1, <1>3, RowTypes DEF ClientInv, UploadInv
  <2>2. CASE FindWebsite(answer)
    <3>1. upload'.step \in {"website", "over"} /\ settings' = settings
      BY <1>1, <1>2, <2>2 DEF FindWebsite, Stop_, UploadIsSound, UploadFields
    <3>2. QED BY <1>3, <2>1, <3>1 DEF SettingsAreSent, RedirectsAreAsBefore, Past
  <2>3. CASE UpdateWebsite_(answer)
    <3>1. /\ upload'.step = IF answer # "ok" THEN "over" ELSE
               IF "redirects" \in upload.given THEN "redirects" ELSE "list assets"
      BY <1>1, <1>2, <2>3 DEF UpdateWebsite_, Stop_, UploadIsSound, UploadFields
    <3>2. /\ settings'.redirects = settings.redirects
          /\ answer = "ok" => /\ "name" \in upload.given => settings'["name"] = "given"
                              /\ "ad" \in upload.given => settings'["ad"] = "given"
                              /\ "ad" \notin upload.given => settings'["ad"] = "none"
      BY <2>1, <2>3 DEF UpdateWebsite_, RemoteSettings
    <3>3. RedirectsAreAsBefore'
      BY <1>3, <2>1, <3>2 DEF RedirectsAreAsBefore
    <3>4. upload'.step = "list assets" /\ "redirects" \notin upload'.touched => RedirectsAreSent'
      BY <1>3, <3>1, <3>3 DEF RedirectsAreAsBefore, RedirectsAreSent
    <3>5. QED BY <1>2, <1>3, <3>1, <3>2, <3>3, <3>4
              DEF NameAndAdAreSent, SettingsAreSent, Past, UploadIsSound, Settings
  <2>4. CASE SaveRedirects_(answer)
    <3>1. upload'.step = IF answer = "ok" THEN "list assets" ELSE "over"
      BY <1>1, <1>2, <2>4 DEF SaveRedirects_, Stop_, UploadIsSound, UploadFields
    <3>2. /\ answer = "ok" => settings'.redirects = Saved(upload.list, settings.redirects)
          /\ settings'["name"] = settings["name"] /\ settings'["ad"] = settings["ad"]
      BY <2>1, <2>4 DEF SaveRedirects_, RemoteSettings
    <3>3. NameAndAdAreSent /\ "redirects" \in upload.given
      BY <1>1, <1>2, <2>4 DEF ClientInv, UploadInv, SaveRedirects_, At_, UploadIsSound
    <3>4. answer = "ok" /\ "redirects" \notin upload'.touched => RedirectsAreSent'
      <4> SUFFICES ASSUME answer = "ok", "redirects" \notin upload.touched PROVE RedirectsAreSent'
        BY <1>3
      <4>1. PICK list, had, saved : list = upload.list /\ had = upload.had /\ saved = Saved(list, had)
        OBVIOUS
      <4>2. settings'.redirects = saved
        BY <2>1, <3>2, <4>1 DEF RedirectsAreAsBefore
      <4>3. /\ DOMAIN saved = DOMAIN list
            /\ \A p \in DOMAIN list : saved[p] = IF p \in DOMAIN had THEN had[p] ELSE list[p]
        <5>1. list \in Lists /\ had \in Lists
          BY <1>2, <4>1 DEF UploadIsSound
        <5>2. QED BY <4>1, <5>1, SavedIsList
      <4>4. upload'.list = list /\ upload'.had = had /\ "redirects" \in upload'.given
        BY <1>3, <3>3, <4>1
      <4>5. QED BY <4>2, <4>3, <4>4 DEF RedirectsAreSent
    <3>5. QED BY <1>2, <1>3, <3>1, <3>2, <3>3, <3>4
              DEF NameAndAdAreSent, SettingsAreSent, Past, UploadIsSound, Settings
  <2>5. QED BY <2>2, <2>3, <2>4
<1>10. QED BY <1>3, <1>5, <1>6, <1>7, <1>8, <1>9 DEF ClientInv, UploadInv, SiteIsPublished

\* A kind is listed, or given up.
LEMMA LoadKeeps ==
    ASSUME ClientInv, upload # NoUpload, UNCHANGED <<disk, remote, settings, touches>>,
           upload.step \in {"list assets", "list snippets", "list pages"},
           DOMAIN upload' = UploadFields, upload'.given = upload.given,
           upload'.list = upload.list, upload'.had = upload.had,
           upload'.touched = upload.touched, upload'.gone = upload.gone, upload'.now = upload.now,
           upload'.reasons \in {upload.reasons, upload.reasons \cup {"call"}},
           upload'.missed = upload.missed \/ "call" \in upload'.reasons,
           upload'.step \in Sendings \/
             (upload'.step \in {"list snippets", "list pages", "over"} /\ upload'.todo = {}),
           upload'.todo \cup upload'.listed \cup upload'.missed \cup upload'.unsent \subseteq DiskFiles,
           DOMAIN upload'.read \subseteq DiskFiles
    PROVE  /\ UploadIsSound' /\ LimitIsReached' /\ SettingsAreSent' /\ FilesAreMissedForAReason'
           /\ ClientTypeOK' /\ DOMAIN disk' = DiskFiles /\ DOMAIN remote' = DiskFiles
<1>1. UploadIsSound
  BY UploadFacts
<1>2. UploadIsSound'
  BY <1>1 DEF UploadIsSound, Sendings
<1>3. LimitIsReached'
  BY UploadFacts, LimitStays
<1>4. FilesAreMissedForAReason'
  BY <1>3, UploadFacts, ReasonsStay
<1>5. SettingsAreSent'
  BY UploadFacts, SettingsStay
<1>6. ClientTypeOK' /\ DOMAIN disk' = DiskFiles /\ DOMAIN remote' = DiskFiles
  BY DEF ClientInv, ClientTypeOK
<1>7. QED BY <1>2, <1>3, <1>4, <1>5, <1>6

LEMMA ListAssetsInv ==
    ASSUME ClientInv, NEW answer, ListAssets(answer)
    PROVE  ClientInv'
<1>0. PICK todo, listed : todo = {a \in LoadLocalAssets : disk[a] # remote[a]} /\ listed = On(remote, AssetPaths)
  OBVIOUS
<1>1. /\ upload # NoUpload /\ upload.step = "list assets"
      /\ Load(AssetPaths, answer, "send assets", listed, todo, {})
  BY <1>0 DEF ListAssets, At_
<1>2. /\ AssetPaths \subseteq DiskFiles /\ listed \subseteq DiskFiles /\ todo \subseteq DiskFiles
      /\ "send assets" \in Sendings /\ After("send assets") = "list snippets"
  BY <1>0 DEF DiskFiles, On, LoadLocalAssets, Sendings, After
<1>3. UploadIsSound /\ UNCHANGED <<disk, remote, settings, touches>>
  BY <1>1, UploadFacts DEF Load
<1>4. /\ DOMAIN upload' = UploadFields /\ upload'.given = upload.given
      /\ upload'.list = upload.list /\ upload'.had = upload.had
      /\ upload'.touched = upload.touched /\ upload'.now = upload.now
      /\ upload'.gone = upload.gone
  BY <1>1, <1>3 DEF Load, UploadIsSound, UploadFields
<1>5. answer = "ok" =>
         /\ upload'.step = "send assets" /\ upload'.listed = listed /\ upload'.todo = todo
         /\ upload'.read = [f \in todo |-> disk[f]] /\ upload'.unsent = {}
         /\ upload'.missed = upload.missed /\ upload'.reasons = upload.reasons
  BY <1>1, <1>3 DEF Load, UploadIsSound, UploadFields
<1>6. answer # "ok" =>
         /\ upload'.step = "list snippets" /\ upload'.listed = upload.listed
         /\ upload'.todo = {} /\ upload'.read = upload.read /\ upload'.unsent = upload.unsent
         /\ upload'.missed = upload.missed \cup AssetPaths
         /\ upload'.reasons = upload.reasons \cup {"call"}
  BY <1>1, <1>2, <1>3 DEF Load, UploadIsSound, UploadFields, Sendings
<1>7. /\ UploadIsSound' /\ LimitIsReached' /\ SettingsAreSent' /\ FilesAreMissedForAReason'
      /\ ClientTypeOK' /\ DOMAIN disk' = DiskFiles /\ DOMAIN remote' = DiskFiles
  <2>1. /\ upload'.todo \cup upload'.listed \cup upload'.missed \cup upload'.unsent \subseteq DiskFiles
        /\ DOMAIN upload'.read \subseteq DiskFiles
        /\ upload'.reasons \in {upload.reasons, upload.reasons \cup {"call"}}
        /\ upload'.missed = upload.missed \/ "call" \in upload'.reasons
        /\ upload'.step \in Sendings \/
             (upload'.step \in {"list snippets", "list pages", "over"} /\ upload'.todo = {})
    <3>1. CASE answer = "ok"
      BY <1>1, <1>2, <1>5, <3>1, UploadFacts
    <3>2. CASE answer # "ok"
      BY <1>1, <1>2, <1>6, <3>2, UploadFacts
    <3>3. QED BY <3>1, <3>2
  <2>2. QED BY <1>1, <1>3, <1>4, <2>1, LoadKeeps
<1>8. CASE answer = "ok"
  <2>1. AssetsAreSent'
    <3>1. upload'.now = NoFile
      BY <1>1, <1>3, <1>4 DEF UploadIsSound
    <3>2. \A a \in upload'.todo :
            /\ a \in AssetPaths /\ disk'[a] # NoFile
            /\ a \in upload'.listed <=> remote'[a] # NoFile
      BY <1>0, <1>3, <1>5, <1>8 DEF LoadLocalAssets, On
    <3>3. \A b \in upload'.todo, a \in AssetPaths : FolderOf[a] = b => disk'[a] = NoFile
      BY <1>3, <3>2, RowTypes, ClientConstants DEF ClientInv
    <3>4. \A a \in Due(AssetPaths)' : a \in upload'.todo \/ remote'[a] = disk'[a]
      BY <1>0, <1>3, <1>5, <1>8 DEF Due, On, LoadLocalAssets
    <3>5. QED BY <3>1, <3>2, <3>3, <3>4 DEF AssetsAreSent
  <2>2. FilesAreSent'
    BY <1>0, <1>3, <1>4, <1>5, <1>7, <1>8 DEF FilesAreSent, Past, Due, On
  <2>3. QED BY <1>3, <1>4, <1>5, <1>7, <1>8, <2>1, <2>2 DEF ClientInv, UploadInv, SiteIsPublished
<1>9. CASE answer # "ok"
  <2>1. FilesAreSent'
    BY <1>3, <1>4, <1>6, <1>7, <1>9 DEF FilesAreSent, Past, Due, On
  <2>2. QED BY <1>3, <1>4, <1>6, <1>7, <1>9, <2>1 DEF ClientInv, UploadInv, SiteIsPublished
<1>10. QED BY <1>8, <1>9

LEMMA ListSnippetsInv ==
    ASSUME ClientInv, NEW answer, ListSnippets(answer)
    PROVE  ClientInv'
<1>0. PICK todo, listed : todo = {n \in WalkSnippets : disk[n] # remote[n]} /\ listed = On(remote, SnippetNames)
  OBVIOUS
<1>1. /\ upload # NoUpload /\ upload.step = "list snippets"
      /\ Load(SnippetNames, answer, "send snippets", listed, todo, {})
  BY <1>0 DEF ListSnippets, At_
<1>2. /\ SnippetNames \subseteq DiskFiles /\ listed \subseteq DiskFiles /\ todo \subseteq DiskFiles
      /\ "send snippets" \in Sendings /\ After("send snippets") = "list pages"
  BY <1>0 DEF DiskFiles, On, WalkSnippets, Sendings, After
<1>3. UploadIsSound /\ UNCHANGED <<disk, remote, settings, touches>>
  BY <1>1, UploadFacts DEF Load
<1>4. /\ DOMAIN upload' = UploadFields /\ upload'.given = upload.given
      /\ upload'.list = upload.list /\ upload'.had = upload.had
      /\ upload'.touched = upload.touched /\ upload'.now = upload.now
      /\ upload'.gone = upload.gone
  BY <1>1, <1>3 DEF Load, UploadIsSound, UploadFields
<1>5. answer = "ok" =>
         /\ upload'.step = "send snippets" /\ upload'.listed = listed /\ upload'.todo = todo
         /\ upload'.read = [f \in todo |-> disk[f]] /\ upload'.unsent = {}
         /\ upload'.missed = upload.missed /\ upload'.reasons = upload.reasons
  BY <1>1, <1>3 DEF Load, UploadIsSound, UploadFields
<1>6. answer # "ok" =>
         /\ upload'.step = "list pages" /\ upload'.listed = upload.listed
         /\ upload'.todo = {} /\ upload'.read = upload.read /\ upload'.unsent = upload.unsent
         /\ upload'.missed = upload.missed \cup SnippetNames
         /\ upload'.reasons = upload.reasons \cup {"call"}
  BY <1>1, <1>2, <1>3 DEF Load, UploadIsSound, UploadFields, Sendings
<1>7. /\ UploadIsSound' /\ LimitIsReached' /\ SettingsAreSent' /\ FilesAreMissedForAReason'
      /\ ClientTypeOK' /\ DOMAIN disk' = DiskFiles /\ DOMAIN remote' = DiskFiles
  <2>1. /\ upload'.todo \cup upload'.listed \cup upload'.missed \cup upload'.unsent \subseteq DiskFiles
        /\ DOMAIN upload'.read \subseteq DiskFiles
        /\ upload'.reasons \in {upload.reasons, upload.reasons \cup {"call"}}
        /\ upload'.missed = upload.missed \/ "call" \in upload'.reasons
        /\ upload'.step \in Sendings \/
             (upload'.step \in {"list snippets", "list pages", "over"} /\ upload'.todo = {})
    <3>1. CASE answer = "ok"
      BY <1>1, <1>2, <1>5, <3>1, UploadFacts
    <3>2. CASE answer # "ok"
      BY <1>1, <1>2, <1>6, <3>2, UploadFacts
    <3>3. QED BY <3>1, <3>2
  <2>2. QED BY <1>1, <1>3, <1>4, <2>1, LoadKeeps
<1>8. \A a \in Due(AssetPaths) : remote[a] = disk[a]
  BY <1>1, UploadFacts DEF FilesAreSent, Past
<1>9. CASE answer = "ok"
  <2>1. SnippetsAreSent'
    BY <1>0, <1>3, <1>4, <1>5, <1>7, <1>9, RowTypes DEF SnippetsAreSent, Due, On, WalkSnippets, ClientInv
  <2>2. FilesAreSent'
    BY <1>3, <1>4, <1>5, <1>7, <1>8, <1>9 DEF FilesAreSent, Past, Due, On
  <2>3. QED BY <1>3, <1>4, <1>5, <1>7, <1>9, <2>1, <2>2 DEF ClientInv, UploadInv, SiteIsPublished
<1>10. CASE answer # "ok"
  <2>1. FilesAreSent'
    BY <1>3, <1>4, <1>6, <1>7, <1>8, <1>10 DEF FilesAreSent, Past, Due, On
  <2>2. QED BY <1>3, <1>4, <1>6, <1>7, <1>10, <2>1 DEF ClientInv, UploadInv, SiteIsPublished
<1>11. QED BY <1>9, <1>10

LEMMA ListPagesInv ==
    ASSUME ClientInv, NEW answer, NEW listed \in SUBSET PageUrls, ListPages_(answer, listed)
    PROVE  ClientInv'
<1>0. PICK same, unsent, todo :
        /\ same = {p \in listed \cap LoadLocalPages :
                     ~ Differs(ReadAndParseMarkdownFile(p, listed), remote[p])}
        /\ unsent = {p \in same : disk[p].draft # remote[p].draft}
        /\ todo = LoadLocalPages \ same
  OBVIOUS
<1>1. /\ upload # NoUpload /\ upload.step = "list pages"
      /\ listed \subseteq On(remote, PageUrls)
      /\ \A t \in Types :
           Cardinality(listed \cap OfType(t)) =
             IF Cardinality(OfType(t)) > MaxListed THEN MaxListed ELSE Cardinality(OfType(t))
      /\ Load(PageUrls, answer, "send pages", listed, todo, unsent)
  BY <1>0 DEF ListPages_, At_
<1>2. /\ PageUrls \subseteq DiskFiles /\ listed \subseteq DiskFiles
      /\ todo \subseteq DiskFiles /\ unsent \subseteq DiskFiles
      /\ "send pages" \in Sendings /\ After("send pages") = "over"
  BY <1>0 DEF DiskFiles, On, LoadLocalPages, Sendings, After
<1>3. UploadIsSound /\ UNCHANGED <<disk, remote, settings, touches>>
  BY <1>1, UploadFacts DEF Load
<1>4. /\ DOMAIN upload' = UploadFields /\ upload'.given = upload.given
      /\ upload'.list = upload.list /\ upload'.had = upload.had
      /\ upload'.touched = upload.touched /\ upload'.now = upload.now
      /\ upload'.gone = upload.gone
  BY <1>1, <1>3 DEF Load, UploadIsSound, UploadFields
<1>5. answer = "ok" =>
         /\ upload'.step = "send pages" /\ upload'.listed = listed /\ upload'.todo = todo
         /\ upload'.read = [f \in todo |-> disk[f]] /\ upload'.unsent = unsent
         /\ upload'.missed = upload.missed /\ upload'.reasons = upload.reasons
  BY <1>1, <1>3 DEF Load, UploadIsSound, UploadFields
<1>6. answer # "ok" =>
         /\ upload'.step = "over" /\ upload'.listed = upload.listed
         /\ upload'.todo = {} /\ upload'.read = upload.read /\ upload'.unsent = upload.unsent
         /\ upload'.missed = upload.missed \cup PageUrls
         /\ upload'.reasons = upload.reasons \cup {"call"}
  BY <1>1, <1>2, <1>3 DEF Load, UploadIsSound, UploadFields, Sendings
<1>7. /\ UploadIsSound' /\ LimitIsReached' /\ SettingsAreSent' /\ FilesAreMissedForAReason'
      /\ ClientTypeOK' /\ DOMAIN disk' = DiskFiles /\ DOMAIN remote' = DiskFiles
  <2>1. /\ upload'.todo \cup upload'.listed \cup upload'.missed \cup upload'.unsent \subseteq DiskFiles
        /\ DOMAIN upload'.read \subseteq DiskFiles
        /\ upload'.reasons \in {upload.reasons, upload.reasons \cup {"call"}}
        /\ upload'.missed = upload.missed \/ "call" \in upload'.reasons
        /\ upload'.step \in Sendings \/
             (upload'.step \in {"list snippets", "list pages", "over"} /\ upload'.todo = {})
    <3>1. CASE answer = "ok"
      BY <1>1, <1>2, <1>5, <3>1, UploadFacts
    <3>2. CASE answer # "ok"
      BY <1>1, <1>2, <1>6, <3>2, UploadFacts
    <3>3. QED BY <3>1, <3>2
  <2>2. QED BY <1>1, <1>3, <1>4, <2>1, LoadKeeps
<1>8. /\ \A a \in Due(AssetPaths) : remote[a] = disk[a]
      /\ \A n \in Due(SnippetNames) : remote[n] = disk[n]
  BY <1>1, UploadFacts DEF FilesAreSent, Past
<1>9. CASE answer = "ok"
  <2>1. ASSUME NEW p \in same PROVE p \in listed /\ remote[p].text = disk[p].text /\ remote[p] # NoFile
    <3>1. /\ p \in listed /\ p \in PageUrls /\ disk[p] \in LocalPages /\ remote[p] # NoFile
      BY <1>0, <1>1, <2>1, RowTypes DEF LoadLocalPages, On, ClientInv
    <3>2. ~ Differs(ReadAndParseMarkdownFile(p, listed), remote[p])
      BY <1>0, <2>1
    <3>3. QED BY <3>1, <3>2 DEF Differs, ReadAndParseMarkdownFile, LocalPages
  <2>2. \A p \in Due(PageUrls)' : p \in upload'.todo \/ PageIsSent(p)'
    <3> SUFFICES ASSUME NEW p \in Due(PageUrls)', p \notin upload'.todo PROVE PageIsSent(p)'
      OBVIOUS
    <3>1. p \in same
      BY <1>0, <1>3, <1>4, <1>5, <1>7, <1>9 DEF Due, On, LoadLocalPages
    <3>2. QED BY <1>0, <1>3, <1>4, <1>5, <1>7, <1>9, <2>1, <3>1 DEF PageIsSent
  <2>3. ASSUME NEW p \in upload'.todo \ upload'.listed, remote'[p] # NoFile
        PROVE  Cardinality(OfType(remote[p].type)) > MaxListed
    <3>1. PICK t : t = remote[p].type
      OBVIOUS
    <3>2. p \in OfType(t) /\ p \notin listed /\ t \in Types
      BY <1>0, <1>3, <1>4, <1>5, <1>7, <1>9, <2>3, <3>1, RowTypes DEF OfType, On, LoadLocalPages, ClientInv, RemotePages
    <3>3. listed \cap OfType(t) # OfType(t) /\ listed \cap OfType(t) \subseteq OfType(t)
      BY <3>2
    <3>4. Cardinality(listed \cap OfType(t)) # Cardinality(OfType(t))
      BY <3>3, PagesAreFinite, FS_Subset
    <3>5. QED BY <1>1, <3>1, <3>2, <3>4
  <2>4. upload'.touched = {} =>
          \A p \in upload'.todo \ upload'.listed :
             remote'[p] # NoFile => Cardinality(OfType(remote[p].type))' > MaxListed
    BY <1>3, <1>4, <1>5, <1>7, <2>3, PagesStay
  <2>5. /\ upload'.todo \subseteq PageUrls \cap DOMAIN upload'.read
        /\ \A p \in upload'.todo :
             /\ upload'.read[p] \in LocalPages
             /\ p \notin upload'.touched =>
                  upload'.read[p] = disk'[p] /\ (p \in upload'.listed => remote'[p] # NoFile)
    BY <1>0, <1>1, <1>3, <1>4, <1>5, <1>7, <1>9, RowTypes DEF On, LoadLocalPages, ClientInv
  <2>6. PagesAreSent'
    BY <2>2, <2>4, <2>5 DEF PagesAreSent
  <2>7. FilesAreSent'
    BY <1>3, <1>4, <1>5, <1>7, <1>8, <1>9 DEF FilesAreSent, Past, Due, On
  <2>8. QED BY <1>3, <1>4, <1>5, <1>7, <1>9, <2>6, <2>7 DEF ClientInv, UploadInv, SiteIsPublished
<1>10. CASE answer # "ok"
  <2>1. FilesAreSent'
    BY <1>3, <1>4, <1>6, <1>7, <1>8, <1>10 DEF FilesAreSent, Past, Due, On
  <2>2. QED BY <1>3, <1>4, <1>6, <1>7, <1>10, <2>1 DEF ClientInv, UploadInv, SiteIsPublished
<1>11. QED BY <1>9, <1>10

LEMMA NothingLeftInv == ClientInv /\ NothingLeft => ClientInv'
<1> SUFFICES ASSUME ClientInv, NothingLeft PROVE ClientInv'
  OBVIOUS
<1>1. /\ upload # NoUpload /\ upload.todo = {} /\ upload.step \in Sendings
      /\ UNCHANGED <<disk, remote, settings, touches>>
  BY DEF NothingLeft, Sendings
<1>2. UploadIsSound
  BY <1>1, UploadFacts
<1>3. /\ DOMAIN upload' = UploadFields /\ upload'.given = upload.given
      /\ upload'.list = upload.list /\ upload'.had = upload.had
      /\ upload'.listed = upload.listed /\ upload'.todo = {} /\ upload'.read = NoFiles
      /\ upload'.now = upload.now /\ upload'.gone = {} /\ upload'.missed = upload.missed
      /\ upload'.unsent = upload.unsent /\ upload'.touched = upload.touched
      /\ upload'.reasons = upload.reasons /\ upload'.step = After(upload.step)
  BY <1>1, <1>2 DEF NothingLeft, UploadIsSound, UploadFields
<1>4. DOMAIN NoFiles = {}
  BY DEF NoFiles
<1>5. ClientTypeOK' /\ DOMAIN disk' = DiskFiles /\ DOMAIN remote' = DiskFiles
  BY <1>1, <1>3, <1>4, UploadFacts DEF ClientInv, ClientTypeOK
<1>6. /\ upload.step = "send assets" => AssetsAreSent /\ upload'.step = "list snippets"
      /\ upload.step = "send snippets" => SnippetsAreSent /\ upload'.step = "list pages"
      /\ upload.step = "send pages" => PagesAreSent /\ upload'.step = "over"
  BY <1>1, <1>3 DEF ClientInv, UploadInv, After
<1>7. UploadIsSound'
  <2>1. upload.step = "send assets" => upload.now = NoFile
    BY <1>1, <1>6 DEF AssetsAreSent
  <2>2. upload'.step \in {"list snippets", "list pages", "over"}
    BY <1>1, <1>6 DEF Sendings
  <2>3. QED BY <1>2, <1>3, <2>1, <2>2 DEF UploadIsSound, Sendings
<1>8. LimitIsReached' /\ FilesAreMissedForAReason'
  <2>1. LimitIsReached'
    BY <1>1, <1>3, UploadFacts, LimitStays
  <2>2. QED BY <1>1, <1>3, <2>1, UploadFacts, ReasonsStay
<1>9. SettingsAreSent'
  BY <1>1, <1>3, UploadFacts, SettingsStay
<1>10. FilesAreSent'
  <2>1. FilesAreSent /\ \A kind : Due(kind)' = Due(kind)
    BY <1>1, <1>3, UploadFacts DEF Due, On
  <2>2. CASE upload.step = "send assets"
    BY <1>1, <1>3, <1>6, <2>1, <2>2 DEF AssetsAreSent, FilesAreSent, Past
  <2>3. CASE upload.step = "send snippets"
    BY <1>1, <1>3, <1>6, <2>1, <2>3 DEF SnippetsAreSent, FilesAreSent, Past
  <2>4. CASE upload.step = "send pages"
    BY <1>1, <1>3, <1>6, <2>1, <2>4 DEF PagesAreSent, PageIsSent, FilesAreSent, Past
  <2>5. QED BY <1>1, <2>2, <2>3, <2>4 DEF Sendings
<1>11. upload'.step \notin Sendings \cup {"find", "website", "redirects"}
  BY <1>1, <1>6 DEF Sendings
<1>12. QED BY <1>5, <1>7, <1>8, <1>9, <1>10, <1>11 DEF ClientInv, UploadInv, SiteIsPublished, Sendings

LEMMA ExitInv == ClientInv /\ Exit_ => ClientInv'
BY DEF ClientInv, Exit_, ClientTypeOK, UploadInv, SiteIsPublished

-----------------------------------------------------------------------------
(* The calls for a file.                                                   *)

\* A file is sent or given up; in the second case there is a reason, if nobody has
\* touched anything.
LEMMA SendKeeps ==
    ASSUME ClientInv, upload # NoUpload, UNCHANGED <<disk, settings, touches>>,
           upload.step \in Sendings, upload'.step = upload.step,
           DOMAIN upload' = UploadFields, upload'.given = upload.given,
           upload'.list = upload.list, upload'.had = upload.had,
           upload'.touched = upload.touched, upload'.gone = upload.gone,
           upload'.listed = upload.listed, upload'.read = upload.read,
           upload'.unsent = upload.unsent, upload'.todo \subseteq DiskFiles,
           upload'.missed \subseteq DiskFiles, upload.reasons \subseteq upload'.reasons,
           upload.step # "send assets" => upload'.now = NoFile,
           upload.touched = {} => upload'.missed = upload.missed \/ upload'.reasons # {},
           LimitIsReached', DOMAIN remote' = DiskFiles,
           \A a \in AssetPaths : remote'[a] \in Texts \cup {NoFile, Folder},
           \A n \in SnippetNames : remote'[n] \in Texts \cup {NoFile},
           \A p \in PageUrls : remote'[p] \in RemotePages \cup {NoFile},
           upload.step = "send assets" => AssetsAreSent',
           upload.step = "send snippets" => SnippetsAreSent',
           upload.step = "send pages" => PagesAreSent',
           FilesAreSent'
    PROVE  ClientInv'
<1>1. UploadIsSound
  BY UploadFacts
<1>2. UploadIsSound'
  BY <1>1 DEF UploadIsSound, Sendings
<1>3. FilesAreMissedForAReason'
  BY UploadFacts, ReasonsStay
<1>4. SettingsAreSent'
  BY UploadFacts, SettingsStay
<1>5. settings' \in RemoteSettings
  BY RowTypes DEF ClientInv
<1>6. upload'.todo \cup upload'.listed \cup upload'.missed \cup upload'.unsent \subseteq DiskFiles
      /\ DOMAIN upload'.read \subseteq DiskFiles
  BY UploadFacts
<1>7. ClientTypeOK' /\ DOMAIN disk' = DiskFiles /\ DOMAIN remote' = DiskFiles
  BY <1>5, <1>6, TypesKeep
<1>8. UploadInv'
  BY <1>2 DEF UploadInv, Sendings
<1>9. QED BY <1>3, <1>4, <1>7, <1>8 DEF ClientInv, SiteIsPublished

LEMMA EndAssetFields ==
    ASSUME DOMAIN upload = UploadFields, NEW a, NEW answer, NEW well \in BOOLEAN, NEW reason,
           EndAsset(a, answer, well, reason)
    PROVE  /\ DOMAIN upload' = UploadFields /\ upload'.step = upload.step
           /\ upload'.given = upload.given /\ upload'.touched = upload.touched
           /\ upload'.list = upload.list /\ upload'.had = upload.had
           /\ upload'.gone = upload.gone /\ upload'.listed = upload.listed
           /\ upload'.read = upload.read /\ upload'.unsent = upload.unsent
           /\ upload'.now = NoFile /\ upload'.todo = upload.todo \ {a}
           /\ well => upload'.missed = upload.missed /\ upload'.reasons = upload.reasons
           /\ ~well => /\ upload'.missed = upload.missed \cup {a}
                       /\ upload'.reasons = upload.reasons \cup Because(answer, reason)
BY DEF EndAsset, UploadFields

LEMMA DeleteOldAssetInv ==
    ASSUME ClientInv, NEW a \in AssetPaths, NEW answer \in Answers, DeleteOldAsset(a, answer)
    PROVE  ClientInv'
<1>0. PICK allowed \in BOOLEAN : allowed = (remote[a] # NoFile /\ a \notin upload.gone)
  OBVIOUS
<1>1. /\ upload # NoUpload /\ upload.step = "send assets" /\ upload.now = NoFile
      /\ a \in upload.todo /\ a \in upload.listed
      /\ UNCHANGED <<disk, settings, touches>>
      /\ remote' = IF allowed /\ answer # "failed" THEN WithoutAsset(a) ELSE remote
      /\ IF allowed /\ answer = "ok" THEN upload' = [upload EXCEPT !.now = a]
         ELSE EndAsset(a, answer, FALSE, {})
  BY <1>0 DEF DeleteOldAsset, At_, Called, Succeeds
<1>2. UploadIsSound /\ AssetsAreSent /\ ClientTypeOK
  BY <1>1, UploadFacts DEF ClientInv, UploadInv
<1>3. /\ DOMAIN upload' = UploadFields /\ upload'.step = upload.step
      /\ upload'.given = upload.given /\ upload'.touched = upload.touched
      /\ upload'.list = upload.list /\ upload'.had = upload.had
      /\ upload'.gone = upload.gone /\ upload'.listed = upload.listed
      /\ upload'.read = upload.read /\ upload'.unsent = upload.unsent
      /\ IF allowed /\ answer = "ok"
         THEN /\ upload'.now = a /\ upload'.todo = upload.todo
              /\ upload'.missed = upload.missed /\ upload'.reasons = upload.reasons
         ELSE /\ upload'.now = NoFile /\ upload'.todo = upload.todo \ {a}
              /\ upload'.missed = upload.missed \cup {a}
              /\ upload'.reasons = upload.reasons \cup Because(answer, {})
  <2>1. CASE allowed /\ answer = "ok"
    BY <1>1, <1>2, <2>1 DEF UploadIsSound, UploadFields
  <2>2. CASE ~(allowed /\ answer = "ok")
    <3>1. DOMAIN upload = UploadFields /\ EndAsset(a, answer, FALSE, {})
      BY <1>1, <1>2, <2>2 DEF UploadIsSound
    <3>2. QED BY <2>2, <3>1 DEF EndAsset, UploadFields
  <2>3. QED BY <2>1, <2>2
<1>4. /\ DOMAIN remote' = DiskFiles
      /\ \A f \in DiskFiles : remote'[f] \in {remote[f], NoFile}
      /\ \A f \in DiskFiles \ {a} : f \notin AssetPaths \/ FolderOf[f] # a => remote'[f] = remote[f]
      /\ allowed /\ answer = "ok" => remote'[a] = NoFile
  BY <1>1 DEF WithoutAsset, ClientInv, DiskFiles
<1>5. /\ AssetPaths \subseteq DiskFiles /\ SnippetNames \subseteq DiskFiles
      /\ PageUrls \subseteq DiskFiles
  BY DEF DiskFiles
<1>6. /\ \A a_1 \in AssetPaths : remote'[a_1] \in Texts \cup {NoFile, Folder}
      /\ \A n \in SnippetNames : remote'[n] \in Texts \cup {NoFile}
      /\ \A p \in PageUrls : remote'[p] \in RemotePages \cup {NoFile}
  BY <1>2, <1>4, <1>5, RowTypes
<1>7. /\ \A n \in SnippetNames \cup PageUrls : remote'[n] = remote[n]
      /\ \A b \in AssetPaths \ {a} :
           b \notin upload.touched /\ disk[b] # NoFile => remote'[b] = remote[b]
  <2>1. \A n \in SnippetNames \cup PageUrls : n # a /\ n \notin AssetPaths
    BY ClientConstants
  <2>2. ASSUME NEW b \in AssetPaths \ {a}, b \notin upload.touched, disk[b] # NoFile
        PROVE  FolderOf[b] # a
    BY <1>1, <1>2, <2>2 DEF AssetsAreSent
  <2>3. QED BY <1>4, <1>5, <2>1, <2>2
<1>8. LimitIsReached'
  <2>1. upload'.reasons \subseteq upload.reasons \cup {"call", "folder"}
    BY <1>3 DEF Because
  <2>2. QED BY <1>1, <1>3, <1>7, <2>1, UploadFacts, LimitStays
<1>9. upload.touched = {} => upload'.missed = upload.missed \/ upload'.reasons # {}
  <2>1. upload.touched = {} => allowed
    BY <1>0, <1>1, <1>2, ClientConstants DEF AssetsAreSent, UploadIsSound
  <2>2. QED BY <1>3, <2>1 DEF Because
<1>10. AssetsAreSent'
  <2>1. /\ upload'.todo \subseteq AssetPaths
        /\ upload'.now # NoFile =>
             /\ upload'.now \in upload'.todo \cap upload'.listed
             /\ upload'.now \in upload'.touched \/ remote'[upload'.now] = NoFile
    <3>1. CASE allowed /\ answer = "ok"
      BY <1>1, <1>2, <1>3, <1>4, <3>1 DEF AssetsAreSent
    <3>2. CASE ~(allowed /\ answer = "ok")
      BY <1>1, <1>2, <1>3, <3>2 DEF AssetsAreSent
    <3>3. QED BY <3>1, <3>2
  <2>2. ASSUME NEW b \in upload'.todo, b \notin upload'.touched
        PROVE  /\ disk'[b] # NoFile
               /\ IF b \in upload'.listed THEN remote'[b] # NoFile \/ upload'.now = b
                                          ELSE remote'[b] = NoFile
    <3>1. /\ b \in upload.todo /\ b \notin upload.touched /\ b \in AssetPaths
          /\ disk[b] # NoFile
          /\ IF b \in upload.listed THEN remote[b] # NoFile \/ upload.now = b ELSE remote[b] = NoFile
      BY <1>2, <1>3, <2>2 DEF AssetsAreSent
    <3>2. CASE b = a
      BY <1>1, <1>3, <2>2, <3>1, <3>2
    <3>3. CASE b # a
      BY <1>1, <1>3, <1>7, <3>1, <3>3, ClientConstants
    <3>4. QED BY <3>2, <3>3
  <2>3. ASSUME NEW b \in upload'.todo, NEW c \in AssetPaths, FolderOf[c] = b
        PROVE  c \in upload'.touched \/ disk'[c] = NoFile
    <3>1. b \in upload.todo
      BY <1>3, <2>3
    <3>2. QED BY <1>1, <1>2, <1>3, <2>3, <3>1 DEF AssetsAreSent
  <2>4. ASSUME NEW b \in Due(AssetPaths)', b \notin upload'.todo PROVE remote'[b] = disk'[b]
    <3>1. b \in AssetPaths /\ b \notin upload'.missed /\ b \notin upload.touched /\ disk[b] # NoFile
      BY <1>1, <1>3, <2>4 DEF Due, On
    <3>2. b # a /\ b \in Due(AssetPaths) /\ b \notin upload.todo
      BY <1>1, <1>3, <2>4, <3>1 DEF Due, On
    <3>3. remote[b] = disk[b]
      BY <1>2, <3>2 DEF AssetsAreSent
    <3>4. QED BY <1>1, <1>7, <3>1, <3>2, <3>3
  <2>5. QED BY <2>1, <2>2, <2>3, <2>4 DEF AssetsAreSent
<1>11. FilesAreSent'
  <2>1. ASSUME NEW b \in Due(AssetPaths)', b \in upload'.listed
        PROVE  remote'[b] # NoFile \/ upload'.now = b
    <3>1. b \in AssetPaths /\ b \notin upload'.touched /\ disk'[b] # NoFile
      BY <2>1 DEF Due, On
    <3>2. QED BY <1>10, <2>1, <3>1 DEF AssetsAreSent
  <2>2. QED BY <1>1, <1>3, <2>1 DEF FilesAreSent, Past
<1>12. /\ upload'.todo \subseteq DiskFiles /\ upload'.missed \subseteq DiskFiles
       /\ upload.reasons \subseteq upload'.reasons
  BY <1>1, <1>3, <1>5, UploadFacts
<1>13. QED BY <1>1, <1>3, <1>4, <1>6, <1>8, <1>9, <1>10, <1>11, <1>12, SendKeeps DEF Sendings

LEMMA UploadAssetInv ==
    ASSUME ClientInv, NEW a \in AssetPaths, NEW answer \in Answers, UploadAsset(a, answer)
    PROVE  ClientInv'
<1>0. PICK allowed \in BOOLEAN, well \in BOOLEAN, blocked \in BOOLEAN :
        /\ allowed = (disk[a] # NoFile /\ MayUpload(a)) /\ well = (allowed /\ answer = "ok")
        /\ blocked = (FolderOf[a] # NoFile /\ remote[FolderOf[a]] \notin {NoFile, Folder})
  OBVIOUS
<1>1. /\ upload # NoUpload /\ upload.step = "send assets" /\ a \in upload.todo
      /\ upload.now = a \/ (upload.now = NoFile /\ a \notin upload.listed)
      /\ UNCHANGED <<disk, settings, touches>>
      /\ remote' = IF allowed /\ answer # "failed" THEN WithAsset(a) ELSE remote
      /\ EndAsset(a, answer, well, IF blocked THEN {"folder"} ELSE {})
  BY <1>0 DEF UploadAsset, At_, Called, Succeeds
<1>2. UploadIsSound /\ AssetsAreSent /\ ClientTypeOK
  BY <1>1, UploadFacts DEF ClientInv, UploadInv
<1>3. /\ DOMAIN upload' = UploadFields /\ upload'.step = upload.step
      /\ upload'.given = upload.given /\ upload'.touched = upload.touched
      /\ upload'.list = upload.list /\ upload'.had = upload.had
      /\ upload'.gone = upload.gone /\ upload'.listed = upload.listed
      /\ upload'.read = upload.read /\ upload'.unsent = upload.unsent
      /\ upload'.now = NoFile /\ upload'.todo = upload.todo \ {a}
      /\ well => upload'.missed = upload.missed /\ upload'.reasons = upload.reasons
      /\ ~well => /\ upload'.missed = upload.missed \cup {a}
                  /\ upload'.reasons = upload.reasons \cup
                       Because(answer, IF blocked THEN {"folder"} ELSE {})
  <2>1. DOMAIN upload = UploadFields
    BY <1>2 DEF UploadIsSound
  <2>2. QED BY <1>1, <2>1 DEF EndAsset, UploadFields
<1>4. /\ AssetPaths \subseteq DiskFiles /\ SnippetNames \subseteq DiskFiles
      /\ PageUrls \subseteq DiskFiles
  BY DEF DiskFiles
<1>5. /\ DOMAIN remote' = DiskFiles
      /\ \A f \in DiskFiles : \/ remote'[f] = remote[f]
                              \/ f = a /\ remote'[f] = disk[a] /\ disk[a] # NoFile
                              \/ f = FolderOf[a] /\ remote'[f] = Folder /\ disk[a] # NoFile
      /\ well => remote'[a] = disk[a]
  BY <1>0, <1>1, <1>4 DEF WithAsset, ClientInv
<1>6. /\ \A b \in AssetPaths : remote'[b] \in Texts \cup {NoFile, Folder}
      /\ \A n \in SnippetNames \cup PageUrls : remote'[n] = remote[n]
  <2>1. disk[a] \in Texts \cup {NoFile}
    BY <1>2, RowTypes
  <2>2. \A n \in SnippetNames \cup PageUrls : n # a /\ n # FolderOf[a]
    BY ClientConstants
  <2>3. QED BY <1>2, <1>4, <1>5, <2>1, <2>2, RowTypes
<1>7. \A b \in AssetPaths \ {a} : disk[b] # NoFile => remote'[b] = remote[b]
  BY <1>2, <1>4, <1>5, RowTypes, ClientConstants
<1>8. LimitIsReached'
  <2>1. upload'.reasons \subseteq upload.reasons \cup {"call", "folder"}
    BY <1>3 DEF Because
  <2>2. QED BY <1>1, <1>3, <1>6, <2>1, UploadFacts, LimitStays
<1>9. upload.touched = {} => upload'.missed = upload.missed \/ upload'.reasons # {}
  <2>1. upload.touched = {} => disk[a] # NoFile /\ remote[a] = NoFile
    BY <1>1, <1>2, ClientConstants DEF AssetsAreSent
  <2>2. upload.touched = {} => allowed \/ blocked
    BY <1>0, <2>1 DEF MayUpload
  <2>3. QED BY <1>0, <1>3, <2>2 DEF Because
<1>10. AssetsAreSent'
  <2>1. /\ upload'.todo \subseteq AssetPaths /\ upload'.now = NoFile
    BY <1>2, <1>3 DEF AssetsAreSent
  <2>2. ASSUME NEW b \in upload'.todo, b \notin upload'.touched
        PROVE  /\ disk'[b] # NoFile
               /\ IF b \in upload'.listed THEN remote'[b] # NoFile \/ upload'.now = b
                                          ELSE remote'[b] = NoFile
    <3>1. /\ b \in upload.todo /\ b \notin upload.touched /\ b \in AssetPaths /\ b # a
          /\ disk[b] # NoFile
          /\ IF b \in upload.listed THEN remote[b] # NoFile \/ upload.now = b ELSE remote[b] = NoFile
      BY <1>2, <1>3, <2>2 DEF AssetsAreSent
    <3>2. QED BY <1>1, <1>3, <1>7, <3>1, ClientConstants
  <2>3. ASSUME NEW b \in upload'.todo, NEW c \in AssetPaths, FolderOf[c] = b
        PROVE  c \in upload'.touched \/ disk'[c] = NoFile
    <3>1. b \in upload.todo
      BY <1>3, <2>3
    <3>2. QED BY <1>1, <1>2, <1>3, <2>3, <3>1 DEF AssetsAreSent
  <2>4. ASSUME NEW b \in Due(AssetPaths)', b \notin upload'.todo PROVE remote'[b] = disk'[b]
    <3>1. b \in AssetPaths /\ b \notin upload'.missed /\ b \notin upload.touched /\ disk[b] # NoFile
      BY <1>1, <1>3, <2>4 DEF Due, On
    <3>2. CASE b = a
      BY <1>1, <1>3, <1>5, <3>1, <3>2
    <3>3. CASE b # a
      <4>1. b \in Due(AssetPaths) /\ b \notin upload.todo
        BY <1>1, <1>3, <2>4, <3>1, <3>3 DEF Due, On
      <4>2. remote[b] = disk[b]
        BY <1>2, <4>1 DEF AssetsAreSent
      <4>3. QED BY <1>1, <1>7, <3>1, <3>3, <4>2
    <3>4. QED BY <3>2, <3>3
  <2>5. QED BY <2>1, <2>2, <2>3, <2>4 DEF AssetsAreSent
<1>11. FilesAreSent'
  <2>1. ASSUME NEW b \in Due(AssetPaths)', b \in upload'.listed
        PROVE  remote'[b] # NoFile \/ upload'.now = b
    <3>1. b \in AssetPaths /\ b \notin upload'.touched /\ disk'[b] # NoFile
      BY <2>1 DEF Due, On
    <3>2. QED BY <1>10, <2>1, <3>1 DEF AssetsAreSent
  <2>2. QED BY <1>1, <1>3, <2>1 DEF FilesAreSent, Past
<1>12. /\ upload'.todo \subseteq DiskFiles /\ upload'.missed \subseteq DiskFiles
       /\ upload.reasons \subseteq upload'.reasons
  BY <1>1, <1>3, <1>4, UploadFacts
<1>13. /\ \A n \in SnippetNames : remote'[n] \in Texts \cup {NoFile}
       /\ \A p \in PageUrls : remote'[p] \in RemotePages \cup {NoFile}
  BY <1>2, <1>6, RowTypes
<1>14. QED
  BY <1>1, <1>3, <1>5, <1>6, <1>8, <1>9, <1>10, <1>11, <1>12, <1>13, SendKeeps DEF Sendings

\* A call for a snippet or a page that works has it sent; one that doesn't ends the kind.
LEMMA SendFields ==
    ASSUME DOMAIN upload = UploadFields, DOMAIN remote = DiskFiles,
           NEW f \in DiskFiles, NEW answer \in Answers, NEW row, NEW reason,
           Send(f, answer, row, reason)
    PROVE  \E allowed \in BOOLEAN :
           /\ allowed = IF f \in upload.listed THEN remote[f] # NoFile /\ f \notin upload.gone
                                               ELSE remote[f] = NoFile
           /\ UNCHANGED <<disk, settings, touches>> /\ f \in upload.todo
           /\ DOMAIN remote' = DiskFiles /\ \A g \in DiskFiles \ {f} : remote'[g] = remote[g]
           /\ remote'[f] = IF allowed /\ answer # "failed" THEN row ELSE remote[f]
           /\ DOMAIN upload' = UploadFields /\ upload'.step = upload.step
           /\ upload'.given = upload.given /\ upload'.touched = upload.touched
           /\ upload'.list = upload.list /\ upload'.had = upload.had
           /\ upload'.gone = upload.gone /\ upload'.listed = upload.listed
           /\ upload'.read = upload.read /\ upload'.unsent = upload.unsent
           /\ upload'.now = upload.now
           /\ IF allowed /\ answer = "ok"
              THEN /\ upload'.todo = upload.todo \ {f} /\ upload'.missed = upload.missed
                   /\ upload'.reasons = upload.reasons
              ELSE /\ upload'.todo = {} /\ upload'.missed = upload.missed \cup upload.todo
                   /\ upload'.reasons = upload.reasons \cup Because(answer, reason)
<1>0. PICK allowed \in BOOLEAN :
        allowed = IF f \in upload.listed THEN remote[f] # NoFile /\ f \notin upload.gone
                                         ELSE remote[f] = NoFile
  OBVIOUS
<1>1. /\ UNCHANGED <<disk, settings, touches>> /\ f \in upload.todo
      /\ remote' = IF allowed /\ answer # "failed" THEN [remote EXCEPT ![f] = row] ELSE remote
      /\ upload' = IF allowed /\ answer = "ok" THEN [upload EXCEPT !.todo = @ \ {f}]
                   ELSE [upload EXCEPT !.todo = {}, !.missed = @ \cup upload.todo,
                                       !.reasons = @ \cup Because(answer, reason)]
  BY <1>0 DEF Send, Called, Succeeds
<1>2. /\ DOMAIN remote' = DiskFiles /\ \A g \in DiskFiles \ {f} : remote'[g] = remote[g]
      /\ remote'[f] = IF allowed /\ answer # "failed" THEN row ELSE remote[f]
  BY <1>1
<1>3. /\ DOMAIN upload' = UploadFields /\ upload'.step = upload.step
      /\ upload'.given = upload.given /\ upload'.touched = upload.touched
      /\ upload'.list = upload.list /\ upload'.had = upload.had
      /\ upload'.gone = upload.gone /\ upload'.listed = upload.listed
      /\ upload'.read = upload.read /\ upload'.unsent = upload.unsent
      /\ upload'.now = upload.now
      /\ IF allowed /\ answer = "ok"
         THEN /\ upload'.todo = upload.todo \ {f} /\ upload'.missed = upload.missed
              /\ upload'.reasons = upload.reasons
         ELSE /\ upload'.todo = {} /\ upload'.missed = upload.missed \cup upload.todo
              /\ upload'.reasons = upload.reasons \cup Because(answer, reason)
  BY <1>1 DEF UploadFields
<1>4. QED BY <1>0, <1>1, <1>2, <1>3

LEMMA SendSnippetInv ==
    ASSUME ClientInv, NEW n \in SnippetNames, NEW answer \in Answers, SendSnippet(n, answer)
    PROVE  ClientInv'
<1>0. PICK row : row = upload.read[n]
  OBVIOUS
<1>1. /\ upload # NoUpload /\ upload.step = "send snippets" /\ Send(n, answer, row, {})
  BY <1>0 DEF SendSnippet, At_
<1>2. UploadIsSound /\ SnippetsAreSent /\ ClientTypeOK
  BY <1>1, UploadFacts DEF ClientInv, UploadInv
<1>3. /\ AssetPaths \subseteq DiskFiles /\ SnippetNames \subseteq DiskFiles
      /\ PageUrls \subseteq DiskFiles /\ n \in DiskFiles
  BY DEF DiskFiles
<1>4. PICK allowed \in BOOLEAN :
           /\ allowed = IF n \in upload.listed THEN remote[n] # NoFile /\ n \notin upload.gone
                                               ELSE remote[n] = NoFile
           /\ UNCHANGED <<disk, settings, touches>> /\ n \in upload.todo
           /\ DOMAIN remote' = DiskFiles /\ \A g \in DiskFiles \ {n} : remote'[g] = remote[g]
           /\ remote'[n] = IF allowed /\ answer # "failed" THEN row ELSE remote[n]
           /\ DOMAIN upload' = UploadFields /\ upload'.step = upload.step
           /\ upload'.given = upload.given /\ upload'.touched = upload.touched
           /\ upload'.list = upload.list /\ upload'.had = upload.had
           /\ upload'.gone = upload.gone /\ upload'.listed = upload.listed
           /\ upload'.read = upload.read /\ upload'.unsent = upload.unsent
           /\ upload'.now = upload.now
           /\ IF allowed /\ answer = "ok"
              THEN /\ upload'.todo = upload.todo \ {n} /\ upload'.missed = upload.missed
                   /\ upload'.reasons = upload.reasons
              ELSE /\ upload'.todo = {} /\ upload'.missed = upload.missed \cup upload.todo
                   /\ upload'.reasons = upload.reasons \cup Because(answer, {})
  <2>1. DOMAIN upload = UploadFields /\ DOMAIN remote = DiskFiles
    BY <1>2 DEF UploadIsSound, ClientInv
  <2>2. QED BY <1>1, <1>3, <2>1, SendFields
<1>5. \A f \in AssetPaths \cup PageUrls : remote'[f] = remote[f]
  BY <1>3, <1>4, ClientConstants
<1>6. row \in Texts /\ row # NoFile
  BY <1>0, <1>2, <1>4, ClientConstants DEF SnippetsAreSent
<1>7. /\ \A b \in AssetPaths : remote'[b] \in Texts \cup {NoFile, Folder}
      /\ \A m \in SnippetNames : remote'[m] \in Texts \cup {NoFile}
      /\ \A p \in PageUrls : remote'[p] \in RemotePages \cup {NoFile}
  BY <1>2, <1>3, <1>4, <1>5, <1>6, RowTypes
<1>8. LimitIsReached'
  <2>1. upload'.reasons \subseteq upload.reasons \cup {"call", "folder"}
    BY <1>4 DEF Because
  <2>2. QED BY <1>1, <1>4, <1>5, <2>1, UploadFacts, LimitStays
<1>9. upload.touched = {} => upload'.missed = upload.missed \/ upload'.reasons # {}
  <2>1. upload.touched = {} => allowed
    BY <1>2, <1>4 DEF SnippetsAreSent, UploadIsSound
  <2>2. QED BY <1>4, <2>1 DEF Because
<1>10. SnippetsAreSent'
  <2>1. \A m \in upload'.todo : m \in upload.todo /\ m # n /\ m \in SnippetNames /\ remote'[m] = remote[m]
    BY <1>2, <1>3, <1>4 DEF SnippetsAreSent
  <2>2. /\ upload'.todo \subseteq SnippetNames \cap DOMAIN upload'.read
        /\ \A m \in upload'.todo :
             /\ upload'.read[m] \in Texts
             /\ m \notin upload'.touched =>
                  upload'.read[m] = disk'[m] /\ (m \in upload'.listed <=> remote'[m] # NoFile)
    BY <1>2, <1>4, <2>1 DEF SnippetsAreSent
  <2>3. ASSUME NEW m \in Due(SnippetNames)', m \notin upload'.todo PROVE remote'[m] = disk'[m]
    <3>1. /\ m \in SnippetNames /\ m \notin upload'.missed /\ m \notin upload.touched
          /\ m \in Due(SnippetNames)
      BY <1>4, <2>3 DEF Due, On
    <3>2. CASE m = n
      <4>1. allowed /\ answer = "ok"
        BY <1>4, <3>1, <3>2
      <4>2. QED BY <1>0, <1>2, <1>4, <3>1, <3>2, <4>1 DEF SnippetsAreSent
    <3>3. CASE m # n
      <4>1. m \notin upload.todo
        BY <1>4, <2>3, <3>1, <3>3
      <4>2. QED BY <1>2, <1>3, <1>4, <3>1, <3>3, <4>1 DEF SnippetsAreSent
    <3>4. QED BY <3>2, <3>3
  <2>4. QED BY <2>2, <2>3 DEF SnippetsAreSent
<1>11. FilesAreSent'
  <2>1. \A a \in Due(AssetPaths)' : a \in Due(AssetPaths) /\ remote'[a] = remote[a] /\ disk'[a] = disk[a]
    BY <1>4, <1>5 DEF Due, On
  <2>2. \A a \in Due(AssetPaths) : remote[a] = disk[a]
    BY <1>1, UploadFacts DEF FilesAreSent, Past
  <2>3. QED BY <1>1, <1>4, <2>1, <2>2 DEF FilesAreSent, Past
<1>12. /\ upload'.todo \subseteq DiskFiles /\ upload'.missed \subseteq DiskFiles
       /\ upload.reasons \subseteq upload'.reasons /\ upload'.now = NoFile
  BY <1>1, <1>2, <1>3, <1>4, UploadFacts DEF UploadIsSound
<1>13. QED
  BY <1>1, <1>4, <1>7, <1>8, <1>9, <1>10, <1>11, <1>12, SendKeeps DEF Sendings

LEMMA SendPageInv ==
    ASSUME ClientInv, NEW p \in PageUrls, NEW answer \in Answers, SendPage(p, answer)
    PROVE  ClientInv'
<1>0. PICK file, type, row, reason :
        /\ file = upload.read[p] /\ type = IF file.type = "unsaid" THEN "page" ELSE file.type
        /\ row = [file EXCEPT !.type = IF p \in upload.listed /\ remote[p] # NoFile
                                       THEN remote[p].type ELSE type]
        /\ reason = IF p \notin upload.listed /\ p \notin upload.touched THEN {"limit"} ELSE {}
  OBVIOUS
<1>1. /\ upload # NoUpload /\ upload.step = "send pages" /\ Send(p, answer, row, reason)
  BY <1>0 DEF SendPage, At_
<1>2. UploadIsSound /\ PagesAreSent /\ ClientTypeOK
  BY <1>1, UploadFacts DEF ClientInv, UploadInv
<1>3. /\ AssetPaths \subseteq DiskFiles /\ SnippetNames \subseteq DiskFiles
      /\ PageUrls \subseteq DiskFiles /\ p \in DiskFiles
  BY DEF DiskFiles
<1>4. PICK allowed \in BOOLEAN :
           /\ allowed = IF p \in upload.listed THEN remote[p] # NoFile /\ p \notin upload.gone
                                               ELSE remote[p] = NoFile
           /\ UNCHANGED <<disk, settings, touches>> /\ p \in upload.todo
           /\ DOMAIN remote' = DiskFiles /\ \A g \in DiskFiles \ {p} : remote'[g] = remote[g]
           /\ remote'[p] = IF allowed /\ answer # "failed" THEN row ELSE remote[p]
           /\ DOMAIN upload' = UploadFields /\ upload'.step = upload.step
           /\ upload'.given = upload.given /\ upload'.touched = upload.touched
           /\ upload'.list = upload.list /\ upload'.had = upload.had
           /\ upload'.gone = upload.gone /\ upload'.listed = upload.listed
           /\ upload'.read = upload.read /\ upload'.unsent = upload.unsent
           /\ upload'.now = upload.now
           /\ IF allowed /\ answer = "ok"
              THEN /\ upload'.todo = upload.todo \ {p} /\ upload'.missed = upload.missed
                   /\ upload'.reasons = upload.reasons
              ELSE /\ upload'.todo = {} /\ upload'.missed = upload.missed \cup upload.todo
                   /\ upload'.reasons = upload.reasons \cup Because(answer, reason)
  <2>1. DOMAIN upload = UploadFields /\ DOMAIN remote = DiskFiles
    BY <1>2 DEF UploadIsSound, ClientInv
  <2>2. QED BY <1>1, <1>3, <2>1, SendFields
<1>5. \A f \in AssetPaths \cup SnippetNames : remote'[f] = remote[f]
  BY <1>3, <1>4, ClientConstants
<1>6. file \in LocalPages /\ (remote[p] # NoFile => remote[p] \in RemotePages)
  BY <1>0, <1>2, <1>4, RowTypes DEF PagesAreSent
<1>7. /\ row \in RemotePages /\ row # NoFile /\ row.text = file.text /\ row.draft = file.draft
      /\ row.type = IF p \in upload.listed /\ remote[p] # NoFile THEN remote[p].type ELSE type
      /\ type = IF file.type = "unsaid" THEN "page" ELSE file.type
  BY <1>0, <1>6, ClientConstants DEF LocalPages, RemotePages, Types
<1>8. /\ \A b \in AssetPaths : remote'[b] \in Texts \cup {NoFile, Folder}
      /\ \A m \in SnippetNames : remote'[m] \in Texts \cup {NoFile}
      /\ \A q \in PageUrls : remote'[q] \in RemotePages \cup {NoFile}
  BY <1>2, <1>3, <1>4, <1>5, <1>7, RowTypes
<1>9. \A t : Cardinality(OfType(t)) <= Cardinality(OfType(t))' /\ Cardinality(OfType(t))' \in Nat
  <2> SUFFICES ASSUME NEW t
               PROVE  Cardinality(OfType(t)) <= Cardinality(OfType(t))' /\ Cardinality(OfType(t))' \in Nat
    OBVIOUS
  <2>1. OfType(t) \subseteq OfType(t)'
    <3> SUFFICES ASSUME NEW q \in OfType(t) PROVE q \in OfType(t)'
      OBVIOUS
    <3>1. q \in PageUrls /\ remote[q] # NoFile /\ remote[q].type = t
      BY DEF OfType, On
    <3>2. remote'[q] # NoFile /\ remote'[q].type = t
      <4>1. CASE q # p
        BY <1>3, <1>4, <3>1, <4>1
      <4>2. CASE q = p
        BY <1>4, <1>7, <3>1, <4>2
      <4>3. QED BY <4>1, <4>2
    <3>3. QED BY <3>1, <3>2 DEF OfType, On
  <2>2. IsFiniteSet(OfType(t)') /\ OfType(t)' \subseteq PageUrls
    <3>1. OfType(t)' \subseteq PageUrls
      BY DEF OfType, On
    <3>2. QED BY <3>1, ClientConstants, FS_Subset
  <2>3. QED BY <2>1, <2>2, FS_Subset, FS_CardinalityType
<1>10. /\ upload.touched = {} /\ "limit" \in upload'.reasons =>
            \E t \in Types : Cardinality(OfType(t)) > MaxListed
       /\ upload.touched = {} /\ ~(allowed /\ answer = "ok") => upload'.reasons # {}
  <2> SUFFICES ASSUME upload.touched = {}
               PROVE  /\ "limit" \in upload'.reasons => \E t \in Types : Cardinality(OfType(t)) > MaxListed
                      /\ ~(allowed /\ answer = "ok") => upload'.reasons # {}
    OBVIOUS
  <2>1. upload.gone = {} /\ (p \in upload.listed => allowed)
    BY <1>2, <1>4 DEF UploadIsSound, PagesAreSent
  <2>2. ~allowed => /\ reason = {"limit"} /\ remote[p] # NoFile
                    /\ remote[p].type \in Types /\ Cardinality(OfType(remote[p].type)) > MaxListed
    BY <1>0, <1>2, <1>4, <1>6, <2>1 DEF PagesAreSent, RemotePages
  <2>3. "limit" \in upload.reasons => \E t \in Types : Cardinality(OfType(t)) > MaxListed
    BY <1>1, UploadFacts DEF LimitIsReached
  <2>4. "limit" \in upload'.reasons => "limit" \in upload.reasons \/ ~allowed
    BY <1>4 DEF Because
  <2>5. ~(allowed /\ answer = "ok") => upload'.reasons # {}
    BY <1>4, <2>2 DEF Because
  <2>6. QED BY <2>2, <2>3, <2>4, <2>5
<1>11. LimitIsReached'
  <2>1. \A t : Cardinality(OfType(t)) > MaxListed => Cardinality(OfType(t))' > MaxListed
    BY <1>9, PagesAreFinite, ClientConstants
  <2>2. QED BY <1>4, <1>10, <2>1 DEF LimitIsReached
<1>12. PagesAreSent'
  <2>1. \A q \in upload'.todo : q \in upload.todo /\ q # p /\ q \in PageUrls /\ remote'[q] = remote[q]
    BY <1>2, <1>3, <1>4 DEF PagesAreSent
  <2>2. /\ upload'.todo \subseteq PageUrls \cap DOMAIN upload'.read
        /\ \A q \in upload'.todo :
             /\ upload'.read[q] \in LocalPages
             /\ q \notin upload'.touched =>
                  upload'.read[q] = disk'[q] /\ (q \in upload'.listed => remote'[q] # NoFile)
    BY <1>2, <1>4, <2>1 DEF PagesAreSent
  <2>3. ASSUME NEW q \in Due(PageUrls)', q \notin upload'.todo PROVE PageIsSent(q)'
    <3>1. /\ q \in PageUrls /\ q \notin upload'.missed /\ q \notin upload.touched
          /\ q \in Due(PageUrls)
      BY <1>4, <2>3 DEF Due, On
    <3>2. CASE q = p
      <4>1. allowed /\ answer = "ok"
        BY <1>4, <3>1, <3>2
      <4>2. file = disk[p]
        BY <1>0, <1>2, <1>4, <3>1, <3>2 DEF PagesAreSent
      <4>3. remote'[p] = row /\ disk'[p] = file
        BY <1>4, <4>1, <4>2
      <4>4. p \in upload'.listed \/ file.type \in {"unsaid", row.type}
        BY <1>4, <1>7
      <4>5. QED BY <1>7, <3>2, <4>3, <4>4 DEF PageIsSent
    <3>3. CASE q # p
      <4>1. q \notin upload.todo
        BY <1>4, <2>3, <3>1, <3>3
      <4>2. PageIsSent(q) /\ remote'[q] = remote[q] /\ disk'[q] = disk[q]
        BY <1>2, <1>3, <1>4, <3>1, <3>3, <4>1 DEF PagesAreSent
      <4>3. QED BY <1>4, <4>2 DEF PageIsSent
    <3>4. QED BY <3>2, <3>3
  <2>4. upload'.touched = {} =>
          \A q \in upload'.todo \ upload'.listed :
             remote'[q] # NoFile => Cardinality(OfType(remote[q].type))' > MaxListed
    <3> SUFFICES ASSUME upload'.touched = {}, NEW q \in upload'.todo \ upload'.listed, remote'[q] # NoFile
                 PROVE  Cardinality(OfType(remote[q].type))' > MaxListed
      OBVIOUS
    <3>1. PICK t : t = remote[q].type
      OBVIOUS
    <3>2. Cardinality(OfType(t)) > MaxListed
      BY <1>2, <1>4, <2>1, <3>1 DEF PagesAreSent
    <3>3. Cardinality(OfType(t))' > MaxListed
      BY <1>9, <3>2, PagesAreFinite, ClientConstants
    <3>4. remote'[q].type = t
      BY <2>1, <3>1
    <3>5. QED BY <3>3, <3>4
  <2>5. QED BY <2>1, <2>2, <2>3, <2>4 DEF PagesAreSent
<1>13. FilesAreSent'
  <2>1. \A a \in Due(AssetPaths)' : a \in Due(AssetPaths) /\ remote'[a] = remote[a] /\ disk'[a] = disk[a]
    BY <1>4, <1>5 DEF Due, On
  <2>2. \A m \in Due(SnippetNames)' : m \in Due(SnippetNames) /\ remote'[m] = remote[m] /\ disk'[m] = disk[m]
    BY <1>4, <1>5 DEF Due, On
  <2>3. /\ \A a \in Due(AssetPaths) : remote[a] = disk[a]
        /\ \A m \in Due(SnippetNames) : remote[m] = disk[m]
    BY <1>1, UploadFacts DEF FilesAreSent, Past
  <2>4. QED BY <1>1, <1>4, <2>1, <2>2, <2>3 DEF FilesAreSent, Past
<1>14. /\ upload'.todo \subseteq DiskFiles /\ upload'.missed \subseteq DiskFiles
       /\ upload.reasons \subseteq upload'.reasons /\ upload'.now = NoFile
       /\ upload.touched = {} => upload'.missed = upload.missed \/ upload'.reasons # {}
  BY <1>1, <1>2, <1>3, <1>4, <1>10, UploadFacts DEF UploadIsSound
<1>15. QED
  BY <1>1, <1>4, <1>8, <1>11, <1>12, <1>13, <1>14, SendKeeps DEF Sendings

-----------------------------------------------------------------------------
LEMMA ClientStepInv == ClientInv /\ [ClientNext]_clientVars => ClientInv'
<1> SUFFICES ASSUME ClientInv, [ClientNext]_clientVars PROVE ClientInv'
  OBVIOUS
<1>1. CASE UNCHANGED clientVars
  <2> USE <1>1 DEF clientVars
  <2>1. /\ \A kind : Due(kind)' = Due(kind)
        /\ \A t : OfType(t)' = OfType(t)
        /\ \A steps : Past(steps)' = Past(steps)
        /\ \A p : PageIsSent(p)' <=> PageIsSent(p)
    BY DEF Due, On, OfType, Past, PageIsSent
  <2>2. ClientTypeOK' = ClientTypeOK
    BY DEF ClientTypeOK, IsDisk, On
  <2>3. UploadIsSound' = UploadIsSound /\ LimitIsReached' = LimitIsReached
        /\ NameAndAdAreSent' = NameAndAdAreSent /\ RedirectsAreAsBefore' = RedirectsAreAsBefore
    BY <2>1 DEF UploadIsSound, LimitIsReached, NameAndAdAreSent, RedirectsAreAsBefore
  <2>4. AssetsAreSent' = AssetsAreSent /\ SnippetsAreSent' = SnippetsAreSent
    BY <2>1 DEF AssetsAreSent, SnippetsAreSent
  <2>5. PagesAreSent' = PagesAreSent
    BY <2>1 DEF PagesAreSent
  <2>6. SiteIsPublished' = SiteIsPublished
    BY <2>1 DEF SiteIsPublished, FilesAreSent, SettingsAreSent, RedirectsAreSent,
                  FilesAreMissedForAReason, PageIsSent
  <2>7. QED BY <2>2, <2>3, <2>4, <2>5, <2>6 DEF ClientInv, UploadInv
<1>2. CASE OthersNext
  BY <1>2, OthersInv
<1>3. CASE \E given \in SUBSET Settings, list \in Lists : StartPublish(given, list)
  BY <1>3, StartInv
<1>4. ASSUME NEW answer \in Answers,
             FindWebsite(answer) \/ UpdateWebsite_(answer) \/ SaveRedirects_(answer)
      PROVE  ClientInv'
  BY <1>4, BeginInv
<1>5. ASSUME NEW answer \in Answers,
             \/ ListAssets(answer) \/ ListSnippets(answer)
             \/ \E listed \in SUBSET PageUrls : ListPages_(answer, listed)
      PROVE  ClientInv'
  BY <1>5, ListAssetsInv, ListSnippetsInv, ListPagesInv
<1>6. ASSUME NEW answer \in Answers,
             \/ \E a \in AssetPaths : DeleteOldAsset(a, answer) \/ UploadAsset(a, answer)
             \/ \E n \in SnippetNames : SendSnippet(n, answer)
             \/ \E p \in PageUrls : SendPage(p, answer)
      PROVE  ClientInv'
  BY <1>6, DeleteOldAssetInv, UploadAssetInv, SendSnippetInv, SendPageInv
<1>7. CASE NothingLeft \/ Exit_
  BY <1>7, NothingLeftInv, ExitInv
<1>8. QED BY <1>1, <1>2, <1>3, <1>4, <1>5, <1>6, <1>7 DEF ClientNext, PublishNext

(***************************************************************************)
(* When mdninja publish is done, what is on the disk is on the website,    *)
(* kind after kind, with the settings of the configuration, but for what   *)
(* others have touched meanwhile; a redirect that the website had leads    *)
(* where it led, whatever the configuration says.  If nobody touched       *)
(* anything, a file is missed only if a call failed, its folder is a file  *)
(* there, or more pages exist than are listed (publish_website.go,         *)
(* pages.go, assets.go, snippets.go; redirects_utils.go).                  *)
(***************************************************************************)
THEOREM SitePublished == ClientSpec => []SiteIsPublished
<1>1. ClientInv => SiteIsPublished
  BY DEF ClientInv
<1>2. QED BY <1>1, ClientInitInv, ClientStepInv, PTL DEF ClientSpec

(***************************************************************************)
(* The files on the disk and on the website, the settings, and what a      *)
(* publication has of them, are what the code makes of them.               *)
(***************************************************************************)
THEOREM ClientTypes == ClientSpec => []ClientTypeOK
<1>1. ClientInv => ClientTypeOK
  BY DEF ClientInv
<1>2. QED BY <1>1, ClientInitInv, ClientStepInv, PTL DEF ClientSpec

-----------------------------------------------------------------------------
(* Websites: the invariant.                                                *)

\* Requests in flight.
Active == {x \in Staff : doing[x] # "nothing"}

\* No two websites have a slug, no two domains a name, that is theirs now.
NamesAreUnique ==
    /\ \A w \in LiveWebsites : website[w].slug \in Slugs
    /\ \A v, w \in LiveWebsites : website[v].slug = website[w].slug => v = w
    /\ \A d, e \in LiveDomains : domain[d].host = domain[e].host => d = e

\* The name p is a host of a website w whose slug is slug.
IsHost(p, w, slug) ==
    \/ p = slug
    \/ \E d \in LiveDomains : domain[d].host = p /\ domain[d].site = w

\* A website is asked for, at last, at a host of its own.
PrimariesAreOwn ==
    \A w \in LiveWebsites \ disturbed : IsHost(website[w].primary, w, website[w].slug)

\* The patterns that were saved last, and those that are known to have led somewhere.
WantedPatterns(w) == DOMAIN wanted[w]
OriginalPatterns(w) == DOMAIN original[w]

\* A website has a redirect for each pattern that was saved last, to where it led first.
HasRedirects(w) ==
    /\ {redirect[r].pattern : r \in LiveRedirects(w)} = DOMAIN wanted[w]
    /\ \A r, s \in LiveRedirects(w) : redirect[r].pattern = redirect[s].pattern => r = s
    /\ \A r \in LiveRedirects(w) : redirect[r].to = original[w][redirect[r].pattern]

\* Redirects are those of a website that is there, which has what was saved last.
RedirectsAreOnce ==
    /\ \A w \in WebsiteIDs : \A r \in LiveRedirects(w) : w \in LiveWebsites
    /\ \A r \in RedirectIDs : redirect[r].state = "live" => redirect[r].site \in WebsiteIDs
    /\ \A w \in WebsiteIDs : /\ OriginalPatterns(w) = WantedPatterns(w)
                             /\ website[w].state = "new" => WantedPatterns(w) = {}
    /\ \A w \in LiveWebsites \ disturbed : HasRedirects(w)

\* What a request was told, which nothing changes.
IsAsked(x) ==
    /\ edits[x] \in WebsiteIDs /\ website[edits[x]].state # "new"
    /\ copied[x].state = "live" /\ copied[x].slug \in Slugs
    /\ doing[x] \in {"add", "add primary", "remove", "remove primary"} => named[x] \in DomainIDs
    /\ doing[x] = "add primary" => copied[x].primary = domain[named[x]].host
    /\ doing[x] = "update" /\ named[x] # NoDomain => copied[x].primary = domain[named[x]].host
    /\ doing[x] \in {"remove", "remove primary"} =>
         domain[named[x]].site = edits[x] /\ domain[named[x]].state # "new"
    /\ doing[x] = "remove primary" => copied[x].primary = copied[x].slug
    /\ changes[x].create \subseteq DOMAIN changes[x].want
    /\ \A r \in changes[x].remove : redirect[r].site = edits[x] /\ redirect[r].state # "new"

\* What a request read, which is so unless it is outdated.
IsCurrent(x) ==
    LET w == edits[x]
        d == named[x]
    IN  /\ w \in LiveWebsites
        /\ doing[x] = "update" /\ d # NoDomain => d \in LiveDomains
        /\ doing[x] = "update" /\ d = NoDomain /\ w \notin disturbed =>
             IsHost(copied[x].primary, w, copied[x].slug)
        /\ doing[x] = "remove" => website[w].primary # domain[d].host
        /\ doing[x] = "redirect" =>
             changes[x] = DiffRedirects(LiveRedirects(w), changes[x].want)

\* A request that is neither over nor outdated writes what it has read.
RequestsAreSound ==
    /\ \A x \in Staff : doing[x] = "nothing" => edits[x] = NoWebsite
    /\ outdated \subseteq Active
    /\ \A x \in Active : IsAsked(x)
    /\ \A x \in Active \ outdated : IsCurrent(x)

WebsitesInv ==
    /\ WebsitesTypeOK /\ NamesAreUnique /\ PrimariesAreOwn /\ RedirectsAreOnce /\ RequestsAreSound

LEMMA WebsitesInitInv == WebsitesInit => WebsitesInv
<1> SUFFICES ASSUME WebsitesInit PROVE WebsitesInv
  OBVIOUS
<1>1. LiveWebsites = {} /\ LiveDomains = {} /\ \A r \in RedirectIDs : redirect[r].state = "new"
  BY DEF WebsitesInit, LiveWebsites, LiveDomains, NewWebsite
<1>2. WebsitesTypeOK
  <2>1. NewWebsite \in Website /\ NewWebsite.state = "new"
    BY DEF NewWebsite, Website
  <2>2. NoChanges \in Changes
    BY ListFacts DEF NoChanges, Changes
  <2>3. wanted \in [WebsiteIDs -> Lists] /\ original \in [WebsiteIDs -> Lists]
    BY ListFacts DEF WebsitesInit
  <2> QED
    BY <1>1, <2>1, <2>2, <2>3 DEF WebsitesInit, WebsitesTypeOK
<1>3. NamesAreUnique /\ PrimariesAreOwn
  BY <1>1 DEF NamesAreUnique, PrimariesAreOwn
<1>4. RedirectsAreOnce
  <2>1. \A w \in WebsiteIDs : OriginalPatterns(w) = {} /\ WantedPatterns(w) = {}
    BY ListFacts DEF OriginalPatterns, WantedPatterns, WebsitesInit
  <2> QED BY <1>1, <2>1 DEF RedirectsAreOnce, LiveRedirects
<1>5. RequestsAreSound
  BY DEF WebsitesInit, RequestsAreSound, Active
<1> QED
  BY <1>2, <1>3, <1>4, <1>5 DEF WebsitesInv

-----------------------------------------------------------------------------
\* Rows stay rows, and are of the website they were made for.
RowsRemain ==
    /\ \A w \in WebsiteIDs : website[w].state # "new" => website'[w].state # "new"
    /\ \A d \in DomainIDs : /\ domain'[d].host = domain[d].host
                            /\ domain[d].state # "new" =>
                                 domain'[d].state # "new" /\ domain'[d].site = domain[d].site
    /\ \A r \in RedirectIDs : redirect[r].state # "new" =>
                                 redirect'[r].state # "new" /\ redirect'[r].site = redirect[r].site

\* What is read of the website v is as it was.
Leaves(v) ==
    /\ website'[v] = website[v] /\ LiveDomains \subseteq LiveDomains'
    /\ \A r \in RedirectIDs :
         \/ redirect[r].state = "live" /\ redirect[r].site = v
         \/ redirect'[r].state = "live" /\ redirect'[r].site = v
         => redirect'[r] = redirect[r]
    /\ v \in disturbed => v \in disturbed'

SameRequest(x) ==
    /\ doing'[x] = doing[x] /\ edits'[x] = edits[x] /\ copied'[x] = copied[x]
    /\ named'[x] = named[x] /\ changes'[x] = changes[x]

\* What a request was told, and what it read of a website that is left alone, stays.
LEMMA AskedStays ==
    ASSUME WebsitesInv, RowsRemain, NEW x \in Active, SameRequest(x)
    PROVE  IsAsked(x)'
<1>0. x \in Staff /\ doing[x] # "nothing" /\ WebsitesTypeOK /\ IsAsked(x)
  BY DEF Active, WebsitesInv, RequestsAreSound
<1>1. PICK w : w = edits[x]
  OBVIOUS
<1>2. PICK d : d = named[x]
  OBVIOUS
<1>3. PICK c : c = changes[x]
  OBVIOUS
<1>4. c.remove \subseteq RedirectIDs
  BY <1>0, <1>3 DEF WebsitesTypeOK, Changes
<1> QED
  BY <1>0, <1>1, <1>2, <1>3, <1>4 DEF IsAsked, RowsRemain, SameRequest, WebsitesTypeOK

LEMMA CurrentStays ==
    ASSUME WebsitesInv, RowsRemain, NEW x \in Active, SameRequest(x), IsCurrent(x), Leaves(edits[x])
    PROVE  IsCurrent(x)'
<1>0. x \in Staff /\ doing[x] # "nothing" /\ WebsitesTypeOK /\ IsAsked(x)
  BY DEF Active, WebsitesInv, RequestsAreSound
<1>1. PICK w : w = edits[x]
  OBVIOUS
<1>2. PICK d : d = named[x]
  OBVIOUS
<1>3. w \in LiveWebsites /\ w \in LiveWebsites' /\ website'[w] = website[w]
  BY <1>1 DEF Leaves, LiveWebsites, IsCurrent
<1>4. LiveRedirects(w)' = LiveRedirects(w) /\ \A r \in LiveRedirects(w) : redirect'[r] = redirect[r]
  BY <1>1 DEF Leaves, LiveRedirects
<1>5. DiffRedirects(LiveRedirects(w), changes[x].want)' = DiffRedirects(LiveRedirects(w), changes[x].want)
  <2>1. PICK c : c = changes[x]
    OBVIOUS
  <2>2. c = changes'[x]
    BY <2>1 DEF SameRequest
  <2>3. PICK L : L = LiveRedirects(w)
    OBVIOUS
  <2>4. L = LiveRedirects(w)'
    BY <2>3, <1>4
  <2>5. {redirect'[r].pattern : r \in L} = {redirect[r].pattern : r \in L}
    BY <1>4, <2>3
  <2>6. {r \in L : redirect'[r].pattern \notin DOMAIN c.want}
          = {r \in L : redirect[r].pattern \notin DOMAIN c.want}
    BY <1>4, <2>3
  <2> QED
    BY <2>1, <2>2, <2>3, <2>4, <2>5, <2>6 DEF DiffRedirects
<1>6. doing[x] = "redirect" => changes'[x] = DiffRedirects(LiveRedirects(w), changes[x].want)'
  BY <1>1, <1>5 DEF IsCurrent, SameRequest
<1>7. doing[x] = "update" /\ d = NoDomain /\ w \notin disturbed' =>
         IsHost(copied[x].primary, w, copied[x].slug)'
  <2>1. PICK row : row = copied[x]
    OBVIOUS
  <2>2. row = copied'[x]
    BY <2>1 DEF SameRequest
  <2>3. SUFFICES ASSUME IsHost(row.primary, w, row.slug) PROVE IsHost(row.primary, w, row.slug)'
    BY <1>1, <1>2, <2>1, <2>2 DEF IsCurrent, Leaves
  <2>4. CASE row.primary = row.slug
    BY <2>4 DEF IsHost
  <2>5. ASSUME NEW e \in LiveDomains, domain[e].host = row.primary, domain[e].site = w
        PROVE IsHost(row.primary, w, row.slug)'
    <3>1. e \in LiveDomains' /\ domain'[e].host = row.primary /\ domain'[e].site = w
      BY <2>5 DEF Leaves, LiveDomains, RowsRemain
    <3> QED
      BY <3>1 DEF IsHost
  <2> QED
    BY <2>3, <2>4, <2>5 DEF IsHost
<1>8. doing[x] = "update" /\ d # NoDomain => d \in LiveDomains'
  BY <1>2 DEF IsCurrent, Leaves
<1>9. doing[x] = "remove" => website'[w].primary # domain'[d].host
  BY <1>0, <1>1, <1>2, <1>3 DEF IsCurrent, RowsRemain, IsAsked
<1>10. doing'[x] = doing[x] /\ edits'[x] = w /\ named'[x] = d
  BY <1>1, <1>2 DEF SameRequest
<1> QED
  BY <1>3, <1>6, <1>7, <1>8, <1>9, <1>10 DEF IsCurrent

\* A request ends, and marks whoever read what it wrote.
LEMMA FinishSound ==
    ASSUME WebsitesInv, RowsRemain, NEW x \in Staff, NEW sites \in SUBSET WebsiteIDs, Finish(x, sites),
           \A v \in WebsiteIDs \ sites : Leaves(v)
    PROVE  RequestsAreSound'
<1>0. WebsitesTypeOK /\ RequestsAreSound
  BY DEF WebsitesInv
<1>1. doing' = [doing EXCEPT ![x] = "nothing"] /\ edits' = [edits EXCEPT ![x] = NoWebsite]
  BY DEF Finish
<1>2. \A y \in Staff \ {x} : SameRequest(y)
  BY <1>0 DEF Finish, SameRequest, WebsitesTypeOK
<1>3. Active' = Active \ {x}
  BY <1>0, <1>1 DEF Active, WebsitesTypeOK
<1>4. outdated' = (outdated \cup {y \in Staff : edits[y] \in sites}) \ {x}
  BY DEF Finish
<1>5. \A y \in Staff : doing'[y] = "nothing" => edits'[y] = NoWebsite
  BY <1>0, <1>1 DEF RequestsAreSound, WebsitesTypeOK
<1>6. ASSUME NEW y \in Active' PROVE IsAsked(y)'
  BY <1>2, <1>3, AskedStays DEF Active
<1>7. ASSUME NEW y \in Active' \ outdated' PROVE IsCurrent(y)'
  <2>1. y \in Active /\ y \in Staff /\ SameRequest(y) /\ y \notin outdated /\ edits[y] \notin sites
    BY <1>2, <1>3, <1>4 DEF Active
  <2>2. IsCurrent(y) /\ IsAsked(y)
    BY <1>0, <2>1 DEF RequestsAreSound
  <2>3. edits[y] \in WebsiteIDs
    BY <2>2 DEF IsAsked
  <2>4. Leaves(edits[y])
    <3>1. PICK v : v = edits[y]
      OBVIOUS
    <3>2. Leaves(v)
      BY <3>1, <2>1, <2>3
    <3> QED
      BY <3>1, <3>2
  <2> QED
    BY <2>1, <2>2, <2>4, CurrentStays
<1>8. \A y \in Staff : y \in outdated' => y \in Active'
  <2> SUFFICES ASSUME NEW y \in Staff, y \in outdated' PROVE y \in Active'
    OBVIOUS
  <2>1. y # x /\ (y \in outdated \/ edits[y] \in sites)
    BY <1>4
  <2>2. y \in Active
    BY <2>1, <1>0, WebsitesAssumption DEF RequestsAreSound, Active
  <2> QED
    BY <2>1, <2>2, <1>3
<1>9. outdated' \subseteq Active'
  BY <1>8, <1>4, <1>0 DEF WebsitesTypeOK
<1> QED
  BY <1>5, <1>6, <1>7, <1>9 DEF RequestsAreSound

\* A request that is over has no row, domain or redirects.
LEMMA FinishTypes ==
    ASSUME WebsitesInv, NEW x \in Staff, NEW sites, Finish(x, sites)
    PROVE  /\ doing' \in [Staff -> {"nothing", "update", "add", "add primary", "remove",
                                    "remove primary", "redirect", "icon"}]
           /\ edits' \in [Staff -> WebsiteIDs \cup {NoWebsite}]
           /\ copied' \in [Staff -> Website]
           /\ named' \in [Staff -> DomainIDs \cup {NoDomain}]
           /\ changes' \in [Staff -> Changes]
           /\ outdated' \subseteq Staff
<1>1. NewWebsite \in Website /\ NoChanges \in Changes
  BY ListFacts DEF NewWebsite, Website, NoChanges, Changes
<1> QED
  BY <1>1 DEF WebsitesInv, WebsitesTypeOK, Finish

\* Redirects stay as they are, and the websites that have some stay.
LEMMA RedirectsStay ==
    ASSUME WebsitesInv, UNCHANGED <<redirect, wanted, original>>, LiveWebsites' = LiveWebsites,
           \A w \in WebsiteIDs : website'[w].state = "new" => website[w].state = "new",
           disturbed \subseteq disturbed'
    PROVE  RedirectsAreOnce'
<1>1. \A w : LiveRedirects(w)' = LiveRedirects(w)
  BY DEF LiveRedirects
<1>2. RedirectsAreOnce
  BY DEF WebsitesInv
<1>3. ASSUME NEW w \in LiveWebsites' \ disturbed' PROVE HasRedirects(w)'
  <2>1. HasRedirects(w)
    BY <1>2, <1>3 DEF RedirectsAreOnce
  <2> QED
    BY <2>1 DEF HasRedirects, LiveRedirects
<1>4. \A w \in WebsiteIDs : \A r \in LiveRedirects(w)' : w \in LiveWebsites'
  BY <1>1, <1>2 DEF RedirectsAreOnce
<1>5. \A r \in RedirectIDs : redirect'[r].state = "live" => redirect'[r].site \in WebsiteIDs
  BY <1>2 DEF RedirectsAreOnce
<1>6. \A w \in WebsiteIDs : /\ OriginalPatterns(w)' = WantedPatterns(w)'
                            /\ website'[w].state = "new" => WantedPatterns(w)' = {}
  <2>1. \A w : OriginalPatterns(w)' = OriginalPatterns(w) /\ WantedPatterns(w)' = WantedPatterns(w)
    BY DEF OriginalPatterns, WantedPatterns
  <2> QED
    BY <2>1, <1>2 DEF RedirectsAreOnce
<1> QED
  BY <1>3, <1>4, <1>5, <1>6 DEF RedirectsAreOnce

\* A website whose rows of redirects stay has what it had.
LEMMA RedirectsRemain ==
    ASSUME NEW w, HasRedirects(w), LiveRedirects(w)' = LiveRedirects(w),
           \A r \in LiveRedirects(w) : redirect'[r] = redirect[r],
           wanted'[w] = wanted[w], original'[w] = original[w]
    PROVE  HasRedirects(w)'
<1>1. PICK L : L = LiveRedirects(w)
  OBVIOUS
<1>2. L = LiveRedirects(w)' /\ \A r \in L : redirect'[r] = redirect[r]
  BY <1>1
<1>3. /\ {redirect[r].pattern : r \in L} = DOMAIN wanted[w]
      /\ \A r, s \in L : redirect[r].pattern = redirect[s].pattern => r = s
      /\ \A r \in L : redirect[r].to = original[w][redirect[r].pattern]
  BY <1>1 DEF HasRedirects
<1>4. {redirect'[r].pattern : r \in L} = {redirect[r].pattern : r \in L}
  BY <1>2
<1> QED
  BY <1>2, <1>3, <1>4 DEF HasRedirects

\* A request begins: it is told what is asked, and reads what is so.
LEMMA BeginSound ==
    ASSUME WebsitesInv, NEW x \in Staff, doing[x] = "nothing", doing'[x] # "nothing",
           doing' \in [Staff -> {"nothing", "update", "add", "add primary", "remove",
                                    "remove primary", "redirect", "icon"}],
           edits' \in [Staff -> WebsiteIDs \cup {NoWebsite}],
           copied' \in [Staff -> Website],
           named' \in [Staff -> DomainIDs \cup {NoDomain}],
           changes' \in [Staff -> Changes],
           UNCHANGED <<tableVars, historyVars>>,
           \A y \in Staff \ {x} : SameRequest(y), IsAsked(x)', IsCurrent(x)'
    PROVE  WebsitesInv'
<1>0. WebsitesTypeOK /\ RequestsAreSound
  BY DEF WebsitesInv
<1> USE DEF tableVars, historyVars
<1>1. WebsitesTypeOK'
  BY <1>0 DEF WebsitesTypeOK, LiveDomains, LiveWebsites
<1>2. NamesAreUnique'
  BY DEF WebsitesInv, NamesAreUnique, LiveWebsites, LiveDomains
<1>3. PrimariesAreOwn'
  BY DEF WebsitesInv, PrimariesAreOwn, LiveWebsites, LiveDomains, IsHost
<1>4. RedirectsAreOnce'
  <2>1. LiveWebsites' = LiveWebsites
    BY DEF LiveWebsites
  <2> QED
    BY <2>1, RedirectsStay
<1>5. RowsRemain /\ \A v \in WebsiteIDs : Leaves(v)
  BY DEF RowsRemain, Leaves, LiveDomains
<1>6. Active' = Active \cup {x}
  BY DEF Active, SameRequest
<1>7. ASSUME NEW y \in Active' PROVE IsAsked(y)'
  <2>1. CASE y = x
    BY <2>1
  <2>2. CASE y # x
    BY <2>2, <1>5, <1>6, AskedStays DEF Active
  <2> QED
    BY <2>1, <2>2
<1>8. ASSUME NEW y \in Active' \ outdated' PROVE IsCurrent(y)'
  <2>1. CASE y = x
    BY <2>1
  <2>2. CASE y # x
    <3>1. y \in Active /\ y \in Staff /\ SameRequest(y) /\ IsCurrent(y) /\ IsAsked(y)
      BY <2>2, <1>0, <1>6 DEF Active, RequestsAreSound
    <3>2. PICK v : v = edits[y]
      OBVIOUS
    <3>3. Leaves(v)
      BY <3>1, <3>2, <1>5 DEF IsAsked
    <3>4. Leaves(edits[y])
      BY <3>2, <3>3
    <3> QED
      BY <3>1, <3>4, <1>5, CurrentStays
  <2> QED
    BY <2>1, <2>2
<1>9. RequestsAreSound'
  BY <1>0, <1>6, <1>7, <1>8 DEF RequestsAreSound, SameRequest, Active
<1> QED
  BY <1>1, <1>2, <1>3, <1>4, <1>9 DEF WebsitesInv

\* What must hold of a row, a domain and the redirects that a request is going to write.
LEMMA BeginRequestInv ==
    ASSUME WebsitesInv, NEW x \in Staff, NEW w \in LiveWebsites, NEW row \in Website,
           NEW what, NEW d, NEW c, Begin(x, what, w, row, d, c),
           what \in {"update", "add", "add primary", "remove",
                     "remove primary", "redirect", "icon"},
           d \in DomainIDs \cup {NoDomain}, c \in Changes,
           row.state = "live", row.slug \in Slugs,
           what \in {"add", "add primary", "remove", "remove primary"} => d \in DomainIDs,
           what = "add primary" => row.primary = domain[d].host,
           what = "update" /\ d # NoDomain => row.primary = domain[d].host /\ d \in LiveDomains,
           what \in {"remove", "remove primary"} =>
               domain[d].site = w /\ domain[d].state # "new",
           what = "remove primary" => row.primary = row.slug,
           what = "update" /\ d = NoDomain /\ w \notin disturbed => IsHost(row.primary, w, row.slug),
           what = "remove" => website[w].primary # domain[d].host,
           what # "redirect" => c.remove = {} /\ c.create = {},
           what = "redirect" => c = DiffRedirects(LiveRedirects(w), c.want)
    PROVE  WebsitesInv'
<1>0. w \in WebsiteIDs /\ website[w].state = "live"
  BY DEF LiveWebsites
<1>1. /\ doing[x] = "nothing"
      /\ doing' \in [Staff -> {"nothing", "update", "add", "add primary", "remove",
                               "remove primary", "redirect", "icon"}]
      /\ edits' \in [Staff -> WebsiteIDs \cup {NoWebsite}]
      /\ copied' \in [Staff -> Website]
      /\ named' \in [Staff -> DomainIDs \cup {NoDomain}]
      /\ changes' \in [Staff -> Changes]
      /\ UNCHANGED <<website, domain, redirect, outdated, disturbed, wanted, original>>
      /\ \A y \in Staff \ {x} : SameRequest(y)
      /\ doing'[x] = what /\ edits'[x] = w /\ copied'[x] = row
      /\ named'[x] = d /\ changes'[x] = c
  BY <1>0 DEF WebsitesInv, WebsitesTypeOK, Begin, SameRequest, tableVars, historyVars
<1>2. /\ \A r \in c.remove : redirect[r].site = w /\ redirect[r].state # "new"
      /\ c.create \subseteq DOMAIN c.want
  <2>1. CASE what # "redirect"
    BY <2>1
  <2>2. CASE what = "redirect"
    <3>1. /\ c.remove = {r \in LiveRedirects(w) : redirect[r].pattern \notin DOMAIN c.want}
          /\ c.create = DOMAIN c.want \ {redirect[r].pattern : r \in LiveRedirects(w)}
      BY <2>2 DEF DiffRedirects
    <3> QED
      BY <3>1 DEF LiveRedirects
  <2> QED
    BY <2>1, <2>2
<1>3. IsAsked(x)'
  BY <1>0, <1>1, <1>2 DEF IsAsked
<1>4. LiveWebsites' = LiveWebsites /\ LiveDomains' = LiveDomains
  BY <1>1 DEF LiveWebsites, LiveDomains
<1>5. DiffRedirects(LiveRedirects(w), c.want)' = DiffRedirects(LiveRedirects(w), c.want)
  BY <1>1 DEF DiffRedirects, LiveRedirects
<1>6. IsHost(row.primary, w, row.slug)' <=> IsHost(row.primary, w, row.slug)
  BY <1>1, <1>4 DEF IsHost
<1>7. IsCurrent(x)'
  BY <1>1, <1>4, <1>5, <1>6 DEF IsCurrent
<1> QED
  BY <1>1, <1>3, <1>7, BeginSound DEF tableVars, historyVars

-----------------------------------------------------------------------------
(* Websites: what the requests read and decide.                            *)

\* What is known of a website and a domain that are there.
LEMMA RowFacts ==
    ASSUME WebsitesInv
    PROVE  /\ NoChanges \in Changes /\ NoChanges.remove = {} /\ NoChanges.create = {}
           /\ \A w \in LiveWebsites :
                /\ w \in WebsiteIDs /\ website[w] \in Website
                /\ website[w].state = "live" /\ website[w].slug \in Slugs
                /\ w \notin disturbed => IsHost(website[w].primary, w, website[w].slug)
           /\ \A d \in LiveDomains : /\ d \in DomainIDs /\ domain[d] \in Domain
                                     /\ domain[d].state = "live" /\ domain[d].site \in LiveWebsites
           /\ \A d \in DomainIDs : domain[d].host \in Hostnames
  BY ListFacts
     DEF WebsitesInv, WebsitesTypeOK, NamesAreUnique, PrimariesAreOwn, LiveWebsites, LiveDomains,
         NoChanges, Changes, Domain, Website

LEMMA UpdateWebsiteInv ==
    ASSUME WebsitesInv, NEW x \in Staff, NEW w \in WebsiteIDs, NEW slug \in Slugs \cup {NoSlug},
           NEW blocked \in BOOLEAN, UpdateWebsite(x, w, slug, blocked)
    PROVE  WebsitesInv'
<1>1. PICK old : old = website[w]
  OBVIOUS
<1>2. w \in LiveWebsites
  BY DEF UpdateWebsite
<1>3. /\ old \in Website /\ old.state = "live" /\ old.slug \in Slugs
      /\ w \notin disturbed => IsHost(old.primary, w, old.slug)
  BY <1>1, <1>2, RowFacts
<1>4. PICK row : row = UpdatedRow(w, slug, blocked)
  OBVIOUS
<1>5. /\ row \in Website /\ row.state = "live"
      /\ row.slug = IF slug = NoSlug THEN old.slug ELSE slug
      /\ row.primary = IF slug # NoSlug /\ old.primary \in Slugs THEN slug ELSE old.primary
  BY <1>1, <1>3, <1>4 DEF UpdatedRow, Website
<1>6. row.slug \in Slugs
  BY <1>3, <1>5
<1>7. ASSUME w \notin disturbed PROVE IsHost(row.primary, w, row.slug)
  <2>1. IsHost(old.primary, w, old.slug)
    BY <1>3, <1>7
  <2>2. CASE slug # NoSlug /\ old.primary \in Slugs
    BY <2>2, <1>5 DEF IsHost
  <2>3. CASE slug = NoSlug
    BY <2>1, <2>3, <1>5 DEF IsHost
  <2>4. CASE slug # NoSlug /\ old.primary \notin Slugs
    <3>1. old.primary # old.slug
      BY <2>4, <1>3
    <3> QED
      BY <2>1, <2>4, <3>1, <1>5 DEF IsHost
  <2> QED
    BY <2>2, <2>3, <2>4
<1>8. Begin(x, "update", w, row, NoDomain, NoChanges)
  BY <1>4 DEF UpdateWebsite
<1>9. NoChanges \in Changes /\ NoChanges.remove = {} /\ NoChanges.create = {}
  BY RowFacts
<1> QED
  BY <1>2, <1>5, <1>6, <1>7, <1>8, <1>9, BeginRequestInv

LEMMA AddDomainInv ==
    ASSUME WebsitesInv, NEW x \in Staff, NEW w \in WebsiteIDs, NEW d \in DomainIDs,
           NEW primary \in BOOLEAN, AddDomain(x, w, d, primary)
    PROVE  WebsitesInv'
<1>1. PICK old : old = website[w]
  OBVIOUS
<1>2. w \in LiveWebsites
  BY DEF AddDomain
<1>3. /\ old \in Website /\ old.state = "live" /\ old.slug \in Slugs
      /\ domain[d].host \in Hostnames
  BY <1>1, <1>2, RowFacts
<1>4. PICK row : row = [old EXCEPT !.primary = IF primary THEN domain[d].host ELSE @]
  OBVIOUS
<1>5. /\ row \in Website /\ row.state = "live" /\ row.slug \in Slugs
      /\ primary => row.primary = domain[d].host
  BY <1>3, <1>4 DEF Website
<1>6. Begin(x, IF primary THEN "add primary" ELSE "add", w, row, d, NoChanges)
  BY <1>1, <1>4 DEF AddDomain
<1>7. NoChanges \in Changes /\ NoChanges.remove = {} /\ NoChanges.create = {}
  BY RowFacts
<1>8. CASE primary
  <2>1. Begin(x, "add primary", w, row, d, NoChanges)
    BY <1>6, <1>8
  <2> QED
    BY <1>2, <1>5, <1>7, <1>8, <2>1, BeginRequestInv
<1>9. CASE ~primary
  <2>1. Begin(x, "add", w, row, d, NoChanges)
    BY <1>6, <1>9
  <2> QED
    BY <1>2, <1>5, <1>7, <2>1, BeginRequestInv
<1> QED
  BY <1>8, <1>9

LEMMA SetDomainAsPrimaryInv ==
    ASSUME WebsitesInv, NEW x \in Staff, NEW w \in WebsiteIDs, NEW d \in DomainIDs,
           SetDomainAsPrimary(x, w, d)
    PROVE  WebsitesInv'
<1>1. PICK old : old = website[w]
  OBVIOUS
<1>2. w \in LiveWebsites /\ d \in LiveDomains /\ d # NoDomain
  BY WebsitesAssumption DEF SetDomainAsPrimary
<1>3. /\ old \in Website /\ old.state = "live" /\ old.slug \in Slugs
      /\ domain[d].host \in Hostnames
  BY <1>1, <1>2, RowFacts
<1>4. PICK row : row = [old EXCEPT !.primary = domain[d].host]
  OBVIOUS
<1>5. row \in Website /\ row.state = "live" /\ row.slug \in Slugs /\ row.primary = domain[d].host
  BY <1>3, <1>4 DEF Website
<1>6. Begin(x, "update", w, row, d, NoChanges)
  BY <1>1, <1>4 DEF SetDomainAsPrimary
<1>7. NoChanges \in Changes /\ NoChanges.remove = {} /\ NoChanges.create = {}
  BY RowFacts
<1> QED
  BY <1>2, <1>5, <1>6, <1>7, BeginRequestInv

LEMMA SetSubdomainAsPrimaryInv ==
    ASSUME WebsitesInv, NEW x \in Staff, NEW w \in WebsiteIDs, SetSubdomainAsPrimary(x, w)
    PROVE  WebsitesInv'
<1>1. PICK old : old = website[w]
  OBVIOUS
<1>2. w \in LiveWebsites
  BY DEF SetSubdomainAsPrimary
<1>3. old \in Website /\ old.state = "live" /\ old.slug \in Slugs
  BY <1>1, <1>2, RowFacts
<1>4. PICK row : row = [old EXCEPT !.primary = old.slug]
  OBVIOUS
<1>5. /\ row \in Website /\ row.state = "live" /\ row.slug \in Slugs
      /\ IsHost(row.primary, w, row.slug)
  BY <1>3, <1>4 DEF Website, IsHost
<1>6. Begin(x, "update", w, row, NoDomain, NoChanges)
  BY <1>1, <1>4 DEF SetSubdomainAsPrimary
<1>7. NoChanges \in Changes /\ NoChanges.remove = {} /\ NoChanges.create = {}
  BY RowFacts
<1> QED
  BY <1>2, <1>5, <1>6, <1>7, BeginRequestInv

LEMMA RemoveDomainInv ==
    ASSUME WebsitesInv, NEW x \in Staff, NEW d \in DomainIDs, RemoveDomain(x, d)
    PROVE  WebsitesInv'
<1>1. PICK w : w = domain[d].site
  OBVIOUS
<1>2. PICK old : old = website[w]
  OBVIOUS
<1>3. d \in LiveDomains
  BY DEF RemoveDomain
<1>4. w \in LiveWebsites /\ domain[d].state = "live"
  BY <1>1, <1>3, RowFacts
<1>5. old \in Website /\ old.state = "live" /\ old.slug \in Slugs
  BY <1>2, <1>4, RowFacts
<1>6. NoChanges \in Changes /\ NoChanges.remove = {} /\ NoChanges.create = {}
  BY RowFacts
<1>7. CASE old.primary = domain[d].host
  <2>1. PICK row : row = [old EXCEPT !.primary = old.slug]
    OBVIOUS
  <2>2. row \in Website /\ row.state = "live" /\ row.slug \in Slugs /\ row.primary = row.slug
    BY <1>5, <2>1 DEF Website
  <2>3. Begin(x, "remove primary", w, row, d, NoChanges)
    BY <1>1, <1>2, <1>7, <2>1 DEF RemoveDomain
  <2> QED
    BY <1>1, <1>4, <1>6, <2>2, <2>3, BeginRequestInv
<1>8. CASE old.primary # domain[d].host
  <2>1. Begin(x, "remove", w, old, d, NoChanges)
    BY <1>1, <1>2, <1>8 DEF RemoveDomain
  <2> QED
    BY <1>1, <1>2, <1>4, <1>5, <1>6, <1>8, <2>1, BeginRequestInv
<1> QED
  BY <1>7, <1>8

LEMMA SaveRedirectsInv ==
    ASSUME WebsitesInv, NEW x \in Staff, NEW w \in WebsiteIDs, NEW list \in Lists,
           SaveRedirects(x, w, list)
    PROVE  WebsitesInv'
<1>1. PICK old : old = website[w]
  OBVIOUS
<1>2. w \in LiveWebsites
  BY DEF SaveRedirects
<1>3. old \in Website /\ old.state = "live" /\ old.slug \in Slugs
  BY <1>1, <1>2, RowFacts
<1>4. PICK c : c = DiffRedirects(LiveRedirects(w), list)
  OBVIOUS
<1>5. c.want = list /\ c \in Changes
  BY <1>4, ListFacts DEF DiffRedirects, Changes, LiveRedirects
<1>6. c = DiffRedirects(LiveRedirects(w), c.want)
  BY <1>4, <1>5
<1>7. Begin(x, "redirect", w, old, NoDomain, c)
  BY <1>1, <1>4 DEF SaveRedirects
<1> QED
  BY <1>2, <1>3, <1>5, <1>6, <1>7, BeginRequestInv

LEMMA UpdateWebsiteIconInv ==
    ASSUME WebsitesInv, NEW x \in Staff, NEW w \in WebsiteIDs, UpdateWebsiteIcon(x, w)
    PROVE  WebsitesInv'
<1>1. PICK old : old = website[w]
  OBVIOUS
<1>2. w \in LiveWebsites
  BY DEF UpdateWebsiteIcon
<1>3. old \in Website /\ old.state = "live" /\ old.slug \in Slugs
  BY <1>1, <1>2, RowFacts
<1>4. Begin(x, "icon", w, old, NoDomain, NoChanges)
  BY <1>1 DEF UpdateWebsiteIcon
<1>5. NoChanges \in Changes /\ NoChanges.remove = {} /\ NoChanges.create = {}
  BY RowFacts
<1> QED
  BY <1>2, <1>3, <1>4, <1>5, BeginRequestInv

-----------------------------------------------------------------------------
(* Websites: what the requests write.                                      *)

\* A commit: the tables stay in order, and whoever read what is changed is marked.
LEMMA CommitInv ==
    ASSUME WebsitesInv, RowsRemain, NEW x \in Staff, NEW sites \in SUBSET WebsiteIDs,
           Finish(x, sites), \A v \in WebsiteIDs \ sites : Leaves(v),
           website' \in [WebsiteIDs -> Website], domain' \in [DomainIDs -> Domain],
           redirect' \in [RedirectIDs -> Redirect],
           \A d \in LiveDomains' : domain'[d].site \in LiveWebsites',
           disturbed' \subseteq WebsiteIDs,
           wanted' \in [WebsiteIDs -> Lists], original' \in [WebsiteIDs -> Lists],
           NamesAreUnique', PrimariesAreOwn', RedirectsAreOnce'
    PROVE  WebsitesInv'
<1>1. WebsitesTypeOK'
  BY FinishTypes DEF WebsitesTypeOK
<1>2. RequestsAreSound'
  BY FinishSound
<1> QED
  BY <1>1, <1>2 DEF WebsitesInv

\* Slugs stay apart, since a row is written only if no other website has its slug.
LEMMA WriteKeeps ==
    ASSUME WebsitesInv, NEW w \in WebsiteIDs, NEW row \in Website, row.state = "live",
           row.slug \in Slugs, WriteWebsite(w, row)
    PROVE  /\ website' \in [WebsiteIDs -> Website] /\ LiveWebsites' = LiveWebsites
           /\ \A v \in WebsiteIDs : website'[v].state = website[v].state
           /\ \A v \in WebsiteIDs \ {w} : website'[v] = website[v]
           /\ w \in LiveWebsites => website'[w] = row
           /\ \A v \in LiveWebsites : website'[v].slug \in Slugs
           /\ \A u, v \in LiveWebsites : website'[u].slug = website'[v].slug => u = v
<1>1. website \in [WebsiteIDs -> Website]
  BY DEF WebsitesInv, WebsitesTypeOK
<1>2. /\ \A v \in LiveWebsites : website[v].slug \in Slugs
      /\ \A u, v \in LiveWebsites : website[u].slug = website[v].slug => u = v
  BY DEF WebsitesInv, NamesAreUnique
<1>3. CASE w \notin LiveWebsites
  <2>1. website' = website
    BY <1>3 DEF WriteWebsite
  <2> QED
    BY <1>1, <1>2, <1>3, <2>1 DEF LiveWebsites
<1>4. CASE w \in LiveWebsites
  <2>1. website' = [website EXCEPT ![w] = row]
    BY <1>4 DEF WriteWebsite
  <2>2. website'[w] = row /\ \A v \in WebsiteIDs \ {w} : website'[v] = website[v]
    BY <1>1, <2>1
  <2>3. website' \in [WebsiteIDs -> Website]
    BY <1>1, <2>1
  <2>4. \A v \in WebsiteIDs : website'[v].state = website[v].state
    BY <1>4, <2>2 DEF LiveWebsites
  <2>5. LiveWebsites' = LiveWebsites
    BY <2>4 DEF LiveWebsites
  <2>6. \A v \in LiveWebsites \ {w} : website[v].slug # row.slug
    BY DEF WriteWebsite
  <2>7. LiveWebsites \subseteq WebsiteIDs
    BY DEF LiveWebsites
  <2>8. \A v \in LiveWebsites : website'[v].slug \in Slugs
    BY <1>2, <2>2, <2>7
  <2>9. \A u, v \in LiveWebsites : website'[u].slug = website'[v].slug => u = v
    BY <1>2, <2>2, <2>6, <2>7
  <2> QED
    BY <2>2, <2>3, <2>4, <2>5, <2>8, <2>9
<1> QED
  BY <1>3, <1>4

LEMMA CommitUpdateInv ==
    ASSUME WebsitesInv, NEW x \in Staff, CommitUpdate(x)
    PROVE  WebsitesInv'
<1>1. PICK w : w = edits[x]
  OBVIOUS
<1>2. PICK row : row = copied[x]
  OBVIOUS
<1>3. PICK d : d = named[x]
  OBVIOUS
<1>4. /\ doing[x] = "update" /\ WriteWebsite(w, row) /\ Finish(x, {w})
      /\ UNCHANGED <<domain, redirect, wanted, original>>
      /\ disturbed' = IF x \in outdated \/ (d # NoDomain /\ domain[d].site # w)
                      THEN disturbed \cup {w} ELSE disturbed
  BY <1>1, <1>2, <1>3 DEF CommitUpdate
<1>5. /\ w \in WebsiteIDs /\ row \in Website /\ row.state = "live" /\ row.slug \in Slugs
      /\ d # NoDomain => row.primary = domain[d].host
  BY <1>1, <1>2, <1>3, <1>4 DEF WebsitesInv, WebsitesTypeOK, RequestsAreSound, Active, IsAsked
<1>6. x \notin outdated =>
         /\ d # NoDomain => d \in LiveDomains
         /\ d = NoDomain /\ w \notin disturbed => IsHost(row.primary, w, row.slug)
  BY <1>1, <1>2, <1>3, <1>4 DEF WebsitesInv, RequestsAreSound, Active, IsCurrent
<1>7. /\ website' \in [WebsiteIDs -> Website] /\ LiveWebsites' = LiveWebsites
      /\ \A v \in WebsiteIDs : website'[v].state = website[v].state
      /\ \A v \in WebsiteIDs \ {w} : website'[v] = website[v]
      /\ w \in LiveWebsites => website'[w] = row
      /\ \A v \in LiveWebsites : website'[v].slug \in Slugs
      /\ \A u, v \in LiveWebsites : website'[u].slug = website'[v].slug => u = v
  BY <1>4, <1>5, WriteKeeps
<1>8. LiveDomains' = LiveDomains
  BY <1>4 DEF LiveDomains
<1>9. RowsRemain /\ \A v \in WebsiteIDs \ {w} : Leaves(v)
  BY <1>4, <1>7, <1>8 DEF RowsRemain, Leaves
<1>10. NamesAreUnique'
  BY <1>4, <1>7, <1>8 DEF WebsitesInv, NamesAreUnique
<1>11. PrimariesAreOwn'
  <2> SUFFICES ASSUME NEW v \in LiveWebsites' \ disturbed'
               PROVE  IsHost(website[v].primary, v, website[v].slug)'
    BY DEF PrimariesAreOwn
  <2>1. v \in LiveWebsites \ disturbed /\ v \in WebsiteIDs
    BY <1>4, <1>7 DEF LiveWebsites
  <2>2. CASE v # w
    <3>1. IsHost(website[v].primary, v, website[v].slug) /\ website'[v] = website[v]
      BY <2>1, <2>2, <1>7 DEF WebsitesInv, PrimariesAreOwn
    <3> QED
      BY <3>1, <1>4, <1>8 DEF IsHost
  <2>3. CASE v = w
    <3>1. website'[v] = row /\ x \notin outdated /\ (d = NoDomain \/ domain[d].site = w)
      BY <2>1, <2>3, <1>4, <1>7
    <3>2. IsHost(row.primary, w, row.slug)
      BY <2>1, <2>3, <3>1, <1>5, <1>6 DEF IsHost
    <3> QED
      BY <3>1, <3>2, <2>3, <1>4, <1>8 DEF IsHost
  <2> QED
    BY <2>2, <2>3
<1>12. RedirectsAreOnce'
  BY <1>4, <1>7, RedirectsStay
<1>13. /\ domain' \in [DomainIDs -> Domain] /\ redirect' \in [RedirectIDs -> Redirect]
       /\ wanted' \in [WebsiteIDs -> Lists] /\ original' \in [WebsiteIDs -> Lists]
       /\ disturbed' \subseteq WebsiteIDs
       /\ \A e \in LiveDomains' : domain'[e].site \in LiveWebsites'
  BY <1>4, <1>5, <1>7, <1>8 DEF WebsitesInv, WebsitesTypeOK
<1> QED
  BY <1>4, <1>5, <1>7, <1>9, <1>10, <1>11, <1>12, <1>13, CommitInv

LEMMA CommitAddDomainInv ==
    ASSUME WebsitesInv, NEW x \in Staff, CommitAddDomain(x)
    PROVE  WebsitesInv'
<1>1. PICK w : w = edits[x]
  OBVIOUS
<1>2. PICK row : row = copied[x]
  OBVIOUS
<1>3. PICK d : d = named[x]
  OBVIOUS
<1>4. /\ doing[x] \in {"add", "add primary"}
      /\ w \in LiveWebsites /\ domain[d].state = "new"
      /\ \A e \in LiveDomains : domain[e].host # domain[d].host
      /\ domain' = [domain EXCEPT ![d].state = "live", ![d].site = w]
      /\ UNCHANGED <<redirect, wanted, original>>
  BY <1>1, <1>2, <1>3 DEF CommitAddDomain
<1>5. /\ w \in WebsiteIDs /\ row \in Website /\ row.state = "live" /\ row.slug \in Slugs
      /\ d \in DomainIDs
      /\ doing[x] = "add primary" => row.primary = domain[d].host
  BY <1>1, <1>2, <1>3, <1>4 DEF WebsitesInv, WebsitesTypeOK, RequestsAreSound, Active, IsAsked
<1>6. /\ website' \in [WebsiteIDs -> Website] /\ LiveWebsites' = LiveWebsites
      /\ \A v \in WebsiteIDs : website'[v].state = website[v].state
      /\ \A v \in LiveWebsites : website'[v] = website[v]
                                 \/ (v = w /\ website'[v].primary = domain[d].host)
      /\ \A v \in LiveWebsites : website'[v].slug \in Slugs
      /\ \A u, v \in LiveWebsites : website'[u].slug = website'[v].slug => u = v
      /\ disturbed \subseteq disturbed' /\ disturbed' \subseteq WebsiteIDs
      /\ \E sites \in SUBSET WebsiteIDs :
            Finish(x, sites) /\ \A v \in WebsiteIDs \ sites : website'[v] = website[v]
  <2>1. disturbed \subseteq WebsiteIDs /\ LiveWebsites \subseteq WebsiteIDs
    BY DEF WebsitesInv, WebsitesTypeOK, LiveWebsites
  <2>2. CASE doing[x] = "add primary"
    <3>1. /\ WriteWebsite(w, row) /\ Finish(x, {w})
          /\ disturbed' = IF x \in outdated THEN disturbed \cup {w} ELSE disturbed
      BY <1>1, <1>2, <2>2 DEF CommitAddDomain, Disturb
    <3>2. /\ website' \in [WebsiteIDs -> Website] /\ LiveWebsites' = LiveWebsites
          /\ \A v \in WebsiteIDs : website'[v].state = website[v].state
          /\ \A v \in WebsiteIDs \ {w} : website'[v] = website[v]
          /\ w \in LiveWebsites => website'[w] = row
          /\ \A v \in LiveWebsites : website'[v].slug \in Slugs
          /\ \A u, v \in LiveWebsites : website'[u].slug = website'[v].slug => u = v
      BY <3>1, <1>5, WriteKeeps
    <3>3. \A v \in WebsiteIDs \ {w} : website'[v] = website[v]
      BY <3>2
    <3>4. \E sites \in SUBSET WebsiteIDs :
            Finish(x, sites) /\ \A v \in WebsiteIDs \ sites : website'[v] = website[v]
      BY <3>1, <3>3, <1>5
    <3>5. \A v \in LiveWebsites : website'[v] = website[v]
                                  \/ (v = w /\ website'[v].primary = domain[d].host)
      BY <3>2, <2>1, <2>2, <1>4, <1>5
    <3>6. disturbed \subseteq disturbed' /\ disturbed' \subseteq WebsiteIDs
      BY <3>1, <2>1, <1>5
    <3> QED
      BY <3>2, <3>4, <3>5, <3>6
  <2>3. CASE doing[x] = "add"
    <3>1. Finish(x, {}) /\ website' = website /\ disturbed' = disturbed
      BY <2>3 DEF CommitAddDomain
    <3>2. \E sites \in SUBSET WebsiteIDs :
            Finish(x, sites) /\ \A v \in WebsiteIDs \ sites : website'[v] = website[v]
      BY <3>1
    <3>3. LiveWebsites' = LiveWebsites
      BY <3>1 DEF LiveWebsites
    <3> QED
      BY <3>1, <3>2, <3>3, <2>1 DEF WebsitesInv, WebsitesTypeOK, NamesAreUnique
  <2> QED
    BY <2>2, <2>3, <1>4
<1>7. domain \in [DomainIDs -> Domain]
  BY DEF WebsitesInv, WebsitesTypeOK
<1>8. /\ domain' \in [DomainIDs -> Domain]
      /\ \A e \in DomainIDs : domain'[e].host = domain[e].host
      /\ \A e \in DomainIDs \ {d} : domain'[e] = domain[e]
      /\ domain'[d].state = "live" /\ domain'[d].site = w
  BY <1>4, <1>5, <1>7 DEF Domain
<1>9. LiveDomains' = LiveDomains \cup {d}
  BY <1>4, <1>5, <1>8 DEF LiveDomains
<1>10. LiveDomains \subseteq DomainIDs
  BY DEF LiveDomains
<1>11. RowsRemain
  BY <1>4, <1>6, <1>8 DEF RowsRemain
<1>12. \A v \in WebsiteIDs : website'[v] = website[v] => Leaves(v)
  BY <1>4, <1>6, <1>9 DEF Leaves
<1>13. NamesAreUnique'
  <2>1. ASSUME NEW e \in LiveDomains', NEW f \in LiveDomains', domain'[e].host = domain'[f].host
        PROVE  e = f
    <3>1. /\ e \in DomainIDs /\ f \in DomainIDs /\ domain[e].host = domain[f].host
          /\ e \in LiveDomains \/ e = d
          /\ f \in LiveDomains \/ f = d
      BY <2>1, <1>5, <1>8, <1>9, <1>10
    <3> QED
      BY <3>1, <1>4 DEF WebsitesInv, NamesAreUnique
  <2> QED
    BY <2>1, <1>6 DEF NamesAreUnique
<1>14. PrimariesAreOwn'
  <2> SUFFICES ASSUME NEW v \in LiveWebsites' \ disturbed'
               PROVE  IsHost(website[v].primary, v, website[v].slug)'
    BY DEF PrimariesAreOwn
  <2>1. v \in LiveWebsites \ disturbed
    BY <1>6
  <2>2. CASE website'[v] = website[v]
    <3>1. IsHost(website[v].primary, v, website[v].slug)
      BY <2>1 DEF WebsitesInv, PrimariesAreOwn
    <3>2. \A e \in LiveDomains : domain'[e].host = domain[e].host /\ domain'[e].site = domain[e].site
      BY <1>4, <1>8, <1>10 DEF LiveDomains
    <3> QED
      BY <3>1, <3>2, <2>2, <1>9 DEF IsHost
  <2>3. CASE v = w /\ website'[v].primary = domain[d].host
    BY <2>3, <1>5, <1>8, <1>9 DEF IsHost
  <2> QED
    BY <2>1, <2>2, <2>3, <1>6
<1>15. RedirectsAreOnce'
  BY <1>4, <1>6, RedirectsStay
<1>16. /\ redirect' \in [RedirectIDs -> Redirect]
       /\ wanted' \in [WebsiteIDs -> Lists] /\ original' \in [WebsiteIDs -> Lists]
       /\ \A e \in LiveDomains' : domain'[e].site \in LiveWebsites'
  <2>1. \A e \in LiveDomains : domain[e].site \in LiveWebsites /\ e # d /\ domain'[e] = domain[e]
    BY <1>4, <1>8, <1>10 DEF WebsitesInv, WebsitesTypeOK, LiveDomains
  <2>2. ASSUME NEW e \in LiveDomains' PROVE domain'[e].site \in LiveWebsites'
    <3>1. CASE e = d
      <4>1. domain'[e].site = w
        BY <3>1, <1>8
      <4>2. w \in LiveWebsites'
        BY <1>4, <1>6
      <4> QED
        BY <4>1, <4>2
    <3>2. CASE e \in LiveDomains
      BY <3>2, <2>1, <1>6
    <3> QED
      BY <3>1, <3>2, <1>9
  <2> QED
    BY <2>2, <1>4 DEF WebsitesInv, WebsitesTypeOK
<1>17. PICK sites \in SUBSET WebsiteIDs :
          Finish(x, sites) /\ \A v \in WebsiteIDs \ sites : website'[v] = website[v]
  BY <1>6
<1>18. \A v \in WebsiteIDs \ sites : Leaves(v)
  BY <1>12, <1>17
<1> QED
  BY <1>6, <1>8, <1>11, <1>13, <1>14, <1>15, <1>16, <1>17, <1>18, CommitInv

LEMMA CommitRemoveDomainInv ==
    ASSUME WebsitesInv, NEW x \in Staff, CommitRemoveDomain(x)
    PROVE  WebsitesInv'
<1>1. PICK w : w = edits[x]
  OBVIOUS
<1>2. PICK row : row = copied[x]
  OBVIOUS
<1>3. PICK d : d = named[x]
  OBVIOUS
<1>4. /\ doing[x] \in {"remove", "remove primary"}
      /\ domain' = [domain EXCEPT ![d].state = "deleted"]
      /\ disturbed' = (IF x \in outdated THEN disturbed \cup {w} ELSE disturbed)
      /\ Finish(x, WebsiteIDs)
      /\ UNCHANGED <<redirect, wanted, original>>
  BY <1>1, <1>3 DEF CommitRemoveDomain, Disturb
<1>5. /\ w \in WebsiteIDs /\ row \in Website /\ row.state = "live" /\ row.slug \in Slugs
      /\ d \in DomainIDs /\ domain[d].site = w /\ domain[d].state # "new"
      /\ doing[x] = "remove primary" => row.primary = row.slug
  BY <1>1, <1>2, <1>3, <1>4 DEF WebsitesInv, WebsitesTypeOK, RequestsAreSound, Active, IsAsked
<1>6. x \notin outdated /\ doing[x] = "remove" => website[w].primary # domain[d].host
  BY <1>1, <1>3, <1>4 DEF WebsitesInv, RequestsAreSound, Active, IsCurrent
<1>7. domain \in [DomainIDs -> Domain] /\ LiveDomains \subseteq DomainIDs
  BY DEF WebsitesInv, WebsitesTypeOK, LiveDomains
<1>8. /\ domain' \in [DomainIDs -> Domain]
      /\ \A e \in DomainIDs : domain'[e].host = domain[e].host /\ domain'[e].site = domain[e].site
      /\ \A e \in DomainIDs \ {d} : domain'[e] = domain[e]
      /\ domain'[d].state = "deleted"
  BY <1>4, <1>5, <1>7 DEF Domain
<1>9. LiveDomains' = LiveDomains \ {d}
  BY <1>5, <1>8 DEF LiveDomains
<1>10. /\ website' \in [WebsiteIDs -> Website] /\ LiveWebsites' = LiveWebsites
       /\ \A v \in WebsiteIDs : website'[v].state = website[v].state
       /\ \A v \in WebsiteIDs \ {w} : website'[v] = website[v]
       /\ \A v \in LiveWebsites : website'[v].slug \in Slugs
       /\ \A u, v \in LiveWebsites : website'[u].slug = website'[v].slug => u = v
       /\ IF doing[x] = "remove" THEN website'[w] = website[w]
          ELSE w \in LiveWebsites => website'[w] = row
  <2>1. CASE doing[x] = "remove primary"
    <3>1. WriteWebsite(w, row)
      BY <1>1, <1>2, <2>1 DEF CommitRemoveDomain
    <3> QED
      BY <3>1, <2>1, <1>5, WriteKeeps
  <2>2. CASE doing[x] = "remove"
    <3>1. website' = website
      BY <2>2 DEF CommitRemoveDomain
    <3>2. LiveWebsites' = LiveWebsites
      BY <3>1 DEF LiveWebsites
    <3> QED
      BY <3>1, <3>2, <2>2 DEF WebsitesInv, WebsitesTypeOK, NamesAreUnique
  <2> QED
    BY <2>1, <2>2, <1>4
<1>11. RowsRemain
  BY <1>4, <1>8, <1>10 DEF RowsRemain
<1>12. NamesAreUnique'
  BY <1>7, <1>8, <1>9, <1>10 DEF WebsitesInv, NamesAreUnique
<1>13. disturbed \subseteq disturbed' /\ disturbed' \subseteq WebsiteIDs
  BY <1>4, <1>5 DEF WebsitesInv, WebsitesTypeOK
<1>14. PrimariesAreOwn'
  <2> SUFFICES ASSUME NEW v \in LiveWebsites' \ disturbed'
               PROVE  IsHost(website[v].primary, v, website[v].slug)'
    BY DEF PrimariesAreOwn
  <2>1. v \in LiveWebsites \ disturbed /\ v \in WebsiteIDs
    BY <1>10, <1>13 DEF LiveWebsites
  <2>2. IsHost(website[v].primary, v, website[v].slug)
    BY <2>1 DEF WebsitesInv, PrimariesAreOwn
  <2>3. CASE v = w /\ doing[x] = "remove primary"
    <3>1. website'[v].primary = website'[v].slug
      BY <2>1, <2>3, <1>5, <1>10
    <3> QED
      BY <3>1 DEF IsHost
  <2>4. CASE v # w \/ doing[x] = "remove"
    <3>1. website'[v] = website[v]
      BY <2>1, <2>4, <1>10
    <3>2. CASE website[v].primary = website[v].slug
      BY <3>1, <3>2 DEF IsHost
    <3>3. ASSUME NEW e \in LiveDomains, domain[e].host = website[v].primary, domain[e].site = v
          PROVE IsHost(website[v].primary, v, website[v].slug)'
      <4>1. e # d
        <5>1. v = w => doing[x] = "remove" /\ x \notin outdated
          BY <2>1, <2>4, <1>4
        <5> QED
          BY <5>1, <3>3, <1>5, <1>6
      <4>2. /\ e \in LiveDomains' /\ domain'[e].host = website'[v].primary
            /\ domain'[e].site = v
        BY <4>1, <3>1, <3>3, <1>7, <1>8, <1>9
      <4> QED
        BY <4>2 DEF IsHost
    <3> QED
      BY <2>2, <3>2, <3>3 DEF IsHost
  <2> QED
    BY <2>3, <2>4, <1>4
<1>15. RedirectsAreOnce'
  BY <1>4, <1>10, <1>13, RedirectsStay
<1>16. /\ redirect' \in [RedirectIDs -> Redirect]
       /\ wanted' \in [WebsiteIDs -> Lists] /\ original' \in [WebsiteIDs -> Lists]
       /\ \A e \in LiveDomains' : domain'[e].site \in LiveWebsites'
  BY <1>4, <1>7, <1>8, <1>9, <1>10 DEF WebsitesInv, WebsitesTypeOK
<1> QED
  BY <1>4, <1>8, <1>10, <1>11, <1>12, <1>13, <1>14, <1>15, <1>16, CommitInv

LEMMA CommitIconInv ==
    ASSUME WebsitesInv, NEW x \in Staff, CommitIcon(x)
    PROVE  WebsitesInv'
<1>1. PICK w : w = edits[x]
  OBVIOUS
<1>2. /\ w \in LiveWebsites /\ w \in WebsiteIDs
      /\ website' = [website EXCEPT ![w].icon = TRUE]
      /\ Finish(x, {w}) /\ UNCHANGED <<domain, redirect, disturbed, wanted, original>>
  BY <1>1 DEF CommitIcon, LiveWebsites
<1>3. website \in [WebsiteIDs -> Website]
  BY DEF WebsitesInv, WebsitesTypeOK
<1>4. /\ website' \in [WebsiteIDs -> Website]
      /\ \A v \in WebsiteIDs \ {w} : website'[v] = website[v]
      /\ \A v \in WebsiteIDs : /\ website'[v].state = website[v].state
                               /\ website'[v].slug = website[v].slug
                               /\ website'[v].primary = website[v].primary
  BY <1>2, <1>3 DEF Website
<1>5. LiveWebsites' = LiveWebsites /\ LiveDomains' = LiveDomains /\ LiveWebsites \subseteq WebsiteIDs
  BY <1>2, <1>4 DEF LiveWebsites, LiveDomains
<1>6. RowsRemain /\ \A v \in WebsiteIDs \ {w} : Leaves(v)
  BY <1>2, <1>4, <1>5 DEF RowsRemain, Leaves
<1>7. NamesAreUnique'
  BY <1>2, <1>4, <1>5 DEF WebsitesInv, NamesAreUnique
<1>8. PrimariesAreOwn'
  BY <1>2, <1>4, <1>5 DEF WebsitesInv, PrimariesAreOwn, IsHost
<1>9. RedirectsAreOnce'
  BY <1>2, <1>4, <1>5, RedirectsStay
<1>10. /\ domain' \in [DomainIDs -> Domain] /\ redirect' \in [RedirectIDs -> Redirect]
       /\ wanted' \in [WebsiteIDs -> Lists] /\ original' \in [WebsiteIDs -> Lists]
       /\ disturbed' \subseteq WebsiteIDs
       /\ \A e \in LiveDomains' : domain'[e].site \in LiveWebsites'
  BY <1>2, <1>5 DEF WebsitesInv, WebsitesTypeOK
<1> QED
  BY <1>2, <1>4, <1>6, <1>7, <1>8, <1>9, <1>10, CommitInv

LEMMA FailRequestInv ==
    ASSUME WebsitesInv, NEW x \in Staff, FailRequest(x)
    PROVE  WebsitesInv'
<1>1. Finish(x, {}) /\ UNCHANGED <<website, domain, redirect, disturbed, wanted, original>>
  BY DEF FailRequest, tableVars
<1>2. LiveWebsites' = LiveWebsites /\ LiveDomains' = LiveDomains
  BY <1>1 DEF LiveWebsites, LiveDomains
<1>3. RowsRemain /\ \A v \in WebsiteIDs : Leaves(v)
  BY <1>1, <1>2 DEF RowsRemain, Leaves
<1>4. NamesAreUnique' /\ PrimariesAreOwn'
  BY <1>1, <1>2 DEF WebsitesInv, NamesAreUnique, PrimariesAreOwn, IsHost
<1>5. RedirectsAreOnce'
  BY <1>1, <1>2, RedirectsStay
<1>6. /\ website' \in [WebsiteIDs -> Website] /\ domain' \in [DomainIDs -> Domain]
      /\ redirect' \in [RedirectIDs -> Redirect]
      /\ wanted' \in [WebsiteIDs -> Lists] /\ original' \in [WebsiteIDs -> Lists]
      /\ disturbed' \subseteq WebsiteIDs
      /\ \A e \in LiveDomains' : domain'[e].site \in LiveWebsites'
  BY <1>1, <1>2 DEF WebsitesInv, WebsitesTypeOK
<1> QED
  BY <1>1, <1>3, <1>4, <1>5, <1>6, CommitInv

-----------------------------------------------------------------------------
(* Websites: redirects are saved.                                          *)

\* What becomes of the redirects of a website: those to be removed go, those that
\* are made come, and the others stay.
LEMMA RedirectsMove ==
    ASSUME WebsitesInv, NEW w \in WebsiteIDs, NEW c \in Changes,
           NEW new \in SUBSET {r \in RedirectIDs : redirect[r].state = "new"},
           \A r \in new : redirect[r].pattern \in DOMAIN c.want,
           \A r \in c.remove : redirect[r].site = w /\ redirect[r].state # "new",
           redirect' = [r \in RedirectIDs |->
               IF r \in new
               THEN [redirect[r] EXCEPT !.state = "live", !.site = w,
                                        !.to = c.want[redirect[r].pattern]]
               ELSE IF r \in c.remove THEN [redirect[r] EXCEPT !.state = "deleted"]
               ELSE redirect[r]]
    PROVE  /\ redirect' \in [RedirectIDs -> Redirect]
           /\ \A r \in RedirectIDs :
                /\ redirect'[r].pattern = redirect[r].pattern
                /\ redirect[r].state # "new" =>
                     redirect'[r].state # "new" /\ redirect'[r].site = redirect[r].site
           /\ \A v \in WebsiteIDs \ {w} : \A r \in RedirectIDs :
                \/ redirect[r].state = "live" /\ redirect[r].site = v
                \/ redirect'[r].state = "live" /\ redirect'[r].site = v
                => redirect'[r] = redirect[r]
           /\ LiveRedirects(w)' = (LiveRedirects(w) \ c.remove) \cup new
           /\ \A r \in new : redirect'[r].to = c.want[redirect[r].pattern]
           /\ \A r \in LiveRedirects(w) \ c.remove : redirect'[r] = redirect[r]
           /\ \A v \in WebsiteIDs \ {w} : LiveRedirects(v)' = LiveRedirects(v)
           /\ \A r \in RedirectIDs : redirect'[r].state = "live" =>
                redirect'[r].site \in WebsiteIDs
<1>1. redirect \in [RedirectIDs -> Redirect] /\ c.remove \subseteq RedirectIDs
  BY DEF WebsitesInv, WebsitesTypeOK, Changes
<1>2. \A r \in RedirectIDs : redirect[r].state = "live" => redirect[r].site \in WebsiteIDs
  BY DEF WebsitesInv, RedirectsAreOnce
<1>3. ASSUME NEW r \in RedirectIDs
      PROVE  /\ redirect'[r] \in Redirect /\ redirect'[r].pattern = redirect[r].pattern
             /\ r \in new => /\ redirect[r].state = "new" /\ r \notin c.remove
                             /\ redirect'[r].state = "live" /\ redirect'[r].site = w
                             /\ redirect'[r].to = c.want[redirect[r].pattern]
             /\ r \in c.remove => /\ redirect[r].site = w /\ redirect[r].state # "new"
                                  /\ redirect'[r].state = "deleted" /\ redirect'[r].site = w
             /\ r \notin new /\ r \notin c.remove => redirect'[r] = redirect[r]
  <2>1. r \in new => c.want[redirect[r].pattern] \in Destinations
    BY ListFacts DEF Changes
  <2>2. PICK to : to = c.want[redirect[r].pattern]
    OBVIOUS
  <2>3. redirect'[r] = IF r \in new
                       THEN [redirect[r] EXCEPT !.state = "live", !.site = w, !.to = to]
                       ELSE IF r \in c.remove THEN [redirect[r] EXCEPT !.state = "deleted"]
                       ELSE redirect[r]
    BY <2>2
  <2> QED
    BY <1>1, <1>3, <2>1, <2>2, <2>3 DEF Redirect
<1> HIDE DEF Redirect
<1>4. redirect' \in [RedirectIDs -> Redirect]
  BY <1>3
<1>5. \A r \in RedirectIDs :
                /\ redirect'[r].pattern = redirect[r].pattern
                /\ redirect[r].state # "new" =>
                     redirect'[r].state # "new" /\ redirect'[r].site = redirect[r].site
  BY <1>3
<1>6. ASSUME NEW v \in WebsiteIDs \ {w}, NEW r \in RedirectIDs,
             \/ redirect[r].state = "live" /\ redirect[r].site = v
             \/ redirect'[r].state = "live" /\ redirect'[r].site = v
      PROVE  redirect'[r] = redirect[r]
  <2>1. r \notin new
    BY <1>3, <1>6
  <2>2. ASSUME r \in c.remove PROVE FALSE
    <3>1. redirect[r].site = w /\ redirect'[r].site = w
      BY <1>3, <2>2
    <3> QED
      BY <1>6, <3>1
  <2> QED
    BY <1>3, <2>1, <2>2
<1>7. LiveRedirects(w)' = (LiveRedirects(w) \ c.remove) \cup new
  <2>1. \A r \in RedirectIDs : (redirect'[r].state = "live" /\ redirect'[r].site = w)
           <=> r \in new \/ (redirect[r].state = "live" /\ redirect[r].site = w /\ r \notin c.remove)
    BY <1>3
  <2> QED
    BY <2>1 DEF LiveRedirects
<1>8. ASSUME NEW v \in WebsiteIDs \ {w} PROVE LiveRedirects(v)' = LiveRedirects(v)
  <2>1. \A r \in RedirectIDs : (redirect'[r].state = "live" /\ redirect'[r].site = v)
           <=> (redirect[r].state = "live" /\ redirect[r].site = v)
    BY <1>6
  <2> QED
    BY <2>1 DEF LiveRedirects
<1>9. \A r \in RedirectIDs : redirect'[r].state = "live" => redirect'[r].site \in WebsiteIDs
  BY <1>2, <1>3
<1>10. \A r \in LiveRedirects(w) \ c.remove : redirect'[r] = redirect[r]
  BY <1>3 DEF LiveRedirects
<1>11. \A r \in new : redirect'[r].to = c.want[redirect[r].pattern]
  BY <1>3
<1> QED
  BY <1>4, <1>5, <1>6, <1>7, <1>8, <1>9, <1>10, <1>11

\* As many redirects are made as there are patterns, so that each has its own.
LEMMA OncePerPattern ==
    ASSUME NEW rows \in SUBSET RedirectIDs, NEW P,
           Cardinality(rows) = Cardinality(P), {redirect[r].pattern : r \in rows} = P
    PROVE  \A r, s \in rows : redirect[r].pattern = redirect[s].pattern => r = s
<1> DEFINE f == [r \in rows |-> redirect[r].pattern]
<1>1. IsFiniteSet(rows)
  BY WebsitesAssumption, FS_Subset
<1>2. f \in Surjection(rows, P)
  BY DEF Surjection
<1>3. f \in Injection(rows, P)
  BY <1>1, <1>2, FS_Surjection
<1> QED
  BY <1>3 DEF Injection, IsInjective

LEMMA CommitRedirectsInv ==
    ASSUME WebsitesInv, NEW x \in Staff, CommitRedirects(x)
    PROVE  WebsitesInv'
<1>1. PICK w : w = edits[x]
  OBVIOUS
<1>2. PICK c : c = changes[x]
  OBVIOUS
<1>3. /\ doing[x] = "redirect" /\ w \in LiveWebsites /\ Finish(x, {w})
      /\ wanted' = [wanted EXCEPT ![w] = c.want]
      /\ original' = [original EXCEPT ![w] = Saved(c.want, original[w])]
      /\ disturbed' = (IF x \in outdated THEN disturbed \cup {w} ELSE disturbed)
      /\ UNCHANGED <<website, domain>>
  BY <1>1, <1>2 DEF CommitRedirects, Disturb
<1>4. PICK new \in SUBSET {r \in RedirectIDs : redirect[r].state = "new"} :
         /\ Cardinality(new) = Cardinality(c.create)
         /\ {redirect[r].pattern : r \in new} = c.create
         /\ redirect' = [r \in RedirectIDs |->
                IF r \in new
                THEN [redirect[r] EXCEPT !.state = "live", !.site = w,
                                         !.to = c.want[redirect[r].pattern]]
                ELSE IF r \in c.remove THEN [redirect[r] EXCEPT !.state = "deleted"]
                ELSE redirect[r]]
  BY <1>1, <1>2 DEF CommitRedirects
<1>5. /\ w \in WebsiteIDs /\ c \in Changes /\ c.create \subseteq DOMAIN c.want
      /\ \A r \in c.remove : redirect[r].site = w /\ redirect[r].state # "new"
  BY <1>1, <1>2, <1>3 DEF WebsitesInv, WebsitesTypeOK, RequestsAreSound, Active, IsAsked
<1>6. x \notin outdated => c = DiffRedirects(LiveRedirects(w), c.want)
  BY <1>1, <1>2, <1>3 DEF WebsitesInv, RequestsAreSound, Active, IsCurrent
<1>7. /\ redirect' \in [RedirectIDs -> Redirect]
      /\ \A r \in RedirectIDs :
           /\ redirect'[r].pattern = redirect[r].pattern
           /\ redirect[r].state # "new" =>
                redirect'[r].state # "new" /\ redirect'[r].site = redirect[r].site
      /\ \A v \in WebsiteIDs \ {w} : \A r \in RedirectIDs :
           \/ redirect[r].state = "live" /\ redirect[r].site = v
           \/ redirect'[r].state = "live" /\ redirect'[r].site = v
           => redirect'[r] = redirect[r]
      /\ LiveRedirects(w)' = (LiveRedirects(w) \ c.remove) \cup new
      /\ \A r \in new : redirect'[r].to = c.want[redirect[r].pattern]
      /\ \A r \in LiveRedirects(w) \ c.remove : redirect'[r] = redirect[r]
      /\ \A v \in WebsiteIDs \ {w} : LiveRedirects(v)' = LiveRedirects(v)
      /\ \A r \in RedirectIDs : redirect'[r].state = "live" => redirect'[r].site \in WebsiteIDs
  <2>1. \A r \in new : redirect[r].pattern \in DOMAIN c.want
    BY <1>4, <1>5
  <2> QED
    BY <1>4, <1>5, <2>1, RedirectsMove
<1>8. LiveWebsites' = LiveWebsites /\ LiveDomains' = LiveDomains
  BY <1>3 DEF LiveWebsites, LiveDomains
<1>9. /\ wanted \in [WebsiteIDs -> Lists] /\ original \in [WebsiteIDs -> Lists]
      /\ c.want \in Lists /\ disturbed \subseteq WebsiteIDs
  BY <1>5 DEF WebsitesInv, WebsitesTypeOK, Changes
<1>10. /\ wanted' \in [WebsiteIDs -> Lists] /\ original' \in [WebsiteIDs -> Lists]
       /\ wanted'[w] = c.want /\ original'[w] = Saved(c.want, original[w])
       /\ \A v \in WebsiteIDs \ {w} : wanted'[v] = wanted[v] /\ original'[v] = original[v]
  <2>1. Saved(c.want, original[w]) \in Lists
    BY <1>5, <1>9, SavedIsList
  <2> QED
    BY <2>1, <1>3, <1>5, <1>9
<1>11. disturbed \subseteq disturbed' /\ disturbed' \subseteq WebsiteIDs
  BY <1>3, <1>5, <1>9
<1>12. RowsRemain /\ \A v \in WebsiteIDs \ {w} : Leaves(v)
  BY <1>3, <1>7, <1>8, <1>11 DEF RowsRemain, Leaves
<1>13. NamesAreUnique'
  BY <1>3, <1>8 DEF WebsitesInv, NamesAreUnique
<1>14. PrimariesAreOwn'
  BY <1>3, <1>8, <1>11 DEF WebsitesInv, PrimariesAreOwn, IsHost
<1>15. RedirectsAreOnce
  BY DEF WebsitesInv
<1>16. \A v \in WebsiteIDs : \A r \in LiveRedirects(v)' : v \in LiveWebsites'
  <2> SUFFICES ASSUME NEW v \in WebsiteIDs, NEW r \in LiveRedirects(v)' PROVE v \in LiveWebsites
    BY <1>8
  <2>1. CASE v = w
    BY <2>1, <1>3
  <2>2. CASE v # w
    BY <2>2, <1>7, <1>15 DEF RedirectsAreOnce
  <2> QED
    BY <2>1, <2>2
<1>17. \A v \in WebsiteIDs : /\ OriginalPatterns(v)' = WantedPatterns(v)'
                             /\ website'[v].state = "new" => WantedPatterns(v)' = {}
  <2>1. OriginalPatterns(w)' = WantedPatterns(w)'
    <3>1. DOMAIN Saved(c.want, original[w]) = DOMAIN c.want
      BY <1>5, <1>9, SavedIsList
    <3> QED
      BY <3>1, <1>10 DEF OriginalPatterns, WantedPatterns
  <2>2. website'[w].state # "new"
    BY <1>3 DEF LiveWebsites
  <2>3. ASSUME NEW v \in WebsiteIDs \ {w}
        PROVE  /\ OriginalPatterns(v)' = WantedPatterns(v)'
               /\ website'[v].state = "new" => WantedPatterns(v)' = {}
    <3>1. OriginalPatterns(v)' = OriginalPatterns(v) /\ WantedPatterns(v)' = WantedPatterns(v)
      BY <1>10 DEF OriginalPatterns, WantedPatterns
    <3> QED
      BY <3>1, <1>3, <1>15 DEF RedirectsAreOnce
  <2> QED
    BY <2>1, <2>2, <2>3
<1>18. ASSUME NEW v \in LiveWebsites' \ disturbed' PROVE HasRedirects(v)'
  <2>1. v \in LiveWebsites \ disturbed /\ v \in WebsiteIDs /\ HasRedirects(v)
    BY <1>8, <1>11, <1>15 DEF LiveWebsites, RedirectsAreOnce
  <2>2. PICK L : L = LiveRedirects(v)
    OBVIOUS
  <2>3. /\ L \subseteq RedirectIDs
        /\ {redirect[r].pattern : r \in L} = DOMAIN wanted[v]
        /\ \A r, s \in L : redirect[r].pattern = redirect[s].pattern => r = s
        /\ \A r \in L : redirect[r].to = original[v][redirect[r].pattern]
    BY <2>1, <2>2 DEF HasRedirects, LiveRedirects
  <2>4. CASE v # w
    <3>1. LiveRedirects(v)' = LiveRedirects(v) /\ \A r \in LiveRedirects(v) : redirect'[r] = redirect[r]
      BY <2>1, <2>4, <1>7 DEF LiveRedirects
    <3> QED
      BY <3>1, <2>1, <2>4, <1>10, RedirectsRemain
  <2>5. CASE v = w
    <3>1. x \notin outdated
      BY <2>5, <1>3
    <3>2. /\ c.create = DOMAIN c.want \ {redirect[r].pattern : r \in L}
          /\ c.remove = {r \in L : redirect[r].pattern \notin DOMAIN c.want}
      BY <3>1, <2>2, <2>5, <1>6 DEF DiffRedirects
    <3>3. PICK staying : staying = L \ c.remove
      OBVIOUS
    <3>4. LiveRedirects(v)' = staying \cup new
      BY <2>2, <2>5, <3>3, <1>7
    <3>5. \A r, s \in new : redirect[r].pattern = redirect[s].pattern => r = s
      BY <1>4, OncePerPattern
    <3>6. \A r \in staying \cup new : r \in RedirectIDs /\ redirect'[r].pattern = redirect[r].pattern
      BY <2>3, <3>3, <1>4, <1>7
    <3>7. \A r \in new : redirect[r].pattern \in c.create
      BY <1>4
    <3>8. \A r \in staying : r \in L /\ redirect[r].pattern \in DOMAIN c.want
      BY <3>2, <3>3
    <3>9. \A r \in staying, s \in new : redirect[r].pattern # redirect[s].pattern
      BY <3>2, <3>7, <3>8
    <3>10. ASSUME NEW r \in staying \cup new, NEW s \in staying \cup new,
                  redirect'[r].pattern = redirect'[s].pattern
           PROVE  r = s
      <4>1. redirect[r].pattern = redirect[s].pattern
        BY <3>6, <3>10
      <4> QED
        BY <4>1, <2>3, <3>5, <3>8, <3>9
    <3>11. \A m \in DOMAIN c.want : \E r \in staying \cup new : redirect[r].pattern = m
      <4> SUFFICES ASSUME NEW m \in DOMAIN c.want PROVE \E r \in staying \cup new : redirect[r].pattern = m
        OBVIOUS
      <4>1. CASE m \in c.create
        <5>1. PICK r \in new : redirect[r].pattern = m
          BY <4>1, <1>4
        <5> QED
          BY <5>1
      <4>2. CASE m \notin c.create
        <5>1. PICK r \in L : redirect[r].pattern = m
          BY <4>2, <3>2
        <5>2. r \in staying
          BY <5>1, <3>2, <3>3
        <5> QED
          BY <5>1, <5>2
      <4> QED
        BY <4>1, <4>2
    <3>12. \A r \in staying \cup new : redirect[r].pattern \in DOMAIN c.want
      BY <3>2, <3>7, <3>8
    <3>13. {redirect'[r].pattern : r \in staying \cup new} = DOMAIN c.want
      BY <3>6, <3>11, <3>12
    <3>14. DOMAIN original[w] = {redirect[r].pattern : r \in L}
      <4>1. OriginalPatterns(w) = WantedPatterns(w)
        BY <1>5, <1>15 DEF RedirectsAreOnce
      <4> QED
        BY <4>1, <2>3, <2>5 DEF OriginalPatterns, WantedPatterns
    <3>15. ASSUME NEW r \in staying \cup new
           PROVE  redirect'[r].to = original'[w][redirect'[r].pattern]
      <4>1. PICK p : p = redirect[r].pattern
        OBVIOUS
      <4>2. p = redirect'[r].pattern /\ p \in DOMAIN c.want
        BY <4>1, <3>6, <3>12
      <4>3. original'[w][p] = IF p \in DOMAIN original[w] THEN original[w][p] ELSE c.want[p]
        BY <4>2, <1>5, <1>9, <1>10, SavedIsList
      <4>4. CASE r \in staying
        <5>1. r \in L /\ redirect'[r] = redirect[r]
          BY <4>4, <2>2, <2>5, <3>3, <1>7
        <5>2. p \in DOMAIN original[w] /\ redirect[r].to = original[w][p]
          BY <5>1, <4>1, <2>3, <2>5, <3>14
        <5> QED
          BY <5>1, <5>2, <4>2, <4>3
      <4>5. CASE r \in new
        <5>1. redirect'[r].to = c.want[p]
          BY <4>1, <4>5, <1>7
        <5>2. p \notin DOMAIN original[w]
          BY <4>1, <4>5, <3>2, <3>7, <3>14
        <5> QED
          BY <5>1, <5>2, <4>2, <4>3
      <4> QED
        BY <4>4, <4>5
    <3>16. PICK R : R = staying \cup new
      OBVIOUS
    <3>17. /\ LiveRedirects(v)' = R /\ {redirect'[r].pattern : r \in R} = DOMAIN wanted'[v]
           /\ \A r, s \in R : redirect'[r].pattern = redirect'[s].pattern => r = s
           /\ \A r \in R : redirect'[r].to = original'[v][redirect'[r].pattern]
      BY <3>16, <2>5, <3>4, <3>10, <3>13, <3>15, <1>10
    <3> QED
      BY <3>17 DEF HasRedirects
  <2> QED
    BY <2>4, <2>5
<1>19. RedirectsAreOnce'
  BY <1>7, <1>16, <1>17, <1>18 DEF RedirectsAreOnce
<1>20. /\ website' \in [WebsiteIDs -> Website] /\ domain' \in [DomainIDs -> Domain]
       /\ \A e \in LiveDomains' : domain'[e].site \in LiveWebsites'
  BY <1>3, <1>8 DEF WebsitesInv, WebsitesTypeOK
<1> QED
  BY <1>3, <1>5, <1>7, <1>10, <1>11, <1>12, <1>13, <1>14, <1>19, <1>20, CommitInv

-----------------------------------------------------------------------------
(* Websites: they are made and deleted, and no request ends.               *)

\* No request begins or ends, and those in flight are marked or left alone.
LEMMA NoRequestMoves ==
    ASSUME WebsitesInv, RowsRemain, UNCHANGED staffVars,
           outdated \subseteq outdated', outdated' \subseteq Active,
           \A v \in WebsiteIDs : \A y \in Active \ outdated' : edits[y] = v => Leaves(v)
    PROVE  RequestsAreSound'
<1>0. WebsitesTypeOK /\ RequestsAreSound
  BY DEF WebsitesInv
<1>1. Active' = Active /\ \A y \in Staff : SameRequest(y) /\ doing'[y] = doing[y]
  BY DEF staffVars, Active, SameRequest
<1>2. ASSUME NEW y \in Active' PROVE IsAsked(y)'
  BY <1>1, AskedStays DEF Active
<1>3. ASSUME NEW y \in Active' \ outdated' PROVE IsCurrent(y)'
  <2>1. y \in Active /\ SameRequest(y) /\ IsCurrent(y) /\ IsAsked(y)
    BY <1>0, <1>1 DEF RequestsAreSound, Active
  <2>2. PICK v : v = edits[y]
    OBVIOUS
  <2>3. Leaves(v)
    BY <2>1, <2>2, <1>1 DEF IsAsked
  <2>4. Leaves(edits[y])
    BY <2>2, <2>3
  <2> QED
    BY <2>1, <2>4, CurrentStays
<1>4. \A y \in Staff : doing'[y] = "nothing" => edits'[y] = NoWebsite
  BY <1>0 DEF RequestsAreSound, staffVars
<1> QED
  BY <1>1, <1>2, <1>3, <1>4 DEF RequestsAreSound

LEMMA CreateWebsiteInv ==
    ASSUME WebsitesInv, NEW w \in WebsiteIDs, NEW slug \in Slugs, CreateWebsite(w, slug)
    PROVE  WebsitesInv'
<1>0. WebsitesTypeOK /\ NamesAreUnique /\ PrimariesAreOwn /\ RedirectsAreOnce /\ RequestsAreSound
  BY DEF WebsitesInv
<1>1. PICK row : row = [NewWebsite EXCEPT !.state = "live", !.slug = slug, !.primary = slug]
  OBVIOUS
<1>2. row \in Website /\ row.state = "live" /\ row.slug = slug /\ row.primary = slug
  BY <1>1 DEF NewWebsite, Website
<1>3. /\ website[w].state = "new" /\ \A v \in LiveWebsites : website[v].slug # slug
      /\ website' = [website EXCEPT ![w] = row]
      /\ UNCHANGED <<domain, redirect, staffVars, outdated, disturbed, wanted, original>>
  BY <1>1 DEF CreateWebsite, historyVars
<1>4. /\ website' \in [WebsiteIDs -> Website] /\ website'[w] = row
      /\ \A v \in WebsiteIDs \ {w} : website'[v] = website[v]
  BY <1>0, <1>2, <1>3 DEF WebsitesTypeOK
<1>5. /\ LiveWebsites' = LiveWebsites \cup {w} /\ w \notin LiveWebsites
      /\ LiveWebsites \subseteq WebsiteIDs /\ LiveDomains' = LiveDomains
  BY <1>2, <1>3, <1>4 DEF LiveWebsites, LiveDomains
<1>6. WebsitesTypeOK'
  BY <1>0, <1>3, <1>4, <1>5 DEF WebsitesTypeOK, staffVars
<1>7. NamesAreUnique'
  <2>1. \A v \in LiveWebsites' : website'[v].slug \in Slugs
    BY <1>0, <1>2, <1>4, <1>5 DEF NamesAreUnique
  <2>2. \A u, v \in LiveWebsites' : website'[u].slug = website'[v].slug => u = v
    BY <1>0, <1>2, <1>3, <1>4, <1>5 DEF NamesAreUnique
  <2>3. \A d, e \in LiveDomains' : domain'[d].host = domain'[e].host => d = e
    BY <1>0, <1>3, <1>5 DEF NamesAreUnique
  <2> QED
    BY <2>1, <2>2, <2>3 DEF NamesAreUnique
<1>8. PrimariesAreOwn'
  <2> SUFFICES ASSUME NEW v \in LiveWebsites' \ disturbed'
               PROVE  IsHost(website[v].primary, v, website[v].slug)'
    BY DEF PrimariesAreOwn
  <2>1. CASE v = w
    BY <2>1, <1>2, <1>4 DEF IsHost
  <2>2. CASE v # w
    <3>1. IsHost(website[v].primary, v, website[v].slug) /\ website'[v] = website[v]
      BY <2>2, <1>0, <1>3, <1>4, <1>5 DEF PrimariesAreOwn
    <3> QED
      BY <3>1, <1>3, <1>5 DEF IsHost
  <2> QED
    BY <2>1, <2>2
<1>9. RedirectsAreOnce'
  <2>1. \A v : LiveRedirects(v)' = LiveRedirects(v)
    BY <1>3 DEF LiveRedirects
  <2>2. LiveRedirects(w) = {} /\ DOMAIN wanted[w] = {}
    <3>1. LiveRedirects(w) = {} /\ WantedPatterns(w) = {}
      BY <1>0, <1>3, <1>5 DEF RedirectsAreOnce
    <3> QED
      BY <3>1 DEF WantedPatterns
  <2>3. ASSUME NEW v \in LiveWebsites' \ disturbed' PROVE HasRedirects(v)'
    <3>1. CASE v = w
      <4>1. LiveRedirects(v)' = {} /\ DOMAIN wanted'[v] = {}
        BY <3>1, <2>1, <2>2, <1>3
      <4> QED
        BY <4>1 DEF HasRedirects
    <3>2. CASE v # w
      <4>1. HasRedirects(v)
        BY <2>3, <3>2, <1>0, <1>3, <1>5 DEF RedirectsAreOnce
      <4> QED
        BY <4>1, <1>3 DEF HasRedirects, LiveRedirects
    <3> QED
      BY <3>1, <3>2
  <2>4. \A v \in WebsiteIDs : \A r \in LiveRedirects(v)' : v \in LiveWebsites'
    BY <2>1, <1>0, <1>5 DEF RedirectsAreOnce
  <2>5. \A r \in RedirectIDs : redirect'[r].state = "live" => redirect'[r].site \in WebsiteIDs
    BY <1>0, <1>3 DEF RedirectsAreOnce
  <2>6. \A v \in WebsiteIDs : /\ OriginalPatterns(v)' = WantedPatterns(v)'
                              /\ website'[v].state = "new" => WantedPatterns(v)' = {}
    <3>1. \A v : OriginalPatterns(v)' = OriginalPatterns(v) /\ WantedPatterns(v)' = WantedPatterns(v)
      BY <1>3 DEF OriginalPatterns, WantedPatterns
    <3> QED
      BY <3>1, <1>0, <1>2, <1>3, <1>4 DEF RedirectsAreOnce
  <2> QED
    BY <2>3, <2>4, <2>5, <2>6 DEF RedirectsAreOnce
<1>10. RequestsAreSound'
  <2>1. RowsRemain
    BY <1>2, <1>3, <1>4 DEF RowsRemain
  <2>2. \A v \in WebsiteIDs \ {w} : Leaves(v)
    BY <1>3, <1>4, <1>5 DEF Leaves
  <2>3. \A y \in Active : edits[y] # w
    BY <1>0, <1>3 DEF RequestsAreSound, IsAsked
  <2> QED
    BY <2>1, <2>2, <2>3, <1>0, <1>3, NoRequestMoves DEF RequestsAreSound
<1> QED
  BY <1>6, <1>7, <1>8, <1>9, <1>10 DEF WebsitesInv

LEMMA DeleteWebsiteInv ==
    ASSUME WebsitesInv, NEW w \in WebsiteIDs, DeleteWebsite(w)
    PROVE  WebsitesInv'
<1>0. WebsitesTypeOK /\ NamesAreUnique /\ PrimariesAreOwn /\ RedirectsAreOnce /\ RequestsAreSound
  BY DEF WebsitesInv
<1>1. /\ w \in LiveWebsites /\ website' = [website EXCEPT ![w].state = "deleted"]
      /\ domain' = [d \in DomainIDs |-> IF d \in LiveDomains /\ domain[d].site = w
                                        THEN [domain[d] EXCEPT !.state = "deleted"] ELSE domain[d]]
      /\ redirect' = [r \in RedirectIDs |-> IF r \in LiveRedirects(w)
                                            THEN [redirect[r] EXCEPT !.state = "deleted"]
                                            ELSE redirect[r]]
      /\ outdated' = outdated \cup Active
      /\ UNCHANGED <<staffVars, disturbed, wanted, original>>
  BY DEF DeleteWebsite, Active
<1>2. /\ website \in [WebsiteIDs -> Website] /\ domain \in [DomainIDs -> Domain]
      /\ redirect \in [RedirectIDs -> Redirect]
  BY <1>0 DEF WebsitesTypeOK
<1>3. /\ website' \in [WebsiteIDs -> Website] /\ website'[w].state = "deleted"
      /\ \A v \in WebsiteIDs \ {w} : website'[v] = website[v]
  BY <1>1, <1>2 DEF Website
<1>4. \A d \in DomainIDs :
         /\ domain'[d] \in Domain
         /\ domain'[d].host = domain[d].host /\ domain'[d].site = domain[d].site
         /\ IF d \in LiveDomains /\ domain[d].site = w THEN domain'[d].state = "deleted"
            ELSE domain'[d] = domain[d]
  BY <1>1, <1>2 DEF Domain
<1>5. \A r \in RedirectIDs :
         /\ redirect'[r] \in Redirect /\ redirect'[r].pattern = redirect[r].pattern
         /\ redirect'[r].site = redirect[r].site
         /\ IF r \in LiveRedirects(w) THEN redirect'[r].state = "deleted"
            ELSE redirect'[r] = redirect[r]
  BY <1>1, <1>2 DEF Redirect
<1>6. domain' \in [DomainIDs -> Domain] /\ redirect' \in [RedirectIDs -> Redirect]
  BY <1>1, <1>4, <1>5
<1>7. LiveWebsites' = LiveWebsites \ {w} /\ LiveWebsites \subseteq WebsiteIDs
  BY <1>1, <1>3 DEF LiveWebsites
<1>8. LiveDomains' = {d \in LiveDomains : domain[d].site # w} /\ LiveDomains \subseteq DomainIDs
  BY <1>4 DEF LiveDomains
<1>9. LiveRedirects(w)' = {}
  BY <1>5 DEF LiveRedirects
<1>10. \A v \in WebsiteIDs \ {w} : LiveRedirects(v)' = LiveRedirects(v)
  <2> SUFFICES ASSUME NEW v \in WebsiteIDs \ {w} PROVE LiveRedirects(v)' = LiveRedirects(v)
    OBVIOUS
  <2>1. \A r \in RedirectIDs : (redirect'[r].state = "live" /\ redirect'[r].site = v)
           <=> (redirect[r].state = "live" /\ redirect[r].site = v)
    BY <1>5 DEF LiveRedirects
  <2> QED
    BY <2>1 DEF LiveRedirects
<1>11. WebsitesTypeOK'
  <2>1. \A d \in LiveDomains' : domain'[d].site \in LiveWebsites'
    BY <1>0, <1>4, <1>7, <1>8 DEF WebsitesTypeOK
  <2>2. outdated' \subseteq Staff
    BY <1>0, <1>1 DEF WebsitesTypeOK, Active
  <2> QED
    BY <2>1, <2>2, <1>0, <1>1, <1>3, <1>6 DEF WebsitesTypeOK, staffVars
<1>12. NamesAreUnique'
  <2>1. \A v \in LiveWebsites' : v \in LiveWebsites /\ website'[v] = website[v]
    BY <1>3, <1>7
  <2>2. \A d \in LiveDomains' : d \in LiveDomains /\ domain'[d].host = domain[d].host
    BY <1>4, <1>8
  <2> QED
    BY <2>1, <2>2, <1>0 DEF NamesAreUnique
<1>13. PrimariesAreOwn'
  <2> SUFFICES ASSUME NEW v \in LiveWebsites' \ disturbed'
               PROVE  IsHost(website[v].primary, v, website[v].slug)'
    BY DEF PrimariesAreOwn
  <2>1. v \in LiveWebsites \ disturbed /\ v # w /\ website'[v] = website[v]
    BY <1>1, <1>3, <1>7
  <2>2. IsHost(website[v].primary, v, website[v].slug)
    BY <2>1, <1>0 DEF PrimariesAreOwn
  <2>3. \A d \in LiveDomains : domain[d].site = v =>
           d \in LiveDomains' /\ domain'[d].host = domain[d].host /\ domain'[d].site = v
    BY <2>1, <1>4, <1>8
  <2> QED
    BY <2>1, <2>2, <2>3 DEF IsHost
<1>14. RedirectsAreOnce'
  <2>1. ASSUME NEW v \in LiveWebsites' \ disturbed' PROVE HasRedirects(v)'
    <3>1. v \in LiveWebsites \ disturbed /\ v \in WebsiteIDs \ {w}
      BY <1>1, <1>7
    <3>2. HasRedirects(v)
      BY <3>1, <1>0 DEF RedirectsAreOnce
    <3>3. LiveRedirects(v)' = LiveRedirects(v)
      BY <3>1, <1>10
    <3>4. \A r \in LiveRedirects(v) : redirect'[r] = redirect[r]
      BY <3>1, <1>5 DEF LiveRedirects
    <3> QED
      BY <3>2, <3>3, <3>4, <1>1, RedirectsRemain
  <2>2. \A v \in WebsiteIDs : \A r \in LiveRedirects(v)' : v \in LiveWebsites'
    BY <1>0, <1>7, <1>9, <1>10 DEF RedirectsAreOnce
  <2>3. \A r \in RedirectIDs : redirect'[r].state = "live" => redirect'[r].site \in WebsiteIDs
    BY <1>0, <1>5 DEF RedirectsAreOnce
  <2>4. \A v \in WebsiteIDs : /\ OriginalPatterns(v)' = WantedPatterns(v)'
                              /\ website'[v].state = "new" => WantedPatterns(v)' = {}
    <3>1. \A v : OriginalPatterns(v)' = OriginalPatterns(v) /\ WantedPatterns(v)' = WantedPatterns(v)
      BY <1>1 DEF OriginalPatterns, WantedPatterns
    <3> QED
      BY <3>1, <1>0, <1>1, <1>3 DEF RedirectsAreOnce
  <2> QED
    BY <2>1, <2>2, <2>3, <2>4 DEF RedirectsAreOnce
<1>15. RequestsAreSound'
  <2>1. RowsRemain
    <3>1. \A v \in WebsiteIDs : website[v].state # "new" => website'[v].state # "new"
      BY <1>3
    <3>2. \A d \in DomainIDs : domain[d].state # "new" => domain'[d].state # "new"
      BY <1>4
    <3>3. \A r \in RedirectIDs : redirect[r].state # "new" => redirect'[r].state # "new"
      BY <1>5
    <3> QED
      BY <3>1, <3>2, <3>3, <1>4, <1>5 DEF RowsRemain
  <2>2. outdated \subseteq outdated' /\ outdated' = Active
    BY <1>0, <1>1 DEF RequestsAreSound
  <2> QED
    BY <2>1, <2>2, <1>1, NoRequestMoves
<1> QED
  BY <1>11, <1>12, <1>13, <1>14, <1>15 DEF WebsitesInv

LEMMA CheckTlsInv ==
    ASSUME WebsitesInv, NEW d \in DomainIDs, CheckTlsCertificateForDomain(d)
    PROVE  WebsitesInv'
<1>0. WebsitesTypeOK /\ NamesAreUnique /\ PrimariesAreOwn /\ RedirectsAreOnce /\ RequestsAreSound
  BY DEF WebsitesInv
<1>1. /\ domain' = [domain EXCEPT ![d].tls = TRUE]
      /\ UNCHANGED <<website, redirect, staffVars, outdated, disturbed, wanted, original>>
  BY DEF CheckTlsCertificateForDomain, historyVars
<1>2. domain \in [DomainIDs -> Domain]
  BY <1>0 DEF WebsitesTypeOK
<1>3. /\ domain' \in [DomainIDs -> Domain]
      /\ \A e \in DomainIDs : /\ domain'[e].state = domain[e].state
                              /\ domain'[e].host = domain[e].host
                              /\ domain'[e].site = domain[e].site
  BY <1>1, <1>2 DEF Domain
<1>4. /\ LiveWebsites' = LiveWebsites /\ LiveDomains' = LiveDomains
      /\ LiveDomains \subseteq DomainIDs
  BY <1>1, <1>3 DEF LiveWebsites, LiveDomains
<1>5. WebsitesTypeOK'
  <2>1. \A e \in LiveDomains' : domain'[e].site \in LiveWebsites'
    BY <1>0, <1>3, <1>4 DEF WebsitesTypeOK
  <2> QED
    BY <2>1, <1>0, <1>1, <1>3 DEF WebsitesTypeOK, staffVars
<1>6. NamesAreUnique'
  BY <1>0, <1>1, <1>3, <1>4 DEF NamesAreUnique
<1>7. PrimariesAreOwn'
  BY <1>0, <1>1, <1>3, <1>4 DEF PrimariesAreOwn, IsHost
<1>8. RedirectsAreOnce'
  BY <1>1, <1>4, RedirectsStay
<1>9. RowsRemain /\ \A v \in WebsiteIDs : Leaves(v)
  BY <1>1, <1>3, <1>4 DEF RowsRemain, Leaves
<1>10. RequestsAreSound'
  BY <1>0, <1>1, <1>9, NoRequestMoves DEF RequestsAreSound
<1> QED
  BY <1>5, <1>6, <1>7, <1>8, <1>10 DEF WebsitesInv

-----------------------------------------------------------------------------
(* Websites: every step, and what follows from the invariant.              *)

LEMMA StaffStepInv ==
    ASSUME WebsitesInv, NEW x \in Staff, StaffStep(x)
    PROVE  WebsitesInv'
<1>1. ASSUME NEW w \in WebsiteIDs, NEW slug \in Slugs \cup {NoSlug}, NEW blocked \in BOOLEAN,
             UpdateWebsite(x, w, slug, blocked)
      PROVE  WebsitesInv'
  BY <1>1, UpdateWebsiteInv
<1>2. ASSUME NEW w \in WebsiteIDs, NEW d \in DomainIDs, SetDomainAsPrimary(x, w, d)
      PROVE  WebsitesInv'
  BY <1>2, SetDomainAsPrimaryInv
<1>3. ASSUME NEW w \in WebsiteIDs, NEW d \in DomainIDs, NEW primary \in BOOLEAN,
             AddDomain(x, w, d, primary)
      PROVE  WebsitesInv'
  BY <1>3, AddDomainInv
<1>4. ASSUME NEW w \in WebsiteIDs, SetSubdomainAsPrimary(x, w) PROVE WebsitesInv'
  BY <1>4, SetSubdomainAsPrimaryInv
<1>5. ASSUME NEW w \in WebsiteIDs, UpdateWebsiteIcon(x, w) PROVE WebsitesInv'
  BY <1>5, UpdateWebsiteIconInv
<1>6. ASSUME NEW w \in WebsiteIDs, NEW list \in Lists, SaveRedirects(x, w, list)
      PROVE  WebsitesInv'
  BY <1>6, SaveRedirectsInv
<1>7. ASSUME NEW d \in DomainIDs, RemoveDomain(x, d) PROVE WebsitesInv'
  BY <1>7, RemoveDomainInv
<1>8. CASE CommitUpdate(x)
  BY <1>8, CommitUpdateInv
<1>9. CASE CommitAddDomain(x)
  BY <1>9, CommitAddDomainInv
<1>10. CASE CommitRemoveDomain(x)
  BY <1>10, CommitRemoveDomainInv
<1>11. CASE CommitRedirects(x)
  BY <1>11, CommitRedirectsInv
<1>12. CASE CommitIcon(x)
  BY <1>12, CommitIconInv
<1>13. CASE FailRequest(x)
  BY <1>13, FailRequestInv
<1> QED
  BY <1>1, <1>2, <1>3, <1>4, <1>5, <1>6, <1>7, <1>8, <1>9, <1>10, <1>11, <1>12, <1>13
     DEF StaffStep

LEMMA WebsitesStutter == ASSUME WebsitesInv, UNCHANGED websitesVars PROVE WebsitesInv'
<1>1. /\ UNCHANGED <<website, domain, redirect, outdated, disturbed, wanted, original>>
      /\ UNCHANGED staffVars
  BY DEF websitesVars, tableVars, historyVars
<1>2. LiveWebsites' = LiveWebsites /\ LiveDomains' = LiveDomains
  BY <1>1 DEF LiveWebsites, LiveDomains
<1>3. RowsRemain /\ \A v \in WebsiteIDs : Leaves(v)
  BY <1>1, <1>2 DEF RowsRemain, Leaves
<1>4. RequestsAreSound'
  BY <1>1, <1>3, NoRequestMoves DEF WebsitesInv, RequestsAreSound
<1>5. NamesAreUnique' /\ PrimariesAreOwn'
  BY <1>1, <1>2 DEF WebsitesInv, NamesAreUnique, PrimariesAreOwn, IsHost
<1>6. RedirectsAreOnce'
  BY <1>1, <1>2, RedirectsStay
<1>7. WebsitesTypeOK'
  BY <1>1, <1>2 DEF WebsitesInv, WebsitesTypeOK, staffVars
<1> QED
  BY <1>4, <1>5, <1>6, <1>7 DEF WebsitesInv

LEMMA WebsitesStepInv == WebsitesInv /\ [WebsitesNext]_websitesVars => WebsitesInv'
<1> SUFFICES ASSUME WebsitesInv, [WebsitesNext]_websitesVars PROVE WebsitesInv'
  OBVIOUS
<1>1. ASSUME NEW x \in Staff, StaffStep(x) PROVE WebsitesInv'
  BY <1>1, StaffStepInv
<1>2. ASSUME NEW w \in WebsiteIDs, DeleteWebsite(w) PROVE WebsitesInv'
  BY <1>2, DeleteWebsiteInv
<1>3. ASSUME NEW w \in WebsiteIDs, NEW slug \in Slugs, CreateWebsite(w, slug) PROVE WebsitesInv'
  BY <1>3, CreateWebsiteInv
<1>4. ASSUME NEW d \in DomainIDs, CheckTlsCertificateForDomain(d) PROVE WebsitesInv'
  BY <1>4, CheckTlsInv
<1>5. CASE UNCHANGED websitesVars
  BY <1>5, WebsitesStutter
<1> QED
  BY <1>1, <1>2, <1>3, <1>4, <1>5 DEF WebsitesNext

\* A host is that of one website.
LEMMA HostsAreOfOne ==
    ASSUME WebsitesInv, NEW v \in LiveWebsites, NEW w \in LiveWebsites,
           NEW host \in Slugs \cup Hostnames,
           v \in FindWebsiteByDomain(host), w \in FindWebsiteByDomain(host)
    PROVE  v = w
<1>1. \A d \in LiveDomains : domain[d].host \in Hostnames
  BY RowFacts
<1>2. /\ \A u, t \in LiveWebsites : website[u].slug = website[t].slug => u = t
      /\ \A d, e \in LiveDomains : domain[d].host = domain[e].host => d = e
  BY DEF WebsitesInv, NamesAreUnique
<1>3. CASE host \in Slugs
  <2>1. host \notin Hostnames
    BY <1>3, WebsitesAssumption
  <2> QED
    BY <2>1, <1>1, <1>2 DEF FindWebsiteByDomain
<1>4. CASE host \notin Slugs
  <2>1. PICK d \in LiveDomains : domain[d].host = host /\ domain[d].site = v
    BY <1>4 DEF FindWebsiteByDomain
  <2>2. PICK e \in LiveDomains : domain[e].host = host /\ domain[e].site = w
    BY <1>4 DEF FindWebsiteByDomain
  <2> QED
    BY <2>1, <2>2, <1>2
<1> QED
  BY <1>3, <1>4

\* A visitor is led to a website's primary domain, and there he is served.
LEMMA Reachable == WebsitesInv => WebsitesAreReachable
<1> SUFFICES ASSUME WebsitesInv, NEW w \in LiveWebsites \ disturbed, ~website[w].blocked,
                    NEW host \in Slugs \cup Hostnames, w \in FindWebsiteByDomain(host)
             PROVE  ServeContent(host) = {w} \/ \E h \in Slugs \cup Hostnames :
                        ServeContent(host) = {h} /\ ServeContent(h) = {w}
  BY DEF WebsitesAreReachable
<1>1. PICK p : p = website[w].primary
  OBVIOUS
<1>2. /\ website[w].slug \in Slugs /\ \A d \in LiveDomains : domain[d].host \in Hostnames
      /\ IsHost(p, w, website[w].slug)
  BY <1>1, RowFacts
<1>3. p \in Slugs \cup Hostnames /\ w \in FindWebsiteByDomain(p)
  BY <1>2 DEF IsHost, FindWebsiteByDomain
<1>4. ASSUME NEW h \in Slugs \cup Hostnames, w \in FindWebsiteByDomain(h)
      PROVE  ServeContent(h) = {IF h # p THEN p ELSE w}
  <2>1. FindWebsiteByDomain(h) = {w}
    BY <1>4, HostsAreOfOne DEF FindWebsiteByDomain
  <2>2. ServeContent(h) = {IF website[v].blocked THEN "not found"
                           ELSE IF h # website[v].primary THEN website[v].primary ELSE v : v \in {w}}
    BY <2>1 DEF ServeContent
  <2> QED
    BY <2>2, <1>1
<1>5. ServeContent(p) = {w} /\ ServeContent(host) = {IF host # p THEN p ELSE w}
  BY <1>3, <1>4
<1> QED
  BY <1>3, <1>5

\* With a row for each pattern there are as many rows as patterns.
LEMMA RedirectsSaved == WebsitesInv => RedirectsAreSaved
<1> SUFFICES ASSUME WebsitesInv, NEW w \in LiveWebsites \ disturbed
             PROVE  /\ {redirect[r].pattern : r \in LiveRedirects(w)} = DOMAIN wanted[w]
                    /\ Cardinality(LiveRedirects(w)) = Cardinality(DOMAIN wanted[w])
                    /\ \A r \in LiveRedirects(w) :
                         redirect[r].to = original[w][redirect[r].pattern]
  BY DEF RedirectsAreSaved
<1>1. /\ {redirect[r].pattern : r \in LiveRedirects(w)} = DOMAIN wanted[w]
      /\ \A r, s \in LiveRedirects(w) : redirect[r].pattern = redirect[s].pattern => r = s
      /\ \A r \in LiveRedirects(w) : redirect[r].to = original[w][redirect[r].pattern]
  BY DEF WebsitesInv, RedirectsAreOnce, HasRedirects
<1>2. PICK P : P = DOMAIN wanted[w]
  OBVIOUS
<1> DEFINE f == [r \in LiveRedirects(w) |-> redirect[r].pattern]
<1>3. IsFiniteSet(LiveRedirects(w))
  BY WebsitesAssumption, FS_Subset DEF LiveRedirects
<1>4. f \in Surjection(LiveRedirects(w), P)
  BY <1>1, <1>2 DEF Surjection
<1>5. f \in Injection(LiveRedirects(w), P)
  BY <1>1, <1>2 DEF Injection, IsInjective
<1>6. Cardinality(P) = Cardinality(LiveRedirects(w))
  BY <1>3, <1>4, <1>5, FS_Surjection
<1> QED
  BY <1>1, <1>2, <1>6

\* The inductive invariant of the websites, their domains and redirects
\* (pkg/services/websites/service).
THEOREM WebsitesInvariance == WebsitesSpec => []WebsitesInv
  BY WebsitesInitInv, WebsitesStepInv, PTL DEF WebsitesSpec

\* The state of websites, domains, redirects and the requests of the staff is well-formed.
THEOREM WebsitesTypes == WebsitesSpec => []WebsitesTypeOK
<1>1. WebsitesInv => WebsitesTypeOK
  BY DEF WebsitesInv
<1> QED
  BY <1>1, WebsitesInvariance, PTL

\* At any of its hosts a website that no overlapping requests wrote is reached after one
\* redirection at most; it has the redirects saved last, once each, and each leads where
\* it was to lead when it was made, for as long as every list has it, whatever later ones
\* say (serve_content.go, redirects_utils.go).
THEOREM VisitorsLed == WebsitesSpec => []VisitorsAreLed
<1>1. WebsitesInv => VisitorsAreLed
  BY Reachable, RedirectsSaved DEF VisitorsAreLed
<1> QED
  BY <1>1, WebsitesInvariance, PTL

-----------------------------------------------------------------------------
(* What the run checks of several of them.                                 *)

\* A behavior of the run is one of each of them.
LEMMA EachOfSite ==
    MCSpec => PagesSpec /\ AssetsSpec /\ WebsitesSpec /\ RedirectsSpec /\ ClientSpec
<1>1. MCInit => PagesInit /\ AssetsInit /\ WebsitesInit /\ RedirectsInit /\ ClientInit
  BY DEF MCInit
<1> DEFINE all == <<pagesVars, assetsVars, websitesVars, redirectsVars, clientVars, instance>>
<1>2. [MCNext]_all => [PagesNext]_pagesVars
  BY DEF MCNext
<1>3. [MCNext]_all => [AssetsNext]_assetsVars
  BY DEF MCNext
<1>4. [MCNext]_all => [WebsitesNext]_websitesVars
  BY DEF MCNext
<1>5. [MCNext]_all => [RedirectsNext]_redirectsVars
  BY DEF MCNext
<1>6. [MCNext]_all => [ClientNext]_clientVars
  BY DEF MCNext
<1> QED
  BY <1>1, <1>2, <1>3, <1>4, <1>5, <1>6, PTL
     DEF MCSpec, PagesSpec, AssetsSpec, WebsitesSpec, RedirectsSpec, ClientSpec

(***************************************************************************)
(* By the domains of a website a visitor is led as its staff made them     *)
(* last; the patterns that lead him elsewhere are those saved last, each   *)
(* leads where it was to lead when it was new, and is matched as it means, *)
(* in every behavior of the run.                                           *)
(***************************************************************************)
THEOREM VisitorsArriving == MCSpec => []VisitorsArrive
<1>1. VisitorsAreLed /\ RedirectsAreMeant => VisitorsArrive
  BY DEF VisitorsArrive
<1> QED BY <1>1, EachOfSite, VisitorsLed, RedirectsMeant, PTL

(***************************************************************************)
(* The pages, assets, websites and domains, redirects and the files of the *)
(* client are what the code makes of them, in every behavior of the run.   *)
(***************************************************************************)
THEOREM SiteTypes == MCSpec => []SiteTypeOK
<1>1. PagesTypeOK /\ AssetsTypeOK /\ WebsitesTypeOK /\ RedirectsTypeOK /\ ClientTypeOK => SiteTypeOK
  BY DEF SiteTypeOK
<1> QED
  BY <1>1, EachOfSite, PagesTypes, AssetsTypes, WebsitesTypes, RedirectsTypes, ClientTypes, PTL
====
