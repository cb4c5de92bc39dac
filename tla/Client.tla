------------------------------- MODULE Client -------------------------------
(***************************************************************************)
(* mdninja publish (cmd/mdninja/client): makes a website like a directory, *)
(* over the API, while the directory and the website may change.           *)
(*                                                                         *)
(* Each kind of file in turn is listed on the website and read from the    *)
(* disk, and what is new or differs is sent, a call per file.  A call is   *)
(* refused, or fails, or is done and its answer lost; the client tries     *)
(* none again, and leaves what is only on the website.  A text stands for  *)
(* the bytes of an asset or snippet, and for all of a page that its two    *)
(* hashes cover but its type.  Left out: several files for one name,       *)
(* products' assets, which nothing sends, and files that are too large,    *)
(* which the walks leave out with a warning.                               *)
(***************************************************************************)
EXTENDS Naturals, FiniteSets, SavedRedirects

CONSTANTS
    AssetPaths, SnippetNames, PageUrls,
    FolderOf,     \* FolderOf[a]: the asset that is the folder of a, or NoFile
    Texts,
    MaxListed,    \* pages of a type that the API lists, 1000
    MaxEdits,   \* bound: edits of the disk and, by others, of the website
    NoFile, Folder, NoUpload

ASSUME ClientAssumption ==
    /\ FolderOf \in [AssetPaths -> AssetPaths \cup {NoFile}]
    /\ MaxListed \in Nat \ {0} /\ MaxEdits \in Nat
    /\ AssetPaths \cap SnippetNames = {} /\ (AssetPaths \cup SnippetNames) \cap PageUrls = {}
    /\ IsFiniteSet(PageUrls)
    /\ {NoFile, Folder} \cap Texts = {} /\ NoFile # Folder
    /\ NoFile \notin AssetPaths \cup SnippetNames \cup PageUrls
    /\ NoFile \notin [text : Texts, draft : BOOLEAN, type : {"page", "post"}]
    /\ NoFile \notin [text : Texts, draft : BOOLEAN, type : {"page", "post", "unsaid"}]

VARIABLES
    disk,      \* disk[f]: the file f
    remote,    \* remote[f]: what the website has for it
    settings,  \* the website's: name and ad are "none", "given" by a configuration, or "other"
    upload,    \* what the client does
    touches    \* how many edits there were

clientVars == <<disk, remote, settings, upload, touches>>

Settings == {"name", "ad", "redirects"}
RemoteSettings == [name : {"none", "given", "other"}, ad : {"none", "given", "other"},
                   redirects : Lists]
Types == {"page", "post"}
DiskFiles == AssetPaths \cup SnippetNames \cup PageUrls
LocalPages == [text : Texts, draft : BOOLEAN, type : Types \cup {"unsaid"}]
RemotePages == [text : Texts, draft : BOOLEAN, type : Types]

Rows(f, pages) == IF f \in PageUrls THEN pages ELSE Texts

On(where, kind) == {f \in kind : where[f] # NoFile}

\* A path is a file or a directory.
IsDisk(d) ==
    /\ \A f \in AssetPaths \cup SnippetNames : d[f] \in Texts \cup {NoFile}
    /\ \A p \in PageUrls : d[p] \in LocalPages \cup {NoFile}
    /\ \A a \in On(d, AssetPaths) : FolderOf[a] # NoFile => d[FolderOf[a]] = NoFile

\* What the walks through the directories find.
LoadLocalAssets == On(disk, AssetPaths)
WalkSnippets    == On(disk, SnippetNames)
LoadLocalPages  == On(disk, PageUrls)

ClientInit ==
    /\ disk = [f \in DiskFiles |-> NoFile] /\ remote = disk
    /\ settings = [name |-> "none", ad |-> "none", redirects |-> NoRedirects]
    /\ upload = NoUpload
    /\ touches = 0

-----------------------------------------------------------------------------
(* The API.  The calls of the client are made one at a time.               *)

\* "failed": without effect; "lost": with it, but the client doesn't know.
Answers == {"ok", "failed", "lost"}

\* What the website has after a call with an effect; a call that is not allowed
\* has none and is answered with an error.
Called(answer, allowed, effect) ==
    remote' = IF allowed /\ answer # "failed" THEN effect ELSE remote

Succeeds(answer, allowed) == allowed /\ answer = "ok"

\* A deleted folder takes what is in it along.
WithoutAsset(a) ==
    [f \in DiskFiles |->
       IF f = a \/ (f \in AssetPaths /\ FolderOf[f] = a) THEN NoFile ELSE remote[f]]

\* Its folder is made, if there is none.
WithAsset(a) ==
    [f \in DiskFiles |-> IF f = a THEN disk[a]
                         ELSE IF f = FolderOf[a] THEN Folder ELSE remote[f]]

\* Not if an asset has its path, or one that isn't a folder that of its folder.
MayUpload(a) ==
    remote[a] = NoFile /\ (FolderOf[a] = NoFile \/ remote[FolderOf[a]] \in {NoFile, Folder})

-----------------------------------------------------------------------------
(* The course of a publication.                                            *)

\* given are the settings in the configuration, list its redirects, and had those of
\* the website at the start.  Of the kind that is sent, listed
\* is what the website has, todo what is to be sent, read the files, now the asset
\* whose old row was deleted, and gone the rows that were deleted since they were
\* listed.  To tell what came of it: missed are the files that were given up,
\* unsent pages of which only the draft differs, touched what others changed, and
\* reasons why files are missed, if not for that.
NoFiles == [f \in {} |-> NoFile]

StartPublish(given, list) ==
    /\ upload = NoUpload
    /\ "redirects" \notin given => list = NoRedirects
    /\ upload' = [step |-> "find", given |-> given, list |-> list, had |-> settings.redirects,
                  listed |-> {}, todo |-> {}, read |-> NoFiles, now |-> NoFile, gone |-> {},
                  missed |-> {}, unsent |-> {}, touched |-> {}, reasons |-> {}]
    /\ UNCHANGED <<disk, remote, settings, touches>>

At_(step) == upload # NoUpload /\ upload.step = step

\* The command is over, after an error or not.
Stop_(reasons) ==
    upload' = [upload EXCEPT !.step = "over", !.missed = @ \cup DiskFiles,
                             !.reasons = @ \cup reasons]

\* The website has the domain that was asked for, or hasn't.
FindWebsite(answer) ==
    /\ At_("find")
    /\ IF answer = "ok" THEN upload' = [upload EXCEPT !.step = "website"] ELSE Stop_({"call"})
    /\ UNCHANGED <<disk, remote, settings, touches>>

\* A name that isn't given stays; without an ad in the configuration there is none.
UpdateWebsite_(answer) ==
    /\ At_("website")
    /\ settings' = IF answer = "failed" THEN settings ELSE
         [settings EXCEPT !.name = IF "name" \in upload.given THEN "given" ELSE @,
                          !.ad = IF "ad" \in upload.given THEN "given" ELSE "none"]
    /\ IF answer = "ok"
       THEN upload' = [upload EXCEPT !.step = IF "redirects" \in upload.given
                                              THEN "redirects" ELSE "list assets"]
       ELSE Stop_({"call"})
    /\ UNCHANGED <<disk, remote, touches>>

\* The redirects the website has already lead where they did.
SaveRedirects_(answer) ==
    /\ At_("redirects")
    /\ settings' = IF answer = "failed" THEN settings
                   ELSE [settings EXCEPT !.redirects = Saved(upload.list, @)]
    /\ IF answer = "ok" THEN upload' = [upload EXCEPT !.step = "list assets"] ELSE Stop_({"call"})
    /\ UNCHANGED <<disk, remote, touches>>

\* What comes after sending a kind.
After(step) == CASE step = "send assets" -> "list snippets"
                 [] step = "send snippets" -> "list pages"
                 [] step = "send pages" -> "over"

\* A kind is listed, and the disk read; if that fails it is given up.  That the
\* website is read before the disk, and pages before posts, makes no difference:
\* no file's row is read twice.
Load(kind, answer, sending, listed, todo, unsent) ==
    /\ upload' =
         IF answer = "ok"
         THEN [upload EXCEPT !.step = sending, !.listed = listed, !.todo = todo,
                             !.read = [f \in todo |-> disk[f]], !.unsent = unsent]
         ELSE [upload EXCEPT !.step = After(sending), !.missed = @ \cup kind,
                             !.reasons = @ \cup {"call"}]
    /\ UNCHANGED <<disk, remote, settings, touches>>

Because(answer, reason) == IF answer = "ok" THEN reason ELSE {"call"}

NothingLeft ==
    /\ upload # NoUpload /\ upload.todo = {}
    /\ upload.step \in {"send assets", "send snippets", "send pages"}
    /\ upload' = [upload EXCEPT !.step = After(@), !.read = NoFiles, !.gone = {}]
    /\ UNCHANGED <<disk, remote, settings, touches>>

Exit_ ==
    /\ At_("over")
    /\ upload' = NoUpload
    /\ UNCHANGED <<disk, remote, settings, touches>>

-----------------------------------------------------------------------------
(* Assets.  The error of one doesn't keep the next from being sent.        *)

ListAssets(answer) ==
    /\ At_("list assets")
    /\ Load(AssetPaths, answer, "send assets", On(remote, AssetPaths),
            {a \in LoadLocalAssets : disk[a] # remote[a]}, {})

\* The asset a is sent or given up.
EndAsset(a, answer, well, reason) ==
    upload' = [upload EXCEPT !.todo = @ \ {a}, !.now = NoFile,
                 !.missed = IF well THEN @ ELSE @ \cup {a},
                 !.reasons = IF well THEN @ ELSE @ \cup Because(answer, reason)]

\* One that differs is deleted first, by its ID.
DeleteOldAsset(a, answer) ==
    LET allowed == remote[a] # NoFile /\ a \notin upload.gone IN
    /\ At_("send assets") /\ upload.now = NoFile /\ a \in upload.todo \cap upload.listed
    /\ Called(answer, allowed, WithoutAsset(a))
    /\ IF Succeeds(answer, allowed) THEN upload' = [upload EXCEPT !.now = a]
       ELSE EndAsset(a, answer, FALSE, {})
    /\ UNCHANGED <<disk, settings, touches>>

\* Fault: an asset that was deleted isn't sent.
UploadNewAsset(a, answer) ==
    LET allowed == disk[a] # NoFile /\ MayUpload(a)
        well    == Succeeds(answer, allowed)
        blocked == FolderOf[a] # NoFile /\ remote[FolderOf[a]] \notin {NoFile, Folder}
    IN  /\ At_("send assets") /\ a \in upload.todo
        /\ upload.now = a \/ (upload.now = NoFile /\ a \notin upload.listed)
        /\ Called(answer, allowed /\ upload.now # a, WithAsset(a))
        /\ EndAsset(a, answer, well, IF blocked THEN {"folder"} ELSE {})
        /\ UNCHANGED <<disk, settings, touches>>

\* The file is read again for that, if it is still there.
UploadAsset(a, answer) ==
    LET allowed == disk[a] # NoFile /\ MayUpload(a)
        well    == Succeeds(answer, allowed)
        blocked == FolderOf[a] # NoFile /\ remote[FolderOf[a]] \notin {NoFile, Folder}
    IN  /\ At_("send assets") /\ a \in upload.todo
        /\ upload.now = a \/ (upload.now = NoFile /\ a \notin upload.listed)
        /\ Called(answer, allowed, WithAsset(a))
        /\ EndAsset(a, answer, well, IF blocked THEN {"folder"} ELSE {})
        /\ UNCHANGED <<disk, settings, touches>>

-----------------------------------------------------------------------------
(* Snippets and pages: the first error ends the kind.                      *)

ListSnippets(answer) ==
    /\ At_("list snippets")
    /\ Load(SnippetNames, answer, "send snippets", On(remote, SnippetNames),
            {n \in WalkSnippets : disk[n] # remote[n]}, {})

\* f is updated if it was listed, which needs the row that was, or created, which
\* needs that there is none.
Send(f, answer, row, reason) ==
    LET allowed == IF f \in upload.listed THEN remote[f] # NoFile /\ f \notin upload.gone
                                          ELSE remote[f] = NoFile
    IN  /\ f \in upload.todo
        /\ Called(answer, allowed, [remote EXCEPT ![f] = row])
        /\ upload' = IF Succeeds(answer, allowed) THEN [upload EXCEPT !.todo = @ \ {f}]
                     ELSE [upload EXCEPT !.todo = {}, !.missed = @ \cup upload.todo,
                                         !.reasons = @ \cup Because(answer, reason)]
        /\ UNCHANGED <<disk, settings, touches>>

SendSnippet(n, answer) == At_("send snippets") /\ Send(n, answer, upload.read[n], {})

\* What a file doesn't say is as on the website, or the default.
ReadAndParseMarkdownFile(p, listed) ==
    [disk[p] EXCEPT !.type = IF @ # "unsaid" THEN @
                             ELSE IF p \in listed THEN remote[p].type ELSE "page"]

\* Fault: of what the hashes cover only the type is compared.
DiffersByType(page, row) == page.type # row.type

\* By the hashes of the body and of the metadata.
Differs(page, row) == page.text # row.text \/ page.type # row.type

OfType(t) == {p \in On(remote, PageUrls) : remote[p].type = t}

\* The latest of each type.  If a file isn't right, no page is sent.
ListPages_(answer, listed) ==
    LET same == {p \in listed \cap LoadLocalPages :
                   ~ Differs(ReadAndParseMarkdownFile(p, listed), remote[p])}
    IN
    /\ At_("list pages")
    /\ listed \subseteq On(remote, PageUrls)
    /\ \A t \in Types :
         LET n == Cardinality(OfType(t)) IN
         Cardinality(listed \cap OfType(t)) = IF n > MaxListed THEN MaxListed ELSE n
    /\ Load(PageUrls, answer, "send pages", listed, LoadLocalPages \ same,
            {p \in same : disk[p].draft # remote[p].draft})

\* The type that a page has stays.
SendPage(p, answer) ==
    LET page == upload.read[p]
        type == IF page.type = "unsaid" THEN "page" ELSE page.type
        unseen == p \notin upload.listed /\ p \notin upload.touched
    IN  /\ At_("send pages")
        /\ Send(p, answer,
                [page EXCEPT !.type = IF p \in upload.listed /\ remote[p] # NoFile
                                      THEN remote[p].type ELSE type],
                IF unseen THEN {"limit"} ELSE {})

-----------------------------------------------------------------------------
(* What others do.                                                         *)

Change(what, gone) ==
    /\ touches < MaxEdits /\ touches' = touches + 1
    /\ upload' = IF upload = NoUpload THEN upload
                 ELSE [upload EXCEPT !.touched = @ \cup what, !.gone = @ \cup gone]

ChangeDisk(f, file) ==
    /\ file # disk[f]
    /\ disk' = [disk EXCEPT ![f] = file] /\ IsDisk(disk')
    /\ Change({f}, {})
    /\ UNCHANGED <<remote, settings>>

\* An asset is deleted or uploaded; of the rest a row is made, changed or deleted.
CreateOrUpdate(f, row) ==
    /\ f \in AssetPaths => remote[f] = NoFile /\ FolderOf[f] = NoFile
    /\ f \in PageUrls /\ remote[f] # NoFile => row.type = remote[f].type
    /\ row # remote[f]
    /\ remote' = [remote EXCEPT ![f] = row]
    /\ Change({f}, {})
    /\ UNCHANGED <<disk, settings>>

Delete(f) ==
    /\ remote[f] # NoFile
    /\ remote' = IF f \in AssetPaths THEN WithoutAsset(f) ELSE [remote EXCEPT ![f] = NoFile]
    /\ LET these == {g \in DiskFiles : remote'[g] # remote[g]} IN Change(these, these)
    /\ UNCHANGED <<disk, settings>>

\* Of the redirects another list is saved.
ChangeSetting(s) ==
    /\ IF s = "redirects"
       THEN \E list \in Lists :
              settings' = [settings EXCEPT !.redirects = Saved(list, @)]
       ELSE settings' = [settings EXCEPT ![s] = "other"]
    /\ Change({s}, {})
    /\ UNCHANGED <<disk, remote>>

-----------------------------------------------------------------------------

PublishNext ==
    \/ \E given \in SUBSET Settings, list \in Lists : StartPublish(given, list)
    \/ \E answer \in Answers :
       \/ FindWebsite(answer) \/ UpdateWebsite_(answer) \/ SaveRedirects_(answer)
       \/ ListAssets(answer) \/ ListSnippets(answer)
       \/ \E listed \in SUBSET PageUrls : ListPages_(answer, listed)
       \/ \E a \in AssetPaths : DeleteOldAsset(a, answer) \/ UploadAsset(a, answer)
       \/ \E n \in SnippetNames : SendSnippet(n, answer)
       \/ \E p \in PageUrls : SendPage(p, answer)
    \/ NothingLeft \/ Exit_

OthersNext ==
    \/ \E f \in DiskFiles :
         \/ \E file \in Rows(f, LocalPages) \cup {NoFile} : ChangeDisk(f, file)
         \/ \E row \in Rows(f, RemotePages) : CreateOrUpdate(f, row)
         \/ Delete(f)
    \/ \E s \in Settings : ChangeSetting(s)

ClientNext == PublishNext \/ OthersNext

ClientSpec == ClientInit /\ [][ClientNext]_clientVars

-----------------------------------------------------------------------------
(* Properties.                                                             *)

ClientTypeOK ==
    /\ IsDisk(disk)
    /\ \A a \in AssetPaths : remote[a] \in Texts \cup {NoFile, Folder}
    /\ \A n \in SnippetNames : remote[n] \in Texts \cup {NoFile}
    /\ \A p \in PageUrls : remote[p] \in RemotePages \cup {NoFile}
    /\ settings \in RemoteSettings
    /\ upload # NoUpload =>
         /\ upload.todo \cup upload.listed \cup upload.missed \cup upload.unsent \subseteq DiskFiles
         /\ DOMAIN upload.read \subseteq DiskFiles
    /\ touches \in 0 .. MaxEdits

\* What the client should have put on the website by now: files that are not
\* missed and that nobody touched.
Due(kind) == On(disk, kind) \ (upload.missed \cup upload.touched)
Past(steps) == upload.step \in steps

\* The assets and snippets of the directory are on the website before its first
\* page, and at the end its pages, with their texts, and with their drafts and
\* types but where the client doesn't look or the website doesn't change them.
\* An asset that the website had is missing only while it is replaced.
FilesAreSent ==
    LET pages == {"list pages", "send pages", "over"} IN
    /\ Past(pages \cup {"list snippets", "send snippets"}) =>
         \A a \in Due(AssetPaths) : remote[a] = disk[a]
    /\ Past(pages) => \A n \in Due(SnippetNames) : remote[n] = disk[n]
    /\ Past({"over"}) => \A p \in Due(PageUrls) :
         /\ remote[p] # NoFile /\ remote[p].text = disk[p].text
         /\ p \in upload.unsent \/ remote[p].draft = disk[p].draft
         /\ p \in upload.listed \/ disk[p].type \in {"unsaid", remote[p].type}
    /\ Past({"send assets"}) =>
         \A a \in Due(AssetPaths) \cap upload.listed : remote[a] # NoFile \/ upload.now = a

\* The website has the redirects of the configuration, and no others; but one that it
\* had leads where it led.  Without redirects in the configuration all stay.
RedirectsAreSent ==
    IF "redirects" \in upload.given
    THEN /\ DOMAIN settings.redirects = DOMAIN upload.list
         /\ \A p \in DOMAIN upload.list \ DOMAIN upload.had : settings.redirects[p] = upload.list[p]
         /\ \A p \in DOMAIN upload.list \cap DOMAIN upload.had : settings.redirects[p] = upload.had[p]
    ELSE settings.redirects = upload.had

\* So is the rest of the configuration, and an ad it doesn't have is not shown.
SettingsAreSent ==
    LET untouched == Settings \ upload.touched IN
    Past({"list assets", "send assets", "list snippets", "send snippets", "list pages", "send pages"}) =>
      /\ \A s \in (upload.given \cap untouched) \ {"redirects"} : settings[s] = "given"
      /\ "ad" \in untouched \ upload.given => settings.ad = "none"
      /\ "redirects" \in untouched => RedirectsAreSent

\* If nobody touches anything, a file is missed only if a call fails, if its folder
\* is a file on the website, or if the website has more pages of a type than are listed.
FilesAreMissedForAReason ==
    upload.missed # {} /\ upload.touched = {} =>
      /\ upload.reasons # {}
      /\ "limit" \in upload.reasons =>
           \E t \in Types : Cardinality(OfType(t)) > MaxListed

SiteIsPublished ==
    upload # NoUpload => FilesAreSent /\ SettingsAreSent /\ FilesAreMissedForAReason
=============================================================================
