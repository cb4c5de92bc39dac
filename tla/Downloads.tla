------------------------------ MODULE Downloads ------------------------------
(***************************************************************************)
(* The files of a website as visitors download them, pkg/services/site:    *)
(* serveAsset.  A request finds the file at a path, has its ETag, a hash   *)
(* of the file and of the range that is asked for, and then answers from   *)
(* what the visitor keeps, from the memory of the server, where small      *)
(* files are kept for two days under their ETag, or from the storage,      *)
(* whose object it copies.  What is copied is kept, and the copying may    *)
(* break off: the storage fails, or the visitor leaves.                    *)
(*                                                                         *)
(* A file is never changed: it is deleted and another is uploaded.  One    *)
(* path stands for any, and one copy of a visitor for all of them.  Left   *)
(* out: folders, which are not found; media types and names; how a range   *)
(* is written.                                                             *)
(***************************************************************************)
EXTENDS Integers, FiniteSets

CONSTANTS
    FileIDs,      \* files that may be uploaded
    Texts,        \* what files of one size may hold
    FileSizes,    \* the sizes of files
    SmallFile,    \* 1_000_000: up to this size a file is kept in memory
    Downloads,    \* requests that may be under way
    NoRange, Malformed, OpenEnd, NoDownload, NoAnswer, NoKept

ASSUME DownloadsAssumption ==
    /\ FileSizes \subseteq Nat /\ IsFiniteSet(FileSizes) /\ SmallFile \in Nat
    /\ Texts # {} /\ FileSizes # {}
    /\ OpenEnd \notin FileSizes /\ NoRange # Malformed

VARIABLES
    file,      \* file[f]: its row, and whether its object is in the storage
    download,  \* download[x]: the file and range of a request
    memory,    \* assetsCache: ETags with bodies
    answer,    \* the last answer
    kept,      \* an answer that a visitor keeps, with its ETag
    broken     \* ETags whose body in memory was copied in part

downloadsVars == <<file, download, memory, answer, kept, broken>>

Contents == Texts \X FileSizes
SizeOf(c) == c[2]
File == [state : {"new", "live", "gone"}, content : Contents, product : BOOLEAN, stored : BOOLEAN]

\* A header that isn't a range of bytes is Malformed.
Ranges == {NoRange, Malformed} \cup [from : FileSizes, to : FileSizes \cup {OpenEnd}]

AnyContent == CHOOSE c \in Contents : TRUE

DownloadsInit ==
    /\ file = [f \in FileIDs |-> [state |-> "new", content |-> AnyContent, product |-> FALSE,
                                  stored |-> FALSE]]
    /\ download = [x \in Downloads |-> NoDownload]
    /\ memory = {} /\ answer = NoAnswer /\ kept = NoKept /\ broken = {}

-----------------------------------------------------------------------------
(* The staff and the jobs: the object is stored before there is a row, and *)
(* deleted after it.  Another file may be uploaded to the path in between. *)

LiveFiles == {f \in FileIDs : file[f].state = "live"}

UploadAsset(f, c, product) ==
    /\ file[f].state = "new" /\ LiveFiles = {}
    /\ file' = [file EXCEPT ![f] = [state |-> "live", content |-> c, product |-> product,
                                    stored |-> TRUE]]
    /\ UNCHANGED <<download, memory, answer, kept, broken>>

DeleteAsset(f) ==
    /\ f \in LiveFiles
    /\ file' = [file EXCEPT ![f].state = "gone"]
    /\ UNCHANGED <<download, memory, answer, kept, broken>>

JobDeleteAssetData(f) ==
    /\ file[f].state = "gone" /\ file[f].stored
    /\ file' = [file EXCEPT ![f].stored = FALSE]
    /\ UNCHANGED <<download, memory, answer, kept, broken>>

-----------------------------------------------------------------------------
(* A request.                                                              *)

\* Fault: the range isn't part of it.
EtagOfContent(c, range) == <<c, NoRange>>

GenerateAssetEtag(c, range) == <<c, range>>

EtagFor(x) == GenerateAssetEtag(file[download[x].file].content, download[x].range)

\* Fault: one byte more than there is.
RangeToEnd(size, range) ==
    LET to == IF range.to = OpenEnd THEN size - 1 ELSE range.to
    IN  [valid |-> to <= size /\ to >= range.from, from |-> range.from, count |-> to - range.from + 1]

\* The last byte of a range is part of it.
ComputeRangeSize(size, range) ==
    LET to == IF range.to = OpenEnd THEN size - 1 ELSE range.to
    IN  [valid |-> to < size /\ to >= range.from, from |-> range.from, count |-> to - range.from + 1]

\* The file of a product is for contacts who have access to it, the buyers.  What
\* isn't found, or isn't for the visitor, is answered as not found.
GetAsset(x, range, who) ==
    /\ download[x] = NoDownload
    /\ \E f \in LiveFiles :
         /\ file[f].product => who = "buyer"
         /\ download' = [download EXCEPT ![x] = [file |-> f, range |-> range, open |-> FALSE,
                                                contact |-> who # "anybody"]]
    /\ UNCHANGED <<file, memory, answer, kept, broken>>

End(x) == download' = [download EXCEPT ![x] = NoDownload] /\ UNCHANGED file

Answer(x, length, body, cut) ==
    /\ answer' = [content |-> file[download[x].file].content, range |-> download[x].range,
                  length |-> length, body |-> body, cut |-> cut]
    /\ End(x)

\* An error, without a body.
Refuse(x) == answer' = NoAnswer /\ End(x) /\ UNCHANGED <<memory, kept, broken>>

Asked(x) == download[x] # NoDownload /\ ~download[x].open

\* Whoever asks with the ETag of what is kept, and isn't signed in, may go on
\* with it; one who asks without an ETag goes on below.
NotModified(x) ==
    /\ Asked(x) /\ ~download[x].contact
    /\ kept # NoKept /\ kept.etag = EtagFor(x)
    /\ Answer(x, kept.body.count, kept.body, FALSE)
    /\ UNCHANGED <<memory, kept, broken>>

\* What is asked of the storage: the range, or the whole file.
Requested(x) ==
    LET c == file[download[x].file].content
    IN  IF download[x].range = NoRange
        THEN [valid |-> TRUE, from |-> 0, count |-> SizeOf(c)]
        ELSE IF download[x].range = Malformed THEN [valid |-> FALSE, from |-> 0, count |-> 0]
        ELSE ComputeRangeSize(SizeOf(c), download[x].range)

RefuseRange(x) ==
    /\ Asked(x) /\ ~Requested(x).valid
    /\ Refuse(x)

InMemory(etag) == {m \in memory : m.etag = etag}

\* The visitor may keep an answer that isn't cut off.
Keep(x, body) == kept' \in {kept, [etag |-> EtagFor(x), body |-> body]}

ServeFromMemory(x) ==
    /\ Asked(x) /\ download[x].range = NoRange
    /\ \E m \in InMemory(EtagFor(x)) :
         /\ Answer(x, Requested(x).count, m.body, m.etag \in broken)
         /\ IF m.body.count = Requested(x).count THEN Keep(x, m.body) ELSE UNCHANGED kept
    /\ UNCHANGED <<memory, broken>>

GetAssetData(x) ==
    /\ Asked(x) /\ Requested(x).valid
    /\ download[x].range = NoRange => InMemory(EtagFor(x)) = {}
    /\ IF file[download[x].file].stored
       THEN /\ download' = [download EXCEPT ![x].open = TRUE]
            /\ UNCHANGED <<file, answer, memory, kept, broken>>
       ELSE Refuse(x)

\* The storage answers no attempt.
FailGetObject(x) ==
    /\ Asked(x) /\ Requested(x).valid
    /\ download[x].range = NoRange => InMemory(EtagFor(x)) = {}
    /\ Refuse(x)

\* The part of an object that the storage sends, which ends where the object does:
\* count bytes of the content, the first being first.
GetObject(c, r) ==
    [content |-> c, first |-> r.from,
     count |-> IF r.from + r.count > SizeOf(c) THEN SizeOf(c) - r.from ELSE r.count]

IsSmall(x) ==
    download[x].range = NoRange /\ SizeOf(file[download[x].file].content) <= SmallFile

\* A small file is put in memory as it was copied, and sent from there.
Remember(x, body, cut) ==
    IF IsSmall(x)
    THEN /\ memory' = (memory \ InMemory(EtagFor(x))) \cup {[etag |-> EtagFor(x), body |-> body]}
         /\ broken' = IF cut THEN broken \cup {EtagFor(x)} ELSE broken \ {EtagFor(x)}
    ELSE UNCHANGED <<memory, broken>>

CopyAll(x) ==
    LET body == GetObject(file[download[x].file].content, Requested(x))
    IN  /\ download[x] # NoDownload /\ download[x].open
        /\ Answer(x, Requested(x).count, body, FALSE)
        /\ Remember(x, body, FALSE) /\ Keep(x, body)

\* The error of the copying isn't looked at.
CopyPart(x) ==
    LET body == GetObject(file[download[x].file].content, Requested(x))
    IN  /\ download[x] # NoDownload /\ download[x].open
        /\ \E n \in 0 .. body.count - 1 :
             LET part == [body EXCEPT !.count = n]
             IN  Answer(x, Requested(x).count, part, TRUE) /\ Remember(x, part, TRUE)
        /\ UNCHANGED kept

\* After two days, or for want of space.
Forget(m) ==
    /\ m \in memory /\ memory' = memory \ {m}
    /\ broken' = broken \ {m.etag}
    /\ UNCHANGED <<file, download, answer, kept>>

DownloadsNext ==
    \/ \E f \in FileIDs :
         \/ \E c \in Contents, product \in BOOLEAN : UploadAsset(f, c, product)
         \/ DeleteAsset(f) \/ JobDeleteAssetData(f)
    \/ \E x \in Downloads :
         \/ \E range \in Ranges, who \in {"anybody", "contact", "buyer"} : GetAsset(x, range, who)
         \/ NotModified(x) \/ RefuseRange(x) \/ ServeFromMemory(x)
         \/ GetAssetData(x) \/ FailGetObject(x) \/ CopyAll(x) \/ CopyPart(x)
    \/ \E m \in memory : Forget(m)

DownloadsSpec == DownloadsInit /\ [][DownloadsNext]_downloadsVars

-----------------------------------------------------------------------------
(* Properties.                                                             *)

DownloadsTypeOK ==
    /\ file \in [FileIDs -> File] /\ Cardinality(LiveFiles) <= 1
    /\ \A x \in Downloads : download[x] = NoDownload \/ download[x].file \in FileIDs
    /\ \A m \in memory : m.body.content \in Contents /\ Cardinality(InMemory(m.etag)) = 1
    /\ broken \subseteq {m.etag : m \in memory}

\* The bytes of a content that a range names.
BytesOf(c, range) ==
    {i \in 0 .. SizeOf(c) - 1 :
        range = NoRange \/ (range.from <= i /\ (range.to = OpenEnd \/ i <= range.to))}

(***************************************************************************)
(* A visitor has the bytes that were asked for, of the file that was at    *)
(* the path then, as many as were announced, whether they come from the    *)
(* storage, the memory of the server or a copy the visitor has kept, and   *)
(* whatever was there before.  Only when copying broke off there are less, *)
(* to the one who asked, and to everybody as long as the part is in        *)
(* memory.                                                                 *)
(***************************************************************************)
DownloadsAreWhole ==
    \/ answer = NoAnswer
    \/ LET had  == answer.body.first .. answer.body.first + answer.body.count - 1
           want == BytesOf(answer.content, answer.range)
       IN  /\ answer.body.content = answer.content
           /\ Cardinality(want) = answer.length
           /\ had = want \/ (answer.cut /\ had \subseteq want)
=============================================================================
