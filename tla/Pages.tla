------------------------------- MODULE Pages -------------------------------
(***************************************************************************)
(* The pages and posts of a website and their tags: pkg/services/content.  *)
(* The staff creates, edits and deletes them; a page with a date to come   *)
(* is published by a job that the scheduler pushes every minute; a post    *)
(* may be sent as a newsletter when it is published, by another job.       *)
(*                                                                         *)
(* A request reads the page, the tags of the site and those of the page,   *)
(* decides, and writes the whole row and the differences of the tags in a  *)
(* transaction, with no lock in between.  The job of the newsletter is     *)
(* pushed after the transaction, by requests and workers alike.            *)
(*                                                                         *)
(* Left out: titles, texts, languages; paths, whose uniqueness is a        *)
(* constraint of the database; who may do what, and whether the website    *)
(* may send emails; the names of tags, which are taken as their            *)
(* identities, so that a deleted one isn't made again.                     *)
(***************************************************************************)
EXTENDS Naturals, FiniteSets

CONSTANTS
    PageIDs,        \* the pages that may be created
    TagNames,       \* the tags
    Editors,        \* requests of the staff that may run at a time
    Publishers,     \* workers that run JobPublishPages
    MaxPosted,      \* bound: pushed newsletters are counted up to this
    NoPage          \* what an idle process works on

ASSUME PagesAssumption ==
    /\ Editors \cap Publishers = {}
    /\ NoPage \notin PageIDs
    /\ MaxPosted \in Nat /\ MaxPosted > 1

VARIABLES
    page,         \* page[p]: its row
    tag,          \* tag[t]: whether it is "new", "live" or "deleted"
    tagged,       \* the rows of pages_tags
    publishing,   \* a JobPublishPages is in the queue
    posted,       \* posted[p]: JobSendPostAsNewsletter pushed for p
    step,         \* step[x]: what the request x does next
    target,       \* target[x]: the page it works on
    draft,        \* draft[x]: the row it is going to write
    diff,         \* diff[x]: what it is going to change about the tags
    outbox,       \* outbox[x]: the posts whose job x has still to push
    lost,         \* posts whose job was not pushed
    missed,       \* posts created at the very second of their date
    stale,        \* posts whose mark was overwritten, or sent by two at a time
    raced,        \* pages whose tags were changed since an edit had read them
    introduced    \* <<p, t>> where the tag t was made by an edit of p

pageVars == <<page, tag, tagged>>
editVars == <<step, target, draft, diff>>
pastVars == <<lost, missed, stale, raced, introduced>>
pagesVars == <<pageVars, publishing, posted, editVars, outbox, pastVars>>

\* "due" is the scheduled page whose date has come.
PageStatus == {"new", "draft", "scheduled", "due", "published", "deleted"}

\* The flag is SendAsNewsletter, sent is that NewsletterSentAt is set; hash has
\* the tags that were asked for, which the MetadataHash is made of.
Page == [status : PageStatus, flag : BOOLEAN, sent : BOOLEAN, hash : SUBSET TagNames]

NewPage == [status |-> "new", flag |-> FALSE, sent |-> FALSE, hash |-> {}]
TagsDiff == [create : SUBSET TagNames, relate : SUBSET TagNames, remove : SUBSET TagNames]
NoDiff == [create |-> {}, relate |-> {}, remove |-> {}]

LivePages == {p \in PageIDs : page[p].status \notin {"new", "deleted"}}
LiveTags == {t \in TagNames : tag[t] = "live"}
TagsOf(p) == {t \in TagNames : <<p, t>> \in tagged}

PagesInit ==
    /\ page = [p \in PageIDs |-> NewPage]
    /\ tag \in [TagNames -> {"new", "live"}]
    /\ tagged = {}
    /\ publishing = FALSE
    /\ posted = [p \in PageIDs |-> 0]
    /\ step = [x \in Editors |-> "idle"]
    /\ target = [x \in Editors |-> NoPage]
    /\ draft = [x \in Editors |-> NewPage]
    /\ diff = [x \in Editors |-> NoDiff]
    /\ outbox = [x \in Editors \cup Publishers |-> {}]
    /\ lost = {} /\ missed = {} /\ stale = {} /\ raced = {} /\ introduced = {}

-----------------------------------------------------------------------------
(* The requests of the staff.                                              *)

\* Fault: the tags that are no longer asked for stay.
DiffTagsRemovingNone(current, T) ==
    [create |-> T \ (current \cup LiveTags),
     relate |-> (T \cap LiveTags) \ current,
     remove |-> {}]

\* The tags that the page gets or loses in order to have T.
DiffTags(current, T) ==
    [create |-> T \ (current \cup LiveTags),
     relate |-> (T \cap LiveTags) \ current,
     remove |-> current \ T]

StatusFor(isDraft, date) ==
    IF isDraft THEN "draft" ELSE IF date = "future" THEN "scheduled" ELSE "published"

\* x is going to write the row r of p, and to send it if send.
Prepare(x, p, s, r, d, send) ==
    /\ step' = [step EXCEPT ![x] = s]
    /\ target' = [target EXCEPT ![x] = p]
    /\ draft' = [draft EXCEPT ![x] = r]
    /\ diff' = [diff EXCEPT ![x] = d]
    /\ outbox' = [outbox EXCEPT ![x] = IF send THEN {p} ELSE {}]
    /\ UNCHANGED <<pageVars, publishing, posted, pastVars>>

\* The post is sent when its date is before now, and scheduled when it is after.
CreatePage(x, p, isDraft, date, flag, T) ==
    LET status == StatusFor(isDraft, date)
        send   == flag /\ date = "past" /\ status = "published"
    IN  /\ step[x] = "idle" /\ outbox[x] = {}
        /\ page[p].status = "new" /\ \A y \in Editors : target[y] # p
        /\ Prepare(x, p, IF date = "now" /\ flag /\ ~isDraft THEN "insert unsent" ELSE "insert",
                   [status |-> status, flag |-> flag, sent |-> send, hash |-> T],
                   DiffTags({}, T), send)

\* Fault: a draft is marked like a post that is published.
UpdatePageMarking(x, p, isDraft, date, flag, T) ==
    LET status == StatusFor(isDraft, date)
    IN  /\ step[x] = "idle" /\ outbox[x] = {}
        /\ p \in LivePages
        /\ page[p].sent => (flag <=> page[p].flag)
        /\ Prepare(x, p, "update",
                   [status |-> status, flag |-> flag, sent |-> flag, hash |-> T],
                   DiffTags(TagsOf(p), T), status = "published" /\ flag /\ ~page[p].sent)

UpdatePage(x, p, isDraft, date, flag, T) ==
    LET status == StatusFor(isDraft, date)
        send   == status = "published" /\ flag /\ ~page[p].sent
    IN  /\ step[x] = "idle" /\ outbox[x] = {}
        /\ p \in LivePages
        /\ page[p].sent => (flag <=> page[p].flag)
        /\ Prepare(x, p, "update",
                   [status |-> status, flag |-> flag,
                    sent |-> page[p].sent \/ send, hash |-> T],
                   DiffTags(TagsOf(p), T), send)

\* The new tags get no row in pages_tags.  A tag that exists already, a row that
\* exists already, a tag or a page that was deleted make the transaction fail.
AssociateTagsToPage(p, exists, d) ==
    /\ \A t \in d.create : tag[t] = "new"
    /\ \A t \in d.relate : exists /\ tag[t] = "live" /\ <<p, t>> \notin tagged
    /\ tag' = [t \in TagNames |-> IF t \in d.create THEN "live" ELSE tag[t]]
    /\ tagged' = (tagged \cup ({p} \X d.relate)) \ ({p} \X d.remove)

\* The transaction.  An update of a page that was deleted changes no row.
Commit(x) ==
    LET p == target[x]
        exists == step[x] # "update" \/ p \in LivePages
    IN  /\ step[x] # "idle"
        /\ AssociateTagsToPage(p, exists, diff[x])
        /\ page' = IF exists THEN [page EXCEPT ![p] = draft[x]] ELSE page
        /\ step' = [step EXCEPT ![x] = "idle"]
        /\ target' = [target EXCEPT ![x] = NoPage]
        /\ missed' = IF step[x] = "insert unsent" THEN missed \cup {p} ELSE missed
        /\ stale' = IF (page[p].sent \/ ~exists) /\ (~draft[x].sent \/ outbox[x] # {})
                    THEN stale \cup {p} ELSE stale
        /\ raced' = IF \E y \in Editors \ {x} : target[y] = p
                    THEN raced \cup {p} ELSE raced
        /\ introduced' = (introduced \ ({p} \X diff[x].relate)) \cup ({p} \X diff[x].create)
        /\ draft' = [draft EXCEPT ![x] = NewPage] /\ diff' = [diff EXCEPT ![x] = NoDiff]
        /\ UNCHANGED <<publishing, posted, outbox, lost>>

\* Fault: the page keeps its tags.
DeletePageOnly(p) ==
    /\ p \in LivePages
    /\ page' = [page EXCEPT ![p].status = "deleted"]
    /\ UNCHANGED <<tag, tagged, publishing, posted, editVars, outbox, pastVars>>

\* Its tags go with it.
DeletePage(p) ==
    /\ p \in LivePages
    /\ page' = [page EXCEPT ![p].status = "deleted"]
    /\ tagged' = {r \in tagged : r[1] # p}
    /\ UNCHANGED <<tag, publishing, posted, editVars, outbox, pastVars>>

CreateTag(t) ==
    /\ tag[t] = "new"
    /\ tag' = [tag EXCEPT ![t] = "live"]
    /\ UNCHANGED <<page, tagged, publishing, posted, editVars, outbox, pastVars>>

DeleteTag(t) ==
    /\ tag[t] = "live"
    /\ tag' = [tag EXCEPT ![t] = "deleted"]
    /\ tagged' = {r \in tagged : r[2] # t}
    /\ UNCHANGED <<page, publishing, posted, editVars, outbox, pastVars>>

-----------------------------------------------------------------------------
(* The scheduler, the workers and the queue.                               *)

\* The date of a page comes.
DateComes(p) ==
    /\ page[p].status = "scheduled"
    /\ page' = [page EXCEPT ![p].status = "due"]
    /\ UNCHANGED <<tag, tagged, publishing, posted, editVars, outbox, pastVars>>

TaskPublishPages ==
    /\ ~publishing /\ publishing' = TRUE
    /\ UNCHANGED <<pageVars, posted, editVars, outbox, pastVars>>

DuePages == {p \in PageIDs : page[p].status = "due"}

\* Fault: a post that was sent, and is published again, is sent again.
JobPublishPagesAgain(x) ==
    LET sending == {p \in DuePages : page[p].flag}
    IN  /\ publishing /\ outbox[x] = {}
        /\ publishing' = FALSE
        /\ page' = [p \in PageIDs |->
               IF p \in DuePages
               THEN [page[p] EXCEPT !.status = "published",
                                    !.sent = @ \/ p \in sending]
               ELSE page[p]]
        /\ outbox' = [outbox EXCEPT ![x] = sending]
        /\ UNCHANGED <<tag, tagged, posted, editVars, pastVars>>

\* Fault: the pages that are not to be sent are left out.
JobPublishNewsletters(x) ==
    LET sending == {p \in DuePages : page[p].flag /\ ~page[p].sent}
    IN  /\ publishing /\ outbox[x] = {}
        /\ publishing' = FALSE
        /\ page' = [p \in PageIDs |->
               IF p \in sending
               THEN [page[p] EXCEPT !.status = "published",
                                    !.sent = @ \/ p \in sending]
               ELSE page[p]]
        /\ outbox' = [outbox EXCEPT ![x] = sending]
        /\ UNCHANGED <<tag, tagged, posted, editVars, pastVars>>

\* The transaction of the job: it locks the rows that it reads.
JobPublishPages(x) ==
    LET sending == {p \in DuePages : page[p].flag /\ ~page[p].sent}
    IN  /\ publishing /\ outbox[x] = {}
        /\ publishing' = FALSE
        /\ page' = [p \in PageIDs |->
               IF p \in DuePages
               THEN [page[p] EXCEPT !.status = "published",
                                    !.sent = @ \/ p \in sending]
               ELSE page[p]]
        /\ outbox' = [outbox EXCEPT ![x] = sending]
        /\ UNCHANGED <<tag, tagged, posted, editVars, pastVars>>

Counted(n) == IF n < MaxPosted THEN n ELSE MaxPosted

PushNewsletter(x, p) ==
    /\ p \in outbox[x] /\ (x \in Editors => step[x] = "idle")
    /\ outbox' = [outbox EXCEPT ![x] = @ \ {p}]
    /\ posted' = [posted EXCEPT ![p] = Counted(@ + 1)]
    /\ UNCHANGED <<pageVars, publishing, editVars, pastVars>>

\* An error of the queue is logged, and that is all.
LoseNewsletter(x, p) ==
    /\ p \in outbox[x] /\ (x \in Editors => step[x] = "idle")
    /\ outbox' = [outbox EXCEPT ![x] = @ \ {p}]
    /\ lost' = lost \cup {p}
    /\ UNCHANGED <<pageVars, publishing, posted, editVars, missed,
                   stale, raced, introduced>>

\* A request fails, or its server dies: before its transaction, nothing happened.
FailEdit(x) ==
    /\ step[x] # "idle"
    /\ step' = [step EXCEPT ![x] = "idle"]
    /\ target' = [target EXCEPT ![x] = NoPage]
    /\ draft' = [draft EXCEPT ![x] = NewPage] /\ diff' = [diff EXCEPT ![x] = NoDiff]
    /\ outbox' = [outbox EXCEPT ![x] = {}]
    /\ UNCHANGED <<pageVars, publishing, posted, pastVars>>

\* A server dies with newsletters that it had to push.  The queue gives a job
\* that was not over to another worker, which finds nothing left to publish.
Die(x) ==
    /\ outbox[x] # {} /\ (x \in Editors => step[x] = "idle")
    /\ outbox' = [outbox EXCEPT ![x] = {}]
    /\ lost' = lost \cup outbox[x]
    /\ publishing' = (publishing \/ x \in Publishers)
    /\ UNCHANGED <<pageVars, posted, editVars, missed, stale, raced, introduced>>

-----------------------------------------------------------------------------

EditorStep(x) ==
    \/ \E p \in PageIDs, isDraft, flag \in BOOLEAN,
          date \in {"past", "now", "future"}, T \in SUBSET TagNames :
         CreatePage(x, p, isDraft, date, flag, T) \/ UpdatePage(x, p, isDraft, date, flag, T)
    \/ Commit(x) \/ FailEdit(x)

PagesNext ==
    \/ \E x \in Editors : EditorStep(x)
    \/ \E p \in PageIDs : DeletePage(p) \/ DateComes(p)
    \/ \E t \in TagNames : CreateTag(t) \/ DeleteTag(t)
    \/ TaskPublishPages
    \/ \E x \in Publishers : JobPublishPages(x)
    \/ \E x \in Editors \cup Publishers :
         Die(x) \/ \E p \in PageIDs : PushNewsletter(x, p) \/ LoseNewsletter(x, p)

PagesSpec == PagesInit /\ [][PagesNext]_pagesVars

\* The task runs every minute; a worker takes the job, and goes on to the next.
PagesFairness ==
    /\ WF_pagesVars(TaskPublishPages)
    /\ SF_pagesVars(\E x \in Publishers : JobPublishPages(x))
    /\ \A x \in Publishers : WF_pagesVars(\E p \in PageIDs : PushNewsletter(x, p))

-----------------------------------------------------------------------------
(* Properties.                                                             *)

PagesTypeOK ==
    /\ page \in [PageIDs -> Page]
    /\ tag \in [TagNames -> {"new", "live", "deleted"}]
    /\ tagged \subseteq LivePages \X LiveTags
    /\ publishing \in BOOLEAN
    /\ posted \in [PageIDs -> Nat]
    /\ step \in [Editors -> {"idle", "insert", "insert unsent", "update"}]
    /\ target \in [Editors -> PageIDs \cup {NoPage}]
    /\ \A x \in Editors : step[x] # "idle" => target[x] \in PageIDs
    /\ draft \in [Editors -> Page] /\ diff \in [Editors -> TagsDiff]
    /\ outbox \in [Editors \cup Publishers -> SUBSET PageIDs]
    /\ lost \subseteq PageIDs /\ missed \subseteq PageIDs
    /\ stale \subseteq PageIDs /\ raced \subseteq PageIDs
    /\ introduced \subseteq PageIDs \X TagNames

Sending(p) == {x \in DOMAIN outbox : p \in outbox[x] /\ (x \in Editors => step[x] = "idle")}

\* A published post that is to be sent was handed to the queue, or is about to
\* be, but for two ways to lose it: the push that fails after the transaction,
\* and a post created at the very second of its date, which is neither before
\* now, to be sent at once, nor after now, to be sent by the job.
PublishedIsPosted ==
    \A p \in PageIDs :
        page[p].status = "published" /\ page[p].flag =>
            posted[p] > 0 \/ Sending(p) # {} \/ p \in lost \cup missed

\* A post is sent to the subscribers once: two edits, or an edit and the job,
\* send it again only where one writes over the mark of the other.
PostedOnce ==
    \A p \in PageIDs \ stale : posted[p] + Cardinality(Sending(p)) <= 1

\* What is published and to be sent goes to the subscribers once, not never and
\* not twice, but in the races named above.
PostsAreSent == PublishedIsPosted /\ PostedOnce

\* A page has the tags it was saved with, where no two edits of it overlapped
\* and but for the tags that the edit itself made: these are in the hash that
\* clients compare, but not on the page.
TagsAreAsked ==
    \A p \in LivePages \ raced :
        /\ TagsOf(p) \subseteq page[p].hash
        /\ \A t \in page[p].hash \ TagsOf(p) :
             tag[t] = "deleted" \/ <<p, t>> \in introduced

\* The inductive invariant behind the two.  A post that is marked as sent was
\* handed on, for good: its job is pushed, is about to be, or is lost.
Handed(p) == posted[p] > 0 \/ Sending(p) # {} \/ p \in lost \cup missed

SentIsHanded == \A p \in PageIDs : page[p].sent => Handed(p)

\* It was handed on once, if the mark was never overwritten, and one that is not
\* marked not at all.
MarkIsKept ==
    \A p \in PageIDs \ stale :
        IF page[p].sent
        THEN \/ posted[p] = 0 /\ \A x, y \in Sending(p) : x = y
             \/ posted[p] = 1 /\ Sending(p) = {}
        ELSE posted[p] = 0 /\ Sending(p) = {}

\* An edit marks what it is going to send, or what was sent when it read the row;
\* a page that it makes is only its own until then.
EditIsSound(x) ==
    LET p == target[x]
        r == draft[x]
    IN  /\ r.status \in {"draft", "scheduled", "published"}
        /\ outbox[x] # {} => outbox[x] = {p} /\ r.sent
        /\ r.sent => outbox[x] # {} \/ Handed(p)
        /\ r.status = "published" /\ r.flag => r.sent \/ step[x] = "insert unsent"
        /\ step[x] # "update" =>
             page[p].status = "new" /\ \A y \in Editors \ {x} : target[y] # p

\* If no other edit of the page was saved meanwhile, the differences that it is
\* going to write still lead from the tags of the page to those it was asked for.
DiffIsSound(x) ==
    LET p == target[x]
        T == draft[x].hash
        d == diff[x]
    IN  /\ d.create \cup d.relate \subseteq T /\ d.remove \cap T = {}
        /\ TagsOf(p) \ d.remove \subseteq T
        /\ \A t \in T \ (d.create \cup d.relate) : t \in TagsOf(p) \/ tag[t] = "deleted"

EditsAreSound ==
    \A x \in Editors :
        IF step[x] = "idle" THEN target[x] = NoPage
        ELSE /\ EditIsSound(x)
             /\ (step[x] = "update" => target[x] \in LivePages \ raced) => DiffIsSound(x)

PagesInv ==
    /\ PagesTypeOK /\ EditsAreSound /\ SentIsHanded /\ MarkIsKept
    /\ PublishedIsPosted /\ TagsAreAsked

\* What is scheduled is published when its date comes, whoever edits and dies.
DueIsPublished ==
    \A p \in PageIDs : (page[p].status = "due") ~> (page[p].status # "due")
=============================================================================
