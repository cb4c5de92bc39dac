----------------------------- MODULE Newsletters -----------------------------
(***************************************************************************)
(* The newsletters of a website: pkg/services/emails.  The staff writes,   *)
(* edits, schedules, sends and deletes them through the API; a task of the *)
(* scheduler sends the ones that are due; a post of the blog can be sent   *)
(* as one.  Sending pushes a job that a worker runs: it makes one email    *)
(* job for each subscribed contact, in chunks, in one transaction.         *)
(*                                                                         *)
(* Nobody locks a newsletter.  Everyone reads its whole row and later      *)
(* writes it back whole, so each of them is a process with a copy of the   *)
(* row: a request of the staff, a run of the scheduler's task, and a       *)
(* worker that runs a job.  A process can fail at every step, or die.      *)
(*                                                                         *)
(* Left out: subject, body and size; the delivery of the email jobs; the   *)
(* usage report pushed with them; billing, an error for the sender.        *)
(***************************************************************************)
EXTENDS Naturals, FiniteSets

CONSTANTS
    Newsletters,   \* the rows that may be created
    Contacts,      \* the verified contacts of the website
    Requests,      \* requests of the staff that may run at a time
    Tasks,         \* runs of TaskSendScheduledNewsletters, likewise
    Workers,       \* workers that run the jobs
    ChunkSize,     \* recipients for whom email jobs are pushed at a time
    RateLimit,     \* NewsletterRateLimit: emails for each second
    MaxJobs,       \* bound: jobs of a kind in the queue, for each newsletter
    MaxMailings,   \* bound: emails to a contact are counted up to this
    NoNewsletter   \* what an idle process works on

ASSUME NewslettersAssumption ==
    /\ ChunkSize \in Nat \ {0} /\ RateLimit \in Nat \ {0}
    /\ NoNewsletter \notin Newsletters
    /\ Requests \cap Tasks = {} /\ Requests \cap Workers = {}
    /\ Tasks \cap Workers = {}
    /\ MaxJobs \in Nat /\ MaxMailings \in Nat /\ IsFiniteSet(Contacts)

VARIABLES
    stage,       \* stage[n]: whether the row of n is "new", "live" or "deleted"
    row,         \* row[n]: whether it was sent, and when it is scheduled
    verified,    \* the website's email domain is verified
    subscribed,  \* contacts subscribed to the newsletter
    jobs,        \* jobs[n]: JobSendNewsletter in the queue
    postJobs,    \* JobSendPostAsNewsletter in the queue
    mailed,      \* mailed[n][c]: JobSendEmail pushed for c
    pc,          \* pc[x]: what the process x does next
    job,         \* job[x]: the newsletter it works on
    copy,        \* copy[x]: the row it is going to write
    found,       \* found[x]: due newsletters that the task x has still to send
    todo,        \* todo[x]: recipients the worker x has still to make jobs for
    batch,       \* batch[x]: <<c, second>> pushed in its transaction
    second,      \* second[x]: scheduledFor, relative to the start of its job
    asked,       \* newsletters the staff sent, or whose time has come
    pushed,      \* newsletters that were pushed to the queue
    posts,       \* newsletters made from a post
    steady       \* contacts that have been subscribed from the beginning

processVars == <<pc, job, copy, found, todo, batch, second>>
rowVars     == <<stage, row>>
historyVars == <<asked, pushed, posts, steady>>
queueVars   == <<jobs, postJobs>>
siteVars    == <<verified, subscribed>>
mailingVars == <<found, todo, batch, second>>
vars == <<rowVars, siteVars, queueVars, mailed, processVars, historyVars>>

Processes == Requests \cup Tasks \cup Workers

Row == [sent : BOOLEAN, schedule : {"none", "later", "due"}]
Blank == [sent |-> FALSE, schedule |-> "none"]
Live == {n \in Newsletters : stage[n] = "live"}

\* Fault: the scheduled time is not compared with the present.
DueAnytime == {n \in Live : ~row[n].sent /\ row[n].schedule # "none"}

\* FindScheduledNewsletters.
Due == {n \in Live : ~row[n].sent /\ row[n].schedule = "due"}

Init ==
    /\ stage = [n \in Newsletters |-> "new"]
    /\ row = [n \in Newsletters |-> Blank]
    /\ verified \in BOOLEAN
    /\ subscribed \in SUBSET Contacts
    /\ jobs = [n \in Newsletters |-> 0] /\ postJobs = 0
    /\ mailed = [n \in Newsletters |-> [c \in Contacts |-> 0]]
    /\ pc = [x \in Processes |-> "idle"]
    /\ job = [x \in Processes |-> NoNewsletter]
    /\ copy = [x \in Processes |-> Blank]
    /\ found = [x \in Processes |-> {}]
    /\ todo = [x \in Processes |-> {}]
    /\ batch = [x \in Processes |-> {}]
    /\ second = [x \in Processes |-> 0]
    /\ asked = {} /\ pushed = {} /\ posts = {}
    /\ steady = subscribed

-----------------------------------------------------------------------------
(* Steps that several operations have in common.                           *)

\* x turns to n, about to write the row r.
Work(x, n, r, step) ==
    /\ pc' = [pc EXCEPT ![x] = step]
    /\ job' = [job EXCEPT ![x] = n]
    /\ copy' = [copy EXCEPT ![x] = r]

\* x has nothing more to do for its newsletter.
Rest(x) ==
    /\ pc' = [pc EXCEPT ![x] = "idle"]
    /\ job' = [job EXCEPT ![x] = NoNewsletter]
    /\ copy' = [copy EXCEPT ![x] = Blank]
    /\ todo' = [todo EXCEPT ![x] = {}]
    /\ batch' = [batch EXCEPT ![x] = {}]
    /\ second' = [second EXCEPT ![x] = 0]

-----------------------------------------------------------------------------
(* The API.                                                                *)

CreateNewsletter(n, s) ==
    /\ stage[n] = "new"
    /\ stage' = [stage EXCEPT ![n] = "live"]
    /\ row' = [row EXCEPT ![n].schedule = s]
    /\ UNCHANGED <<siteVars, queueVars, mailed, processVars, historyVars>>

\* UpdateNewsletter, also of a newsletter that was sent.
EditNewsletter(x, n, s) ==
    /\ pc[x] = "idle" /\ n \in Live
    /\ Work(x, n, [row[n] EXCEPT !.schedule = s], "save")
    /\ UNCHANGED <<rowVars, siteVars, queueVars, mailed, mailingVars, historyVars>>

\* A newsletter that may be sent now.
Sendable(n) == n \in Live /\ ~row[n].sent /\ verified

SendNewsletter(x, n) ==
    /\ pc[x] = "idle" /\ Sendable(n)
    /\ Work(x, n, [sent |-> TRUE, schedule |-> "none"], "push")
    /\ asked' = asked \cup {n}
    /\ UNCHANGED <<rowVars, siteVars, queueVars, mailed, mailingVars, pushed,
                   posts, steady>>

\* SendNewsletter to oneself, as a test: its job makes one email, and the row
\* is written as it was read but for the time of the test.
TestNewsletter(x, n) ==
    /\ pc[x] = "idle" /\ Sendable(n)
    /\ Work(x, n, row[n], "save")
    /\ UNCHANGED <<rowVars, siteVars, queueVars, mailed, mailingVars, historyVars>>

DeleteNewsletter(n) ==
    /\ n \in Live
    /\ stage' = [stage EXCEPT ![n] = "deleted"]
    /\ UNCHANGED <<row, siteVars, queueVars, mailed, processVars, historyVars>>

\* UpdateWebsiteConfiguration and VerifyDnsConfiguration.
ConfigureDomain ==
    /\ verified' = ~verified
    /\ UNCHANGED <<rowVars, subscribed, queueVars, mailed, processVars, historyVars>>

Subscribe(c) ==
    /\ subscribed' = subscribed \cup {c}
    /\ UNCHANGED <<rowVars, verified, queueVars, mailed, processVars, historyVars>>

Unsubscribe(c) ==
    /\ subscribed' = subscribed \ {c}
    /\ steady' = steady \ {c}
    /\ UNCHANGED <<rowVars, verified, queueVars, mailed, processVars, asked,
                   pushed, posts>>

-----------------------------------------------------------------------------
(* The task of the scheduler, and the steps it shares with SendNewsletter. *)

\* The time for which n is scheduled comes.
Tick(n) ==
    /\ n \in Live /\ row[n].schedule = "later"
    /\ row' = [row EXCEPT ![n].schedule = "due"]
    /\ asked' = asked \cup {n}
    /\ UNCHANGED <<stage, siteVars, queueVars, mailed, processVars, pushed,
                   posts, steady>>

StartTask(x) ==
    /\ pc[x] = "idle" /\ found[x] = {}
    /\ Due # {}
    /\ found' = [found EXCEPT ![x] = Due]
    /\ UNCHANGED <<rowVars, siteVars, queueVars, mailed, pc, job, copy, todo,
                   batch, second, historyVars>>

\* Fault: the row is written before the job is pushed.
TakeDueMarking(x, n) ==
    /\ pc[x] = "idle" /\ n \in found[x]
    /\ Work(x, n, [sent |-> TRUE, schedule |-> "due"], "push")
    /\ found' = [found EXCEPT ![x] = @ \ {n}]
    /\ row' = [row EXCEPT ![n].sent = TRUE]
    /\ UNCHANGED <<stage, siteVars, queueVars, mailed, todo, batch, second,
                   historyVars>>

TakeDue(x, n) ==
    /\ pc[x] = "idle" /\ n \in found[x]
    /\ Work(x, n, [sent |-> TRUE, schedule |-> "due"], "push")
    /\ found' = [found EXCEPT ![x] = @ \ {n}]
    /\ UNCHANGED <<rowVars, siteVars, queueVars, mailed, todo, batch, second,
                   historyVars>>

\* The job is pushed; JobSendPostAsNewsletter has nothing more to do then.
Push(x) ==
    /\ pc[x] = "push"
    /\ jobs[job[x]] < MaxJobs
    /\ jobs' = [jobs EXCEPT ![job[x]] = @ + 1]
    /\ pushed' = pushed \cup {job[x]}
    /\ pc' = [pc EXCEPT ![x] = IF x \in Workers THEN "posted" ELSE "save"]
    /\ UNCHANGED <<rowVars, siteVars, postJobs, mailed, job, copy, mailingVars,
                   asked, posts, steady>>

\* Writing a row that was deleted changes nothing, and is no error.
Write(n, r) == row' = IF n \in Live THEN [row EXCEPT ![n] = r] ELSE row

Save(x) ==
    /\ pc[x] = "save"
    /\ Write(job[x], copy[x])
    /\ Rest(x)
    /\ UNCHANGED <<stage, siteVars, queueVars, mailed, found, historyVars>>

-----------------------------------------------------------------------------
(* The workers: JobSendPostAsNewsletter, JobSendNewsletter.                *)

\* JobPublishPages pushes a job for a post to be sent as a newsletter.
PublishPost ==
    /\ postJobs < MaxJobs
    /\ postJobs' = postJobs + 1
    /\ UNCHANGED <<rowVars, siteVars, jobs, mailed, processVars, historyVars>>

\* The row is marked as sent before its job is pushed.
StartPost(x, n) ==
    /\ pc[x] = "idle" /\ postJobs > 0
    /\ stage[n] = "new"
    /\ postJobs' = postJobs - 1
    /\ stage' = [stage EXCEPT ![n] = "live"]
    /\ row' = [row EXCEPT ![n] = [sent |-> TRUE, schedule |-> "due"]]
    /\ Work(x, n, row'[n], "push")
    /\ posts' = posts \cup {n} /\ asked' = asked \cup {n}
    /\ UNCHANGED <<siteVars, jobs, mailed, mailingVars, pushed, steady>>

\* The worker gets the job and reads the row, which may not be marked yet.
StartJob(x, n) ==
    /\ pc[x] = "idle" /\ jobs[n] > 0
    /\ n \in Live
    /\ jobs' = [jobs EXCEPT ![n] = @ - 1]
    /\ Work(x, n, [row[n] EXCEPT !.sent = TRUE],
                  IF row[n].sent THEN "load" ELSE "mark")
    /\ UNCHANGED <<rowVars, siteVars, postJobs, mailed, mailingVars, historyVars>>

\* The newsletter has been deleted: the job is over.
DropJob(n) ==
    /\ jobs[n] > 0
    /\ n \notin Live
    /\ jobs' = [jobs EXCEPT ![n] = @ - 1]
    /\ UNCHANGED <<rowVars, siteVars, postJobs, mailed, processVars, historyVars>>

Mark(x) ==
    /\ pc[x] = "mark"
    /\ Write(job[x], copy[x])
    /\ pc' = [pc EXCEPT ![x] = "load"]
    /\ UNCHANGED <<stage, siteVars, queueVars, mailed, job, copy, mailingVars,
                   historyVars>>

\* The recipients are read once; a domain that isn't verified is an error.
LoadRecipients(x) ==
    /\ pc[x] = "load" /\ verified
    /\ pc' = [pc EXCEPT ![x] = "fill"]
    /\ todo' = [todo EXCEPT ![x] = subscribed]
    /\ UNCHANGED <<rowVars, siteVars, queueVars, mailed, job, copy, found,
                   batch, second, historyVars>>

Count(k) == IF k < MaxMailings THEN k ELSE MaxMailings

\* Up to ChunkSize of the recipients.
Chunks(R) ==
    {C \in SUBSET R : Cardinality(C) =
        IF Cardinality(R) < ChunkSize THEN Cardinality(R) ELSE ChunkSize}

\* Fault: the chunks are pushed outside the transaction.
PushChunkAtOnce(x) ==
    /\ pc[x] = "fill"
    /\ \E C \in Chunks(todo[x]) :
         /\ C # {}
         /\ todo' = [todo EXCEPT ![x] = @ \ C]
         /\ mailed' = [mailed EXCEPT ![job[x]] =
                [c \in Contacts |-> Count(@[c] + IF c \in C THEN 1 ELSE 0)]]
    /\ UNCHANGED <<rowVars, siteVars, queueVars, pc, job, copy, found, batch,
                   second, historyVars>>

\* The loop adds a second before every RateLimit-th recipient of the chunk but
\* the first.  The email jobs hold a pointer to the variable, so that all of
\* the chunk get its last value.
PushChunk(x) ==
    /\ pc[x] = "fill"
    /\ \E C \in Chunks(todo[x]) :
         LET last == second[x] + (Cardinality(C) - 1) \div RateLimit
         IN  /\ C # {}
             /\ todo' = [todo EXCEPT ![x] = @ \ C]
             /\ second' = [second EXCEPT ![x] = last]
             /\ batch' = [batch EXCEPT ![x] = @ \cup (C \X {last})]
    /\ UNCHANGED <<rowVars, siteVars, queueVars, mailed, pc, job, copy, found,
                   historyVars>>

Commit(x) ==
    /\ pc[x] = "fill" /\ todo[x] = {}
    /\ pc' = [pc EXCEPT ![x] = "done"]
    /\ mailed' = [mailed EXCEPT ![job[x]] =
           [c \in Contacts |->
               Count(@[c] + Cardinality({e \in batch[x] : e[1] = c}))]]
    /\ UNCHANGED <<rowVars, siteVars, queueVars, job, copy, mailingVars,
                   historyVars>>

\* Fault: the job, which is no longer among those that wait, is deleted there.
FinishWaiting(x) ==
    /\ pc[x] = "done"
    /\ Rest(x)
    /\ jobs' = [jobs EXCEPT ![job[x]] = @ - 1]
    /\ UNCHANGED <<rowVars, siteVars, postJobs, mailed, found, historyVars>>

\* The queue deletes the job.
Finish(x) ==
    /\ pc[x] \in {"done", "posted"}
    /\ Rest(x)
    /\ UNCHANGED <<rowVars, siteVars, queueVars, mailed, found, historyVars>>

-----------------------------------------------------------------------------
(* Failures: of the database, of the queue, or of the server.              *)

FailRequest(x) ==
    /\ x \in Requests /\ pc[x] # "idle"
    /\ Rest(x)
    /\ UNCHANGED <<rowVars, siteVars, queueVars, mailed, found, historyVars>>

\* The task goes on with the next newsletter, unless its server is dead.
FailTask(x) ==
    /\ x \in Tasks /\ pc[x] # "idle"
    /\ Rest(x)
    /\ \/ UNCHANGED found
       \/ found' = [found EXCEPT ![x] = {}]
    /\ UNCHANGED <<rowVars, siteVars, queueVars, mailed, historyVars>>

\* The queue gives the job to a worker again, also when it was done and only
\* its deletion failed;
RetryJob(x) ==
    /\ x \in Workers /\ pc[x] # "idle"
    /\ IF pc[x] \in {"push", "posted"}
       THEN /\ postJobs < MaxJobs
            /\ postJobs' = postJobs + 1
            /\ UNCHANGED jobs
       ELSE /\ jobs[job[x]] < MaxJobs
            /\ jobs' = [jobs EXCEPT ![job[x]] = @ + 1]
            /\ UNCHANGED postJobs
    /\ Rest(x)
    /\ UNCHANGED <<rowVars, siteVars, mailed, found, historyVars>>

\* after a number of times, it doesn't.
GiveUpJob(x) ==
    /\ x \in Workers /\ pc[x] \notin {"idle", "done", "posted"}
    /\ Rest(x)
    /\ UNCHANGED <<rowVars, siteVars, queueVars, mailed, found, historyVars>>

-----------------------------------------------------------------------------

StaffStep ==
    \/ \E n \in Newsletters, s \in {"none", "later"} :
         \/ CreateNewsletter(n, s)
         \/ \E x \in Requests : EditNewsletter(x, n, s)
    \/ \E n \in Newsletters, x \in Requests :
         SendNewsletter(x, n) \/ TestNewsletter(x, n)
    \/ \E n \in Newsletters : DeleteNewsletter(n)

SiteStep ==
    \/ ConfigureDomain \/ PublishPost
    \/ \E c \in Contacts : Subscribe(c) \/ Unsubscribe(c)
    \/ \E n \in Newsletters : Tick(n)

WorkerStep(x) ==
    \/ \E n \in Newsletters : StartPost(x, n) \/ StartJob(x, n)
    \/ Mark(x) \/ LoadRecipients(x) \/ PushChunk(x) \/ Commit(x) \/ Finish(x)

Failure(x) == FailRequest(x) \/ FailTask(x) \/ RetryJob(x) \/ GiveUpJob(x)

Next ==
    \/ StaffStep \/ SiteStep
    \/ \E x \in Tasks : StartTask(x) \/ \E n \in Newsletters : TakeDue(x, n)
    \/ \E x \in Workers : WorkerStep(x)
    \/ \E n \in Newsletters : DropJob(n)
    \/ \E x \in Processes : Push(x) \/ Save(x) \/ Failure(x)

Spec == Init /\ [][Next]_vars

(* Fairness.  The task runs every minute, the workers take the jobs of the *)
(* queue, and what is tried again and again works in the end.              *)

WorksOn(X, n, A(_)) == \E x \in X : job[x] = n /\ A(x)

Fairness ==
    /\ SF_vars(\E x \in Tasks : StartTask(x))
    /\ \A n \in Newsletters :
        /\ SF_vars(\E x \in Tasks : TakeDue(x, n))
        /\ SF_vars(WorksOn(Tasks, n, Push)) /\ SF_vars(WorksOn(Tasks, n, Save))
        /\ SF_vars(\E x \in Workers : StartJob(x, n))
        /\ SF_vars(WorksOn(Workers, n, Mark))
        /\ SF_vars(WorksOn(Workers, n, LoadRecipients))
        /\ SF_vars(WorksOn(Workers, n, PushChunk))
        /\ SF_vars(WorksOn(Workers, n, Commit))
        /\ WF_vars(WorksOn(Workers, n, Finish)) /\ WF_vars(DropJob(n))

FairSpec == Spec /\ Fairness

-----------------------------------------------------------------------------
(* Properties.                                                             *)

TypeOK ==
    /\ stage \in [Newsletters -> {"new", "live", "deleted"}]
    /\ row \in [Newsletters -> Row]
    /\ verified \in BOOLEAN
    /\ steady \subseteq subscribed /\ subscribed \subseteq Contacts
    /\ jobs \in [Newsletters -> Nat] /\ postJobs \in Nat
    /\ mailed \in [Newsletters -> [Contacts -> Nat]]
    /\ pc \in [Processes -> {"idle", "push", "save", "posted", "mark", "load",
                             "fill", "done"}]
    /\ job \in [Processes -> Newsletters \cup {NoNewsletter}]
    /\ \A x \in Processes : pc[x] # "idle" => job[x] \in Newsletters
    /\ copy \in [Processes -> Row]
    /\ found \in [Processes -> SUBSET Newsletters]
    /\ todo \in [Processes -> SUBSET Contacts]
    /\ batch \in [Processes -> SUBSET (Contacts \X Nat)]
    /\ \A x \in Processes : IsFiniteSet(batch[x])
    /\ second \in [Processes -> Nat]
    /\ asked \subseteq Newsletters /\ pushed \subseteq Newsletters
    /\ posts \subseteq Newsletters

\* Whatever fails and whoever overwrites whose row, nobody can mark a newsletter
\* as sent, which takes it off the scheduler's list for good, without its job
\* having reached the queue.  (Except a post: its row is made that way.)
MarkedIsPushed ==
    \A n \in Live \ posts : row[n].sent => n \in pushed

\* A mailing is all or nothing: two contacts that have always been subscribed
\* have got the same emails, so that a retry after a failure in the middle
\* doesn't mail the first of them again, nor leave the last of them out.
MailingIsWhole ==
    \A n \in Newsletters : \A c, d \in steady : mailed[n][c] = mailed[n][d]

\* A draft doesn't go out because someone edits, tests or unschedules it while
\* the task and the workers are running.
MailedIsAsked ==
    \A n \in Newsletters : (\E c \in Contacts : mailed[n][c] > 0) => n \in asked

\* The inductive invariant behind MarkedIsPushed and MailedIsAsked.  A row marked
\* as sent, or a job, comes from a push; a push, or a row that is due, from being
\* asked for;
RowsAreJustified ==
    /\ pushed \subseteq asked
    /\ \A n \in Newsletters :
         /\ row[n].sent => n \in pushed \cup posts
         /\ row[n].schedule = "due" => n \in asked
         /\ jobs[n] > 0 => n \in pushed

\* and so do the rows that the processes hold and are going to write.
ProcessesAreJustified ==
    \A x \in Processes :
        /\ found[x] \subseteq asked
        /\ pc[x] = "push" => job[x] \in asked
        /\ copy[x].schedule = "due" => job[x] \in asked
        /\ pc[x] = "save" => x \notin Workers
        /\ pc[x] = "save" /\ copy[x].sent => job[x] \in pushed \cup posts
        /\ pc[x] \in {"mark", "load", "fill", "done"} => job[x] \in pushed

Inductive == TypeOK /\ RowsAreJustified /\ ProcessesAreJustified /\ MailedIsAsked

\* The inductive invariant behind MailingIsWhole: a transaction is empty until the
\* recipients are read, and then it has one email for each of those who have
\* always been subscribed, but for the ones who are still to come.
BatchesAreWhole ==
    \A x \in Processes :
        /\ pc[x] \notin {"fill", "done"} => batch[x] = {}
        /\ pc[x] = "fill" => \A c \in steady :
             IF c \in todo[x]
             THEN {e \in batch[x] : e[1] = c} = {}
             ELSE \E m \in batch[x] : {e \in batch[x] : e[1] = c} = {m}

WholeInv == TypeOK /\ BatchesAreWhole /\ MailingIsWhole

\* A newsletter that is due is mailed to who is subscribed all along, unless it
\* is deleted or scheduled otherwise before that.
DueIsMailed ==
    \A n \in Newsletters :
        (n \in Due) ~> \/ \A c \in steady : mailed[n][c] > 0
                       \/ n \notin Live \/ row[n].schedule # "due"

\* The error "Newsletter already sent." of SendNewsletter, and the condition
\* sent_at IS NULL of the task: what is marked as sent isn't sent again.
SentIsNotSentAgain ==
    \A x \in Requests \cup Tasks : pc[x] = "push" => ~row[job[x]].sent

\* "The number of emails / s to send for a single newsletter" is at most
\* NewsletterRateLimit.
Paced ==
    \A x \in Workers : \A s \in {e[2] : e \in batch[x]} :
        Cardinality({e \in batch[x] : e[2] = s}) <= RateLimit
=============================================================================
