------------------------ MODULE Newsletters_proofs -------------------------
(***************************************************************************)
(* Proofs about Newsletters, for any sets of newsletters, contacts and     *)
(* processes, and any bounds.                                              *)
(***************************************************************************)
EXTENDS Newsletters, FiniteSetTheorems, TLAPS

USE DEF rowVars, siteVars, queueVars, processVars, historyVars, mailingVars

-----------------------------------------------------------------------------
(* What the helpers return.                                                *)

\* Rest leaves a process without a newsletter, a row and a transaction.
LEMMA RestType ==
    ASSUME TypeOK, NEW x \in Processes, Rest(x)
    PROVE  /\ pc' \in [Processes -> {"idle", "push", "save", "posted", "mark",
                                     "load", "fill", "done"}]
           /\ job' \in [Processes -> Newsletters \cup {NoNewsletter}]
           /\ \A y \in Processes : pc'[y] # "idle" => job'[y] \in Newsletters
           /\ copy' \in [Processes -> Row]
           /\ todo' \in [Processes -> SUBSET Contacts]
           /\ batch' \in [Processes -> SUBSET (Contacts \X Nat)]
           /\ \A y \in Processes : IsFiniteSet(batch'[y])
           /\ second' \in [Processes -> Nat]
<1>1. Blank \in Row
  BY DEF Blank, Row
<1>2. IsFiniteSet({})
  BY FS_EmptySet
<1> QED
  BY <1>1, <1>2 DEF Rest, TypeOK

\* Work turns a process to a newsletter and a row.
LEMMA WorkType ==
    ASSUME TypeOK, NEW x \in Processes, NEW n \in Newsletters, NEW r \in Row,
           NEW step \in {"push", "save", "mark", "load"}, Work(x, n, r, step)
    PROVE  /\ pc' \in [Processes -> {"idle", "push", "save", "posted", "mark",
                                     "load", "fill", "done"}]
           /\ job' \in [Processes -> Newsletters \cup {NoNewsletter}]
           /\ \A y \in Processes : pc'[y] # "idle" => job'[y] \in Newsletters
           /\ copy' \in [Processes -> Row]
  BY DEF Work, TypeOK

\* Writing a row leaves rows.
LEMMA WriteType ==
    ASSUME TypeOK, NEW n \in Newsletters, NEW r \in Row, Write(n, r)
    PROVE  row' \in [Newsletters -> Row]
  BY DEF Write, TypeOK

\* A chunk is a finite set, and the seconds that pass while its emails are
\* scheduled are a natural number.
LEMMA ChunkType ==
    ASSUME NEW R \in SUBSET Contacts, NEW C \in Chunks(R), C # {},
           NEW k \in Nat
    PROVE  /\ C \subseteq R
           /\ k + (Cardinality(C) - 1) \div RateLimit \in Nat
           /\ IsFiniteSet(C \X {k + (Cardinality(C) - 1) \div RateLimit})
<1>1. C \in SUBSET R
  BY DEF Chunks
<1>2. IsFiniteSet(C)
  BY <1>1, FS_Subset, NewslettersAssumption
<1>3. Cardinality(C) \in Nat \ {0}
  BY <1>2, FS_CardinalityType, FS_EmptySet
<1>4. k + (Cardinality(C) - 1) \div RateLimit \in Nat
  <2>1. Cardinality(C) - 1 \in Nat
    BY <1>3
  <2>2. ASSUME NEW a \in Nat, NEW b \in Nat \ {0} PROVE a \div b \in Nat
    BY <2>2
  <2>3. RateLimit \in Nat \ {0}
    BY NewslettersAssumption
  <2>4. (Cardinality(C) - 1) \div RateLimit \in Nat
    BY <2>1, <2>2, <2>3
  <2> QED
    BY <2>4
<1>5. IsFiniteSet({k + (Cardinality(C) - 1) \div RateLimit})
  BY FS_Singleton
<1>6. IsFiniteSet(C \X {k + (Cardinality(C) - 1) \div RateLimit})
  BY <1>2, <1>5, FS_Product
<1> QED
  BY <1>1, <1>4, <1>6

\* Counting emails up to the bound.
LEMMA CountType == \A k \in Nat : Count(k) \in Nat
  BY NewslettersAssumption DEF Count

\* A transaction makes a natural number of emails for a contact.
LEMMA BatchType ==
    ASSUME NEW B, IsFiniteSet(B), NEW c
    PROVE  Cardinality({e \in B : e[1] = c}) \in Nat
<1>1. IsFiniteSet({e \in B : e[1] = c})
  BY FS_Subset
<1> QED
  BY <1>1, FS_CardinalityType

-----------------------------------------------------------------------------
(* The types.                                                              *)

LEMMA TypeInit == Init => TypeOK
<1> SUFFICES ASSUME Init PROVE TypeOK
  OBVIOUS
<1>1. Blank \in Row
  BY DEF Blank, Row
<1>2. IsFiniteSet({})
  BY FS_EmptySet
<1> QED
  BY <1>1, <1>2 DEF Init, TypeOK

LEMMA TypeRequest == TypeOK /\ (StaffStep \/ SiteStep) => TypeOK'
<1> SUFFICES ASSUME TypeOK, StaffStep \/ SiteStep PROVE TypeOK'
  OBVIOUS
<1> USE DEF Live
<1>1. ASSUME NEW n \in Newsletters, NEW s \in {"none", "later"}, CreateNewsletter(n, s)
      PROVE  TypeOK'
  BY <1>1 DEF CreateNewsletter, TypeOK, Row
<1>2. ASSUME NEW n \in Newsletters, NEW s \in {"none", "later"},
             NEW x \in Requests, EditNewsletter(x, n, s)
      PROVE  TypeOK'
  <2>1. [row[n] EXCEPT !.schedule = s] \in Row
    <3>1. row[n] \in Row
      BY DEF TypeOK
    <3> QED
      BY <3>1 DEF Row
  <2>2. x \in Processes
    BY DEF Processes
  <2> HIDE DEF Live
  <2> QED
    BY <1>2, <2>1, <2>2, WorkType DEF EditNewsletter, TypeOK
<1>3. ASSUME NEW n \in Newsletters, NEW x \in Requests, SendNewsletter(x, n)
      PROVE  TypeOK'
  <2>1. [sent |-> TRUE, schedule |-> "none"] \in Row
    BY DEF Row
  <2>2. x \in Processes
    BY DEF Processes
  <2> QED
    BY <1>3, <2>1, <2>2, WorkType DEF SendNewsletter, TypeOK
<1>4. ASSUME NEW n \in Newsletters, NEW x \in Requests, TestNewsletter(x, n)
      PROVE  TypeOK'
  <2>1. row[n] \in Row /\ x \in Processes
    BY DEF TypeOK, Processes
  <2> QED
    BY <1>4, <2>1, WorkType DEF TestNewsletter, TypeOK
<1>5. ASSUME NEW n \in Newsletters, DeleteNewsletter(n) PROVE TypeOK'
  BY <1>5 DEF DeleteNewsletter, TypeOK
<1>6. CASE ConfigureDomain
  BY <1>6 DEF ConfigureDomain, TypeOK
<1>7. CASE PublishPost
  BY <1>7 DEF PublishPost, TypeOK
<1>8. ASSUME NEW c \in Contacts, Subscribe(c) \/ Unsubscribe(c) PROVE TypeOK'
  BY <1>8 DEF Subscribe, Unsubscribe, TypeOK
<1>9. ASSUME NEW n \in Newsletters, Tick(n) PROVE TypeOK'
  BY <1>9 DEF Tick, TypeOK, Row
<1> QED
  BY <1>1, <1>2, <1>3, <1>4, <1>5, <1>6, <1>7, <1>8, <1>9 DEF StaffStep, SiteStep

LEMMA TypeTask ==
    ASSUME TypeOK, NEW x \in Tasks,
           StartTask(x) \/ \E n \in Newsletters : TakeDue(x, n)
    PROVE  TypeOK'
<1>1. x \in Processes
  BY DEF Processes
<1>2. CASE StartTask(x)
  <2>1. Due \subseteq Newsletters
    BY DEF Due, Live
  <2> QED
    BY <1>1, <1>2, <2>1 DEF StartTask, TypeOK
<1>3. ASSUME NEW n \in Newsletters, TakeDue(x, n) PROVE TypeOK'
  <2>1. [sent |-> TRUE, schedule |-> "due"] \in Row
    BY DEF Row
  <2> QED
    BY <1>1, <1>3, <2>1, WorkType DEF TakeDue, TypeOK
<1> QED
  BY <1>2, <1>3

\* What a commit adds to the emails of a newsletter.
LEMMA CommitType ==
    ASSUME TypeOK, NEW x \in Processes, Commit(x)
    PROVE  mailed' \in [Newsletters -> [Contacts -> Nat]]
<1>1. job[x] \in Newsletters
  BY DEF Commit, TypeOK
<1>2. ASSUME NEW c \in Contacts
      PROVE  Count(mailed[job[x]][c] + Cardinality({e \in batch[x] : e[1] = c})) \in Nat
  <2>1. Cardinality({e \in batch[x] : e[1] = c}) \in Nat
    <3>1. IsFiniteSet(batch[x])
      BY DEF TypeOK
    <3> QED
      BY <3>1, BatchType
  <2>2. mailed[job[x]][c] \in Nat
    BY <1>1 DEF TypeOK
  <2> QED
    BY <2>1, <2>2, CountType
<1>3. [c \in Contacts |->
           Count(mailed[job[x]][c] + Cardinality({e \in batch[x] : e[1] = c}))]
          \in [Contacts -> Nat]
  BY <1>2
<1> QED
  BY <1>1, <1>3 DEF Commit, TypeOK

LEMMA TypeWorker == ASSUME TypeOK, NEW x \in Workers, WorkerStep(x) PROVE TypeOK'
<1>1. x \in Processes
  BY DEF Processes
<1>2. ASSUME NEW n \in Newsletters, StartPost(x, n) PROVE TypeOK'
  <2>1. [sent |-> TRUE, schedule |-> "due"] \in Row
    BY DEF Row
  <2>2. /\ row' = [row EXCEPT ![n] = [sent |-> TRUE, schedule |-> "due"]]
        /\ row'[n] \in Row
    BY <1>2, <2>1 DEF StartPost, TypeOK
  <2>3. row' \in [Newsletters -> Row] /\ postJobs' \in Nat
    BY <1>2, <2>1, <2>2 DEF StartPost, TypeOK
  <2> QED
    BY <1>1, <1>2, <2>2, <2>3, WorkType DEF StartPost, TypeOK
<1>3. ASSUME NEW n \in Newsletters, StartJob(x, n) PROVE TypeOK'
  <2>1. [row[n] EXCEPT !.sent = TRUE] \in Row
    <3>1. row[n] \in Row
      BY DEF TypeOK
    <3> QED
      BY <3>1 DEF Row
  <2>2. jobs' \in [Newsletters -> Nat]
    BY <1>3 DEF StartJob, TypeOK
  <2> QED
    BY <1>1, <1>3, <2>1, <2>2, WorkType DEF StartJob, TypeOK
<1>4. CASE Mark(x)
  <2>1. job[x] \in Newsletters /\ copy[x] \in Row
    BY <1>1, <1>4 DEF Mark, TypeOK
  <2> QED
    BY <1>1, <1>4, <2>1, WriteType DEF Mark, TypeOK
<1>5. CASE LoadRecipients(x)
  BY <1>1, <1>5 DEF LoadRecipients, TypeOK
<1>6. CASE PushChunk(x)
  <2>1. PICK C \in Chunks(todo[x]) :
          LET last == second[x] + (Cardinality(C) - 1) \div RateLimit
          IN  /\ C # {}
              /\ todo' = [todo EXCEPT ![x] = @ \ C]
              /\ second' = [second EXCEPT ![x] = last]
              /\ batch' = [batch EXCEPT ![x] = @ \cup (C \X {last})]
    BY <1>6 DEF PushChunk
  <2> DEFINE last == second[x] + (Cardinality(C) - 1) \div RateLimit
  <2>2. todo[x] \in SUBSET Contacts /\ second[x] \in Nat
    BY <1>1 DEF TypeOK
  <2>3. C \subseteq todo[x] /\ last \in Nat /\ IsFiniteSet(C \X {last})
    BY <2>1, <2>2, ChunkType
  <2>4. /\ todo' = [todo EXCEPT ![x] = @ \ C]
        /\ second' = [second EXCEPT ![x] = last]
        /\ batch' = [batch EXCEPT ![x] = @ \cup (C \X {last})]
    BY <2>1
  <2> HIDE DEF last
  <2>5. /\ todo' \in [Processes -> SUBSET Contacts]
        /\ second' \in [Processes -> Nat]
        /\ batch' \in [Processes -> SUBSET (Contacts \X Nat)]
    BY <1>1, <2>2, <2>3, <2>4 DEF TypeOK
  <2>6. \A y \in Processes : IsFiniteSet(batch'[y])
    <3>1. IsFiniteSet(batch[x] \cup (C \X {last}))
      BY <1>1, <2>3, FS_Union DEF TypeOK
    <3> QED
      BY <1>1, <2>4, <3>1 DEF TypeOK
  <2> QED
    BY <1>6, <2>5, <2>6 DEF PushChunk, TypeOK
<1>7. CASE Commit(x)
  BY <1>1, <1>7, CommitType DEF Commit, TypeOK
<1>8. CASE Finish(x)
  BY <1>1, <1>8, RestType DEF Finish, TypeOK
<1> QED
  BY <1>2, <1>3, <1>4, <1>5, <1>6, <1>7, <1>8 DEF WorkerStep

LEMMA TypeProcess ==
    ASSUME TypeOK, NEW x \in Processes, Push(x) \/ Save(x) \/ Failure(x)
    PROVE  TypeOK'
<1>1. CASE Push(x)
  <2>1. job[x] \in Newsletters
    BY <1>1 DEF Push, TypeOK
  <2>2. jobs' \in [Newsletters -> Nat]
    BY <1>1, <2>1 DEF Push, TypeOK
  <2> QED
    BY <1>1, <2>1, <2>2 DEF Push, TypeOK
<1>2. CASE Save(x)
  <2>1. job[x] \in Newsletters /\ copy[x] \in Row
    BY <1>2 DEF Save, TypeOK
  <2> QED
    BY <1>2, <2>1, RestType, WriteType DEF Save, TypeOK
<1>3. CASE FailRequest(x) \/ GiveUpJob(x)
  BY <1>3, RestType DEF FailRequest, GiveUpJob, TypeOK
<1>4. CASE FailTask(x)
  <2>1. found' \in [Processes -> SUBSET Newsletters]
    BY <1>4 DEF FailTask, TypeOK
  <2> QED
    BY <1>4, <2>1, RestType DEF FailTask, TypeOK
<1>5. CASE RetryJob(x)
  <2>1. jobs' \in [Newsletters -> Nat] /\ postJobs' \in Nat
    BY <1>5 DEF RetryJob, TypeOK
  <2> QED
    BY <1>5, <2>1, RestType DEF RetryJob, TypeOK
<1> QED
  BY <1>1, <1>2, <1>3, <1>4, <1>5 DEF Failure

LEMMA TypeStep == TypeOK /\ [Next]_vars => TypeOK'
<1> SUFFICES ASSUME TypeOK, [Next]_vars PROVE TypeOK'
  OBVIOUS
<1>1. ASSUME NEW n \in Newsletters, DropJob(n) PROVE TypeOK'
  BY <1>1 DEF DropJob, TypeOK
<1>2. CASE UNCHANGED vars
  BY <1>2 DEF vars, TypeOK
<1> QED
  BY <1>1, <1>2, TypeRequest, TypeTask, TypeWorker, TypeProcess DEF Next

-----------------------------------------------------------------------------
(* The invariant.                                                          *)

LEMMA InductiveInit == Init => Inductive
<1>1. Init => RowsAreJustified /\ ProcessesAreJustified /\ MailedIsAsked
  BY DEF Init, Blank, RowsAreJustified, ProcessesAreJustified, MailedIsAsked
<1> QED
  BY <1>1, TypeInit DEF Inductive

\* A process that rests claims nothing; the others claim what they did.
LEMMA RestClaims ==
    ASSUME Inductive, NEW x \in Processes, Rest(x),
           UNCHANGED <<asked, pushed, posts>>,
           \A y \in Processes : found'[y] \subseteq found[y]
    PROVE  ProcessesAreJustified'
<1>1. ASSUME NEW y \in Processes, y # x
      PROVE  pc'[y] = pc[y] /\ copy'[y] = copy[y] /\ job'[y] = job[y]
  BY <1>1 DEF Rest, Inductive, TypeOK
<1>2. pc'[x] = "idle" /\ copy'[x].schedule = "none"
  BY DEF Rest, Blank, Inductive, TypeOK
<1> QED
  BY <1>1, <1>2 DEF Inductive, ProcessesAreJustified

\* A process that turns to a newsletter claims what its row and step say.
LEMMA WorkClaims ==
    ASSUME Inductive, NEW x \in Processes, NEW n \in Newsletters, NEW r \in Row,
           NEW step \in {"push", "save", "mark", "load"}, Work(x, n, r, step),
           asked \subseteq asked', posts \subseteq posts', UNCHANGED pushed,
           \A y \in Processes : found'[y] \subseteq found[y],
           step = "save" => x \notin Workers /\ (r.sent => n \in pushed' \cup posts'),
           step \in {"mark", "load"} => n \in pushed',
           step = "push" => n \in asked',
           r.schedule = "due" => n \in asked'
    PROVE  ProcessesAreJustified'
<1>1. ASSUME NEW y \in Processes, y # x
      PROVE  pc'[y] = pc[y] /\ copy'[y] = copy[y] /\ job'[y] = job[y]
  BY <1>1 DEF Work, Inductive, TypeOK
<1>2. pc'[x] = step /\ copy'[x] = r /\ job'[x] = n
  BY DEF Work, Inductive, TypeOK
<1> QED
  BY <1>1, <1>2 DEF Inductive, ProcessesAreJustified

\* Writing a justified row justifies the rows.
LEMMA WriteClaims ==
    ASSUME Inductive, NEW n \in Newsletters, NEW r \in Row, Write(n, r),
           UNCHANGED <<jobs, asked, pushed, posts>>,
           r.sent => n \in pushed \cup posts,
           r.schedule = "due" => n \in asked
    PROVE  RowsAreJustified'
  BY DEF Write, Inductive, TypeOK, RowsAreJustified

\* What keeps the rows, the queue and the history keeps them justified.
LEMMA RowsStay ==
    ASSUME Inductive, UNCHANGED <<row, pushed, posts>>, asked \subseteq asked',
           \A n \in Newsletters : jobs'[n] > 0 => n \in pushed
    PROVE  RowsAreJustified'
  BY DEF Inductive, RowsAreJustified

LEMMA MailsStay ==
    ASSUME Inductive, UNCHANGED mailed, asked \subseteq asked'
    PROVE  MailedIsAsked'
  BY DEF Inductive, MailedIsAsked

LEMMA ProcessesStay ==
    ASSUME Inductive, UNCHANGED <<pc, job, copy, found>>,
           asked \subseteq asked', pushed \subseteq pushed', posts \subseteq posts'
    PROVE  ProcessesAreJustified'
  BY DEF Inductive, ProcessesAreJustified

LEMMA JobsStay ==
    ASSUME Inductive, UNCHANGED jobs
    PROVE  \A n \in Newsletters : jobs'[n] > 0 => n \in pushed
  BY DEF Inductive, RowsAreJustified

LEMMA RequestStep ==
    ASSUME Inductive, StaffStep \/ SiteStep
    PROVE  RowsAreJustified' /\ ProcessesAreJustified' /\ MailedIsAsked'
<1> USE MailsStay, ProcessesStay, RowsStay, JobsStay
<1>1. ASSUME NEW n \in Newsletters, NEW s \in {"none", "later"}, CreateNewsletter(n, s)
      PROVE  RowsAreJustified' /\ ProcessesAreJustified' /\ MailedIsAsked'
  <2>1. RowsAreJustified'
    BY <1>1 DEF CreateNewsletter, Inductive, TypeOK, RowsAreJustified, Row
  <2> QED
    BY <1>1, <2>1 DEF CreateNewsletter
<1>2. ASSUME NEW n \in Newsletters, NEW s \in {"none", "later"},
             NEW x \in Requests, EditNewsletter(x, n, s)
      PROVE  RowsAreJustified' /\ ProcessesAreJustified' /\ MailedIsAsked'
  <2>1. row[n] \in Row /\ x \in Processes /\ x \notin Workers
    BY NewslettersAssumption DEF Inductive, TypeOK, Processes
  <2> DEFINE r == [row[n] EXCEPT !.schedule = s]
  <2>2. r \in Row /\ r.sent = row[n].sent /\ r.schedule # "due"
    BY <2>1 DEF Row
  <2>3. Work(x, n, r, "save")
    BY <1>2 DEF EditNewsletter
  <2> HIDE DEF r
  <2>4. ProcessesAreJustified'
    BY <1>2, <2>1, <2>2, <2>3, WorkClaims
       DEF EditNewsletter, Inductive, RowsAreJustified
  <2> QED
    BY <1>2, <2>4 DEF EditNewsletter
<1>3. ASSUME NEW n \in Newsletters, NEW x \in Requests, SendNewsletter(x, n)
      PROVE  RowsAreJustified' /\ ProcessesAreJustified' /\ MailedIsAsked'
  <2> DEFINE r == [sent |-> TRUE, schedule |-> "none"]
  <2>1. r \in Row /\ r.schedule # "due" /\ x \in Processes
    BY DEF Row, Processes
  <2>2. Work(x, n, r, "push") /\ n \in asked'
    BY <1>3 DEF SendNewsletter
  <2> HIDE DEF r
  <2>3. ProcessesAreJustified'
    BY <1>3, <2>1, <2>2, WorkClaims DEF SendNewsletter
  <2> QED
    BY <1>3, <2>3 DEF SendNewsletter
<1>4. ASSUME NEW n \in Newsletters, NEW x \in Requests, TestNewsletter(x, n)
      PROVE  RowsAreJustified' /\ ProcessesAreJustified' /\ MailedIsAsked'
  <2>1. row[n] \in Row /\ x \in Processes /\ x \notin Workers
    BY NewslettersAssumption DEF Inductive, TypeOK, Processes
  <2>2. ProcessesAreJustified'
    BY <1>4, <2>1, WorkClaims DEF TestNewsletter, Inductive, RowsAreJustified
  <2> QED
    BY <1>4, <2>2 DEF TestNewsletter
<1>5. ASSUME NEW n \in Newsletters, DeleteNewsletter(n)
      PROVE  RowsAreJustified' /\ ProcessesAreJustified' /\ MailedIsAsked'
  BY <1>5 DEF DeleteNewsletter
<1>6. CASE ConfigureDomain \/ PublishPost
  BY <1>6 DEF ConfigureDomain, PublishPost
<1>7. ASSUME NEW c \in Contacts, Subscribe(c) \/ Unsubscribe(c)
      PROVE  RowsAreJustified' /\ ProcessesAreJustified' /\ MailedIsAsked'
  BY <1>7 DEF Subscribe, Unsubscribe
<1>8. ASSUME NEW n \in Newsletters, Tick(n)
      PROVE  RowsAreJustified' /\ ProcessesAreJustified' /\ MailedIsAsked'
  <2>1. RowsAreJustified'
    BY <1>8 DEF Tick, Inductive, TypeOK, RowsAreJustified, Row
  <2> QED
    BY <1>8, <2>1 DEF Tick
<1> QED
  BY <1>1, <1>2, <1>3, <1>4, <1>5, <1>6, <1>7, <1>8 DEF StaffStep, SiteStep

LEMMA TaskStep ==
    ASSUME Inductive, NEW x \in Tasks,
           StartTask(x) \/ \E n \in Newsletters : TakeDue(x, n)
    PROVE  RowsAreJustified' /\ ProcessesAreJustified' /\ MailedIsAsked'
<1> USE MailsStay, RowsStay, JobsStay
<1>1. x \in Processes
  BY DEF Processes
<1>2. CASE StartTask(x)
  <2>1. Due \subseteq asked
    BY DEF Due, Live, Inductive, RowsAreJustified
  <2>2. ProcessesAreJustified'
    BY <1>1, <1>2, <2>1 DEF StartTask, Inductive, TypeOK, ProcessesAreJustified
  <2> QED
    BY <1>2, <2>2 DEF StartTask
<1>3. ASSUME NEW n \in Newsletters, TakeDue(x, n)
      PROVE  RowsAreJustified' /\ ProcessesAreJustified' /\ MailedIsAsked'
  <2> DEFINE r == [sent |-> TRUE, schedule |-> "due"]
  <2>1. r \in Row
    BY DEF Row
  <2>2. Work(x, n, r, "push")
    BY <1>3 DEF TakeDue
  <2>3. n \in asked /\ asked' = asked
    BY <1>1, <1>3 DEF TakeDue, Inductive, ProcessesAreJustified
  <2>4. \A y \in Processes : found'[y] \subseteq found[y]
    BY <1>1, <1>3 DEF TakeDue, Inductive, TypeOK
  <2> HIDE DEF r
  <2>5. ProcessesAreJustified'
    BY <1>1, <1>3, <2>1, <2>2, <2>3, <2>4, WorkClaims DEF TakeDue
  <2> QED
    BY <1>3, <2>5 DEF TakeDue
<1> QED
  BY <1>2, <1>3

LEMMA WorkerClaims ==
    ASSUME Inductive, NEW x \in Workers, WorkerStep(x)
    PROVE  RowsAreJustified' /\ ProcessesAreJustified' /\ MailedIsAsked'
<1> USE MailsStay, ProcessesStay, RowsStay, JobsStay
<1>1. x \in Processes
  BY DEF Processes
<1>2. ASSUME NEW n \in Newsletters, StartPost(x, n)
      PROVE  RowsAreJustified' /\ ProcessesAreJustified' /\ MailedIsAsked'
  <2> DEFINE r == [sent |-> TRUE, schedule |-> "due"]
  <2>1. r \in Row
    BY DEF Row
  <2>2. row' = [row EXCEPT ![n] = r] /\ row'[n] = r
    BY <1>2 DEF StartPost, Inductive, TypeOK
  <2>3. Work(x, n, r, "push") /\ n \in asked' /\ n \in posts'
    BY <1>2, <2>2 DEF StartPost
  <2>4. RowsAreJustified'
    BY <1>2, <2>2, <2>3 DEF StartPost, Inductive, TypeOK, RowsAreJustified
  <2> HIDE DEF r
  <2>5. ProcessesAreJustified'
    BY <1>1, <1>2, <2>1, <2>3, WorkClaims DEF StartPost
  <2> QED
    BY <1>2, <2>4, <2>5 DEF StartPost
<1>3. ASSUME NEW n \in Newsletters, StartJob(x, n)
      PROVE  RowsAreJustified' /\ ProcessesAreJustified' /\ MailedIsAsked'
  <2> DEFINE r == [row[n] EXCEPT !.sent = TRUE]
             step == IF row[n].sent THEN "load" ELSE "mark"
  <2>1. row[n] \in Row
    BY DEF Inductive, TypeOK
  <2>2. r \in Row /\ r.schedule = row[n].schedule
    BY <2>1 DEF Row
  <2>3. n \in pushed /\ (r.schedule = "due" => n \in asked)
    BY <1>3, <2>2 DEF StartJob, Inductive, RowsAreJustified
  <2>4. Work(x, n, r, step) /\ step \in {"load", "mark"}
    BY <1>3 DEF StartJob
  <2> HIDE DEF r, step
  <2>5. ProcessesAreJustified'
    BY <1>1, <1>3, <2>2, <2>3, <2>4, WorkClaims DEF StartJob
  <2>6. \A k \in Newsletters : jobs'[k] > 0 => k \in pushed
    BY <1>3, <2>3 DEF StartJob, Inductive, TypeOK, RowsAreJustified
  <2> QED
    BY <1>3, <2>5, <2>6 DEF StartJob
<1>4. CASE Mark(x)
  <2>1. job[x] \in Newsletters /\ copy[x] \in Row
    BY <1>1, <1>4 DEF Mark, Inductive, TypeOK
  <2>2. job[x] \in pushed /\ (copy[x].schedule = "due" => job[x] \in asked)
    BY <1>1, <1>4 DEF Mark, Inductive, ProcessesAreJustified
  <2>3. RowsAreJustified'
    BY <1>4, <2>1, <2>2, WriteClaims DEF Mark
  <2>4. ProcessesAreJustified'
    BY <1>1, <1>4, <2>2 DEF Mark, Inductive, TypeOK, ProcessesAreJustified
  <2> QED
    BY <1>4, <2>3, <2>4 DEF Mark
<1>5. CASE LoadRecipients(x)
  <2>1. ProcessesAreJustified'
    BY <1>1, <1>5 DEF LoadRecipients, Inductive, TypeOK, ProcessesAreJustified
  <2> QED
    BY <1>5, <2>1 DEF LoadRecipients
<1>6. CASE PushChunk(x)
  BY <1>6 DEF PushChunk
<1>7. CASE Commit(x)
  <2>1. job[x] \in asked
    BY <1>1, <1>7 DEF Commit, Inductive, RowsAreJustified, ProcessesAreJustified
  <2>2. MailedIsAsked'
    <3>1. \A n \in Newsletters \ {job[x]} : mailed'[n] = mailed[n]
      BY <1>7 DEF Commit, Inductive, TypeOK
    <3> QED
      BY <1>7, <2>1, <3>1 DEF Commit, Inductive, MailedIsAsked
  <2>3. ProcessesAreJustified'
    BY <1>1, <1>7 DEF Commit, Inductive, TypeOK, ProcessesAreJustified
  <2> QED
    BY <1>7, <2>2, <2>3 DEF Commit
<1>8. CASE Finish(x)
  BY <1>1, <1>8, RestClaims DEF Finish
<1> QED
  BY <1>2, <1>3, <1>4, <1>5, <1>6, <1>7, <1>8 DEF WorkerStep

LEMMA ProcessClaims ==
    ASSUME Inductive, NEW x \in Processes, Push(x) \/ Save(x) \/ Failure(x)
    PROVE  RowsAreJustified' /\ ProcessesAreJustified' /\ MailedIsAsked'
<1> USE MailsStay, RowsStay, JobsStay
<1>1. CASE Push(x)
  <2>1. job[x] \in Newsletters /\ job[x] \in asked
    BY <1>1 DEF Push, Inductive, TypeOK, ProcessesAreJustified
  <2>2. RowsAreJustified'
    BY <1>1, <2>1 DEF Push, Inductive, TypeOK, RowsAreJustified
  <2>3. ProcessesAreJustified'
    BY <1>1, <2>1 DEF Push, Inductive, TypeOK, ProcessesAreJustified
  <2> QED
    BY <1>1, <2>2, <2>3 DEF Push
<1>2. CASE Save(x)
  <2>1. job[x] \in Newsletters /\ copy[x] \in Row
    BY <1>2 DEF Save, Inductive, TypeOK
  <2>2. /\ copy[x].sent => job[x] \in pushed \cup posts
        /\ copy[x].schedule = "due" => job[x] \in asked
    BY <1>2 DEF Save, Inductive, ProcessesAreJustified
  <2>3. RowsAreJustified'
    BY <1>2, <2>1, <2>2, WriteClaims DEF Save
  <2> QED
    BY <1>2, <2>3, RestClaims DEF Save
<1>3. CASE FailRequest(x) \/ GiveUpJob(x)
  BY <1>3, RestClaims DEF FailRequest, GiveUpJob
<1>4. CASE FailTask(x)
  <2>1. \A y \in Processes : found'[y] \subseteq found[y]
    BY <1>4 DEF FailTask, Inductive, TypeOK
  <2> QED
    BY <1>4, <2>1, RestClaims DEF FailTask
<1>5. CASE RetryJob(x)
  <2>1. pc[x] \notin {"idle", "push", "posted"} => job[x] \in pushed
    BY <1>5 DEF RetryJob, Inductive, TypeOK, ProcessesAreJustified
  <2>2. \A n \in Newsletters : jobs'[n] > 0 => n \in pushed
    BY <1>5, <2>1 DEF RetryJob, Inductive, TypeOK, RowsAreJustified
  <2> QED
    BY <1>5, <2>2, RestClaims DEF RetryJob
<1> QED
  BY <1>1, <1>2, <1>3, <1>4, <1>5 DEF Failure

LEMMA InductiveStep == Inductive /\ [Next]_vars => Inductive'
<1> SUFFICES ASSUME Inductive, [Next]_vars
             PROVE  RowsAreJustified' /\ ProcessesAreJustified' /\ MailedIsAsked'
  BY TypeStep DEF Inductive
<1>1. ASSUME NEW n \in Newsletters, DropJob(n)
      PROVE  RowsAreJustified' /\ ProcessesAreJustified' /\ MailedIsAsked'
  <2>1. \A k \in Newsletters : jobs'[k] > 0 => k \in pushed
    BY <1>1 DEF DropJob, Inductive, TypeOK, RowsAreJustified
  <2> QED
    BY <1>1, <2>1, MailsStay, ProcessesStay, RowsStay DEF DropJob
<1>2. CASE UNCHANGED vars
  BY <1>2, MailsStay, ProcessesStay, RowsStay, JobsStay DEF vars
<1> QED
  BY <1>1, <1>2, RequestStep, TaskStep, WorkerClaims, ProcessClaims DEF Next

\* The inductive invariant: whatever the staff, the task and the workers do and
\* wherever they fail, the rows, the copies and the jobs are justified.
THEOREM NewsletterInvariance == Spec => []Inductive
  BY InductiveInit, InductiveStep, PTL DEF Spec

\* The variables have their types.
THEOREM NewsletterTypes == Spec => []TypeOK
  BY NewsletterInvariance, PTL DEF Inductive

\* Nobody marks a newsletter as sent, which takes it off the scheduler's list for
\* good, unless its job has reached the queue (SendNewsletter, the scheduler's
\* task, JobSendNewsletter and every write of a whole row).
THEOREM MarkingIsSafe == Spec => []MarkedIsPushed
<1>1. Inductive => MarkedIsPushed
  BY DEF Inductive, RowsAreJustified, MarkedIsPushed, Live
<1> QED
  BY <1>1, NewsletterInvariance, PTL

\* No draft goes out that nobody sent or scheduled (JobSendNewsletter, and
\* FindScheduledNewsletters among edits, tests and failures).
THEOREM MailingIsAsked == Spec => []MailedIsAsked
  BY NewsletterInvariance, PTL DEF Inductive

-----------------------------------------------------------------------------
(* A mailing is whole.                                                     *)

LEMMA WholeInit == Init => WholeInv
<1>1. Init => BatchesAreWhole /\ MailingIsWhole
  BY DEF Init, BatchesAreWhole, MailingIsWhole
<1> QED
  BY <1>1, TypeInit DEF WholeInv

\* What leaves the mails alone keeps them equal: nobody joins those who have
\* always been subscribed.
LEMMA MailsStayWhole ==
    ASSUME WholeInv, UNCHANGED mailed, steady' \subseteq steady
    PROVE  MailingIsWhole'
  BY DEF WholeInv, MailingIsWhole

\* The transactions of the others stay as they are.
LEMMA BatchesStay ==
    ASSUME WholeInv, NEW x \in Processes, steady' \subseteq steady,
           \A y \in Processes \ {x} :
               pc'[y] = pc[y] /\ todo'[y] = todo[y] /\ batch'[y] = batch[y],
           pc'[x] \notin {"fill", "done"}, batch'[x] = {}
    PROVE  BatchesAreWhole'
<1>1. ASSUME NEW y \in Processes, y # x
      PROVE  /\ pc'[y] \notin {"fill", "done"} => batch'[y] = {}
             /\ pc'[y] = "fill" => \A c \in steady' :
                  IF c \in todo'[y]
                  THEN {e \in batch'[y] : e[1] = c} = {}
                  ELSE \E m \in batch'[y] : {e \in batch'[y] : e[1] = c} = {m}
  BY <1>1 DEF WholeInv, BatchesAreWhole
<1> QED
  BY <1>1 DEF BatchesAreWhole

LEMMA NoBatchChanges ==
    ASSUME WholeInv, UNCHANGED <<pc, todo, batch>>, steady' \subseteq steady
    PROVE  BatchesAreWhole'
  BY DEF WholeInv, BatchesAreWhole

LEMMA RestIsWhole ==
    ASSUME WholeInv, NEW x \in Processes, Rest(x), UNCHANGED <<mailed, steady>>
    PROVE  BatchesAreWhole' /\ MailingIsWhole'
<1>1. /\ pc'[x] = "idle" /\ batch'[x] = {}
      /\ \A y \in Processes \ {x} :
            pc'[y] = pc[y] /\ todo'[y] = todo[y] /\ batch'[y] = batch[y]
  BY DEF Rest, WholeInv, TypeOK
<1> QED
  BY <1>1, BatchesStay, MailsStayWhole

\* A process that turns to a newsletter had no transaction, and has none yet.
LEMMA WorkIsWhole ==
    ASSUME WholeInv, NEW x \in Processes, NEW n, NEW r,
           NEW s \in {"push", "save", "mark", "load"}, Work(x, n, r, s),
           pc[x] = "idle", UNCHANGED <<todo, batch, mailed, steady>>
    PROVE  BatchesAreWhole' /\ MailingIsWhole'
<1>1. batch[x] = {}
  BY DEF WholeInv, BatchesAreWhole
<1>2. pc'[x] = s /\ \A y \in Processes \ {x} : pc'[y] = pc[y]
  BY DEF Work, WholeInv, TypeOK
<1> QED
  BY <1>1, <1>2, BatchesStay, MailsStayWhole

\* The same for a process that goes on before its transaction.
LEMMA StepIsWhole ==
    ASSUME WholeInv, NEW x \in Processes, NEW s \in {"push", "save", "posted", "load"},
           pc[x] \notin {"fill", "done"}, pc' = [pc EXCEPT ![x] = s],
           UNCHANGED <<todo, batch, mailed, steady>>
    PROVE  BatchesAreWhole' /\ MailingIsWhole'
<1>1. batch[x] = {}
  BY DEF WholeInv, BatchesAreWhole
<1>2. pc'[x] = s /\ \A y \in Processes \ {x} : pc'[y] = pc[y]
  BY DEF WholeInv, TypeOK
<1> QED
  BY <1>1, <1>2, BatchesStay, MailsStayWhole

\* Another chunk: its recipients weren't in the transaction before, and are in it
\* once.
LEMMA ChunkIsWhole ==
    ASSUME WholeInv, NEW x \in Processes, PushChunk(x)
    PROVE  BatchesAreWhole' /\ MailingIsWhole'
<1>1. PICK C \in Chunks(todo[x]) :
        LET last == second[x] + (Cardinality(C) - 1) \div RateLimit
        IN  /\ todo' = [todo EXCEPT ![x] = @ \ C]
            /\ batch' = [batch EXCEPT ![x] = @ \cup (C \X {last})]
  BY DEF PushChunk
<1> DEFINE last == second[x] + (Cardinality(C) - 1) \div RateLimit
<1>2. /\ todo'[x] = todo[x] \ C /\ batch'[x] = batch[x] \cup (C \X {last})
      /\ \A y \in Processes \ {x} : todo'[y] = todo[y] /\ batch'[y] = batch[y]
  BY <1>1 DEF WholeInv, TypeOK
<1>3. C \subseteq todo[x]
  BY DEF Chunks
<1>4. pc[x] = "fill" /\ UNCHANGED <<pc, mailed, steady>>
  BY DEF PushChunk
<1> HIDE DEF last
<1>5. ASSUME NEW c \in steady
      PROVE  IF c \in todo'[x]
             THEN {e \in batch'[x] : e[1] = c} = {}
             ELSE \E m \in batch'[x] : {e \in batch'[x] : e[1] = c} = {m}
  <2>1. {e \in batch'[x] : e[1] = c} =
            {e \in batch[x] : e[1] = c} \cup {e \in C \X {last} : e[1] = c}
    BY <1>2
  <2>2. IF c \in todo[x] THEN {e \in batch[x] : e[1] = c} = {}
        ELSE \E m \in batch[x] : {e \in batch[x] : e[1] = c} = {m}
    BY <1>4 DEF WholeInv, BatchesAreWhole
  <2>3. CASE c \in C
    <3>1. {e \in C \X {last} : e[1] = c} = {<<c, last>>}
      BY <2>3
    <3>2. {e \in batch'[x] : e[1] = c} = {<<c, last>>}
      BY <1>3, <2>1, <2>2, <2>3, <3>1
    <3>3. <<c, last>> \in batch'[x]
      BY <1>2, <2>3
    <3> QED
      BY <1>2, <2>3, <3>2, <3>3
  <2>4. CASE c \notin C
    <3>1. {e \in C \X {last} : e[1] = c} = {}
      BY <2>4
    <3>2. {e \in batch'[x] : e[1] = c} = {e \in batch[x] : e[1] = c}
      BY <2>1, <3>1
    <3>3. (c \in todo'[x]) <=> (c \in todo[x])
      BY <1>2, <2>4
    <3> QED
      BY <1>2, <2>2, <3>2, <3>3
  <2> QED
    BY <2>3, <2>4
<1>6. BatchesAreWhole'
  <2>1. ASSUME NEW y \in Processes, y # x
        PROVE  /\ pc'[y] \notin {"fill", "done"} => batch'[y] = {}
               /\ pc'[y] = "fill" => \A c \in steady' :
                    IF c \in todo'[y]
                    THEN {e \in batch'[y] : e[1] = c} = {}
                    ELSE \E m \in batch'[y] : {e \in batch'[y] : e[1] = c} = {m}
    BY <1>2, <1>4, <2>1 DEF WholeInv, BatchesAreWhole
  <2> QED
    BY <1>4, <1>5, <2>1 DEF BatchesAreWhole
<1> QED
  BY <1>4, <1>6, MailsStayWhole

\* The commit: one more email for each of those who have always been subscribed,
\* so that who had the same number still has.
LEMMA CommitIsWhole ==
    ASSUME WholeInv, NEW x \in Processes, Commit(x)
    PROVE  BatchesAreWhole' /\ MailingIsWhole'
<1>1. /\ pc[x] = "fill" /\ todo[x] = {} /\ UNCHANGED <<todo, batch, steady>>
      /\ job[x] \in Newsletters
  BY DEF Commit, WholeInv, TypeOK
<1>2. pc'[x] = "done" /\ \A y \in Processes \ {x} : pc'[y] = pc[y]
  BY DEF Commit, WholeInv, TypeOK
<1>3. BatchesAreWhole'
  BY <1>1, <1>2 DEF WholeInv, BatchesAreWhole
<1>4. steady \subseteq Contacts
  BY DEF WholeInv, TypeOK
<1>5. ASSUME NEW c \in steady
      PROVE  mailed'[job[x]][c] = Count(mailed[job[x]][c] + 1)
  <2>1. PICK m \in batch[x] : {e \in batch[x] : e[1] = c} = {m}
    BY <1>1 DEF WholeInv, BatchesAreWhole
  <2>2. Cardinality({e \in batch[x] : e[1] = c}) = 1
    BY <2>1, FS_Singleton
  <2>3. mailed'[job[x]][c] =
            Count(mailed[job[x]][c] + Cardinality({e \in batch[x] : e[1] = c}))
    BY <1>1, <1>4 DEF Commit, WholeInv, TypeOK
  <2> QED
    BY <2>2, <2>3
<1>6. \A n \in Newsletters \ {job[x]} : mailed'[n] = mailed[n]
  BY <1>1 DEF Commit, WholeInv, TypeOK
<1>7. \A c, d \in steady : mailed'[job[x]][c] = mailed'[job[x]][d]
  BY <1>1, <1>5 DEF WholeInv, MailingIsWhole
<1>8. MailingIsWhole'
  BY <1>1, <1>6, <1>7 DEF WholeInv, MailingIsWhole
<1> QED
  BY <1>3, <1>8

LEMMA WorkerIsWhole ==
    ASSUME WholeInv, NEW x \in Workers, WorkerStep(x)
    PROVE  BatchesAreWhole' /\ MailingIsWhole'
<1>1. x \in Processes
  BY DEF Processes
<1>2. ASSUME NEW n \in Newsletters, StartPost(x, n)
      PROVE  BatchesAreWhole' /\ MailingIsWhole'
  <2>1. Work(x, n, row'[n], "push") /\ pc[x] = "idle"
        /\ UNCHANGED <<todo, batch, mailed, steady>>
    BY <1>2 DEF StartPost
  <2>2. PICK r : r = row'[n]
    OBVIOUS
  <2>3. Work(x, n, r, "push")
    BY <2>1, <2>2 DEF Work
  <2> QED
    BY <1>1, <2>1, <2>3, WorkIsWhole
<1>3. ASSUME NEW n \in Newsletters, StartJob(x, n)
      PROVE  BatchesAreWhole' /\ MailingIsWhole'
  <2> DEFINE s == IF row[n].sent THEN "load" ELSE "mark"
  <2>1. /\ Work(x, n, [row[n] EXCEPT !.sent = TRUE], s) /\ s \in {"load", "mark"}
        /\ pc[x] = "idle" /\ UNCHANGED <<todo, batch, mailed, steady>>
    BY <1>3 DEF StartJob
  <2> HIDE DEF s
  <2> QED
    BY <1>1, <2>1, WorkIsWhole
<1>4. CASE Mark(x)
  BY <1>1, <1>4, StepIsWhole DEF Mark
<1>5. CASE LoadRecipients(x)
  <2>1. pc[x] = "load" /\ batch[x] = {} /\ UNCHANGED <<batch, mailed, steady>>
    BY <1>1, <1>5 DEF LoadRecipients, WholeInv, BatchesAreWhole
  <2>2. /\ pc'[x] = "fill" /\ todo'[x] = subscribed
        /\ \A y \in Processes \ {x} : pc'[y] = pc[y] /\ todo'[y] = todo[y]
    BY <1>1, <1>5 DEF LoadRecipients, WholeInv, TypeOK
  <2>3. steady \subseteq subscribed
    BY DEF WholeInv, TypeOK
  <2>4. BatchesAreWhole'
    BY <2>1, <2>2, <2>3 DEF WholeInv, BatchesAreWhole
  <2> QED
    BY <2>1, <2>4, MailsStayWhole
<1>6. CASE PushChunk(x) \/ Commit(x)
  BY <1>1, <1>6, ChunkIsWhole, CommitIsWhole
<1>7. CASE Finish(x)
  BY <1>1, <1>7, RestIsWhole DEF Finish
<1> QED
  BY <1>2, <1>3, <1>4, <1>5, <1>6, <1>7 DEF WorkerStep

LEMMA RequestIsWhole ==
    ASSUME WholeInv, StaffStep \/ SiteStep
    PROVE  BatchesAreWhole' /\ MailingIsWhole'
<1> USE MailsStayWhole, NoBatchChanges
<1>1. ASSUME NEW n \in Newsletters, NEW s \in {"none", "later"}, CreateNewsletter(n, s)
      PROVE  BatchesAreWhole' /\ MailingIsWhole'
  BY <1>1 DEF CreateNewsletter
<1>2. ASSUME NEW n \in Newsletters, NEW x \in Requests,
             \/ \E s \in {"none", "later"} : EditNewsletter(x, n, s)
             \/ SendNewsletter(x, n) \/ TestNewsletter(x, n)
      PROVE  BatchesAreWhole' /\ MailingIsWhole'
  <2>1. PICK s \in {"save", "push"} : \E r : Work(x, n, r, s)
    BY <1>2 DEF EditNewsletter, SendNewsletter, TestNewsletter
  <2>2. pc[x] = "idle" /\ UNCHANGED <<todo, batch, mailed, steady>>
    BY <1>2 DEF EditNewsletter, SendNewsletter, TestNewsletter
  <2>3. x \in Processes
    BY DEF Processes
  <2>4. PICK r : Work(x, n, r, s)
    BY <2>1
  <2> QED
    BY <2>2, <2>3, <2>4, WorkIsWhole
<1>3. ASSUME NEW n \in Newsletters, DeleteNewsletter(n) \/ Tick(n)
      PROVE  BatchesAreWhole' /\ MailingIsWhole'
  BY <1>3 DEF DeleteNewsletter, Tick
<1>4. CASE ConfigureDomain \/ PublishPost
  BY <1>4 DEF ConfigureDomain, PublishPost
<1>5. ASSUME NEW c \in Contacts, Subscribe(c) \/ Unsubscribe(c)
      PROVE  BatchesAreWhole' /\ MailingIsWhole'
  BY <1>5 DEF Subscribe, Unsubscribe
<1> QED
  BY <1>1, <1>2, <1>3, <1>4, <1>5 DEF StaffStep, SiteStep

LEMMA TaskIsWhole ==
    ASSUME WholeInv, NEW x \in Tasks,
           StartTask(x) \/ \E n \in Newsletters : TakeDue(x, n)
    PROVE  BatchesAreWhole' /\ MailingIsWhole'
<1>1. x \in Processes
  BY DEF Processes
<1>2. CASE StartTask(x)
  BY <1>2, MailsStayWhole, NoBatchChanges DEF StartTask
<1>3. ASSUME NEW n \in Newsletters, TakeDue(x, n)
      PROVE  BatchesAreWhole' /\ MailingIsWhole'
  BY <1>1, <1>3, WorkIsWhole DEF TakeDue
<1> QED
  BY <1>2, <1>3

LEMMA ProcessIsWhole ==
    ASSUME WholeInv, NEW x \in Processes, Push(x) \/ Save(x) \/ Failure(x)
    PROVE  BatchesAreWhole' /\ MailingIsWhole'
<1>1. CASE Push(x)
  <2> DEFINE s == IF x \in Workers THEN "posted" ELSE "save"
  <2>1. /\ pc[x] = "push" /\ pc' = [pc EXCEPT ![x] = s] /\ s \in {"posted", "save"}
        /\ UNCHANGED <<todo, batch, mailed, steady>>
    BY <1>1 DEF Push
  <2> HIDE DEF s
  <2> QED
    BY <2>1, StepIsWhole
<1>2. CASE Save(x)
  BY <1>2, RestIsWhole DEF Save
<1>3. CASE Failure(x)
  <2>1. Rest(x) /\ UNCHANGED <<mailed, steady>>
    BY <1>3 DEF Failure, FailRequest, FailTask, RetryJob, GiveUpJob
  <2> QED
    BY <2>1, RestIsWhole
<1> QED
  BY <1>1, <1>2, <1>3

LEMMA WholeStep == WholeInv /\ [Next]_vars => WholeInv'
<1> SUFFICES ASSUME WholeInv, [Next]_vars PROVE BatchesAreWhole' /\ MailingIsWhole'
  BY TypeStep DEF WholeInv
<1>1. ASSUME NEW n \in Newsletters, DropJob(n)
      PROVE  BatchesAreWhole' /\ MailingIsWhole'
  BY <1>1, MailsStayWhole, NoBatchChanges DEF DropJob
<1>2. CASE UNCHANGED vars
  BY <1>2, MailsStayWhole, NoBatchChanges DEF vars
<1> QED
  BY <1>1, <1>2, RequestIsWhole, TaskIsWhole, WorkerIsWhole, ProcessIsWhole DEF Next

\* A mailing is all or nothing for those who stay subscribed, whatever chunks it is
\* pushed in and wherever the worker fails, is retried, or gives up, before the
\* commit or after it (JobSendNewsletter).
THEOREM MailingWhole == Spec => []MailingIsWhole
<1>1. Spec => []WholeInv
  BY WholeInit, WholeStep, PTL DEF Spec
<1>2. WholeInv => MailingIsWhole
  BY DEF WholeInv
<1> QED
  BY <1>1, <1>2, PTL
=============================================================================
