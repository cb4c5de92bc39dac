---------------------------- MODULE EmailDomains ----------------------------
(***************************************************************************)
(* The domain from which a website's emails are sent,                      *)
(* pkg/services/emails: it is in a row of the website's and an identity at *)
(* the email provider, which tells whether it is proven, and no            *)
(* transaction spans the two.  And the jobs that send a website's emails.  *)
(*                                                                         *)
(* An address is known by its domain.  The staff and the plan that a       *)
(* request needs, names, DNS records, the emails' texts and those of the   *)
(* platform's own are left out; the two queries with which an update       *)
(* begins are one step, as each is about rows the other doesn't read.      *)
(***************************************************************************)
EXTENDS Naturals, FiniteSets

CONSTANTS
    Websites, Domains, Callers, Mails,
    NoWebsite, NoDomain,
    Platform         \* the domain from which emails are sent without a domain

ASSUME EmailDomainsAssumption ==
    /\ {NoDomain, Platform} \cap Domains = {} /\ NoDomain # Platform
    /\ NoWebsite \notin Websites

VARIABLES
    configuration,  \* configuration[w]: the row of a website
    identity,       \* identity[d]: what the provider knows of a domain
    pending,        \* pending[x]: what the request x has read and is about to do
    removals,       \* jobs that remove the domain of a deleted website
    mail,           \* mail[m]: an email, its job, and whether it was sent and counted
    carried,        \* websites whose domain was changed once it was verified
    torn,           \* websites of which a request failed half way
    overlapped,        \* websites of which a request wrote what was no more
    lost            \* domains that were left at the provider by one of these

emailDomainsVars == <<configuration, identity, pending, removals, mail, carried, torn, overlapped,
                      lost>>

Configuration == [state : {"new", "live", "gone"}, domain : Domains \cup {NoDomain},
                  verified : BOOLEAN]
NoCall == [op |-> "none", website |-> NoWebsite, domain |-> NoDomain, verified |-> FALSE,
           target |-> NoDomain, step |-> "none", touched |-> FALSE, stale |-> FALSE]
NoMail == [kind |-> "none", website |-> NoWebsite, from |-> NoDomain, step |-> "none",
           sent |-> FALSE, counted |-> FALSE, refused |-> FALSE, late |-> FALSE,
           crashed |-> FALSE]

EmailDomainsInit ==
    /\ configuration = [w \in Websites |-> [state |-> "new", domain |-> NoDomain,
                                            verified |-> FALSE]]
    /\ identity = [d \in Domains |-> "absent"]
    /\ pending = [x \in Callers |-> NoCall]
    /\ removals = {}
    /\ mail = [m \in Mails |-> NoMail]
    /\ carried = {} /\ torn = {} /\ overlapped = {} /\ lost = {}

Exists(w) == configuration[w].state = "live"
Having(d) == {w \in Websites : Exists(w) /\ configuration[w].domain = d}

\* ... or had d when they were deleted.
Leaving(d) == {j.website : j \in {r \in removals : r.domain = d}}
Concerned(d) == Having(d) \cup Leaving(d)

\* No request has changed what the provider has, and not yet the row.
Quiet(w) == \A x \in Callers : pending[x].website = w => ~pending[x].touched

Settled(w) == Quiet(w) /\ w \notin carried \cup torn \cup overlapped

\* Who isn't the request x, and is about the website w or wants the domain d.
Affected(x, w, d) ==
    {y \in Callers \ {x} : \/ w \in Websites /\ pending[y].website = w
                           \/ d \in Domains /\ pending[y].target = d}

\* x is now p, and what others have read of w or of the domain d is no more.
Conclude(x, p, w, d) ==
    pending' = [y \in Callers |->
                  IF y = x THEN p
                  ELSE [pending[y] EXCEPT !.stale = @ \/ y \in Affected(x, w, d)]]

Call(x, op, w, target, step) ==
    /\ pending[x].op = "none" /\ Exists(w)
    /\ pending' = [pending EXCEPT ![x] =
                     [op |-> op, website |-> w, domain |-> configuration[w].domain,
                      verified |-> configuration[w].verified, target |-> target, step |-> step,
                      touched |-> FALSE, stale |-> FALSE]]
    /\ UNCHANGED <<configuration, identity, removals, mail, carried, torn, overlapped, lost>>

-----------------------------------------------------------------------------
(* The domain of a website.                                                *)

InitWebsiteConfiguration(w) ==
    /\ configuration[w].state = "new"
    /\ configuration' = [configuration EXCEPT ![w].state = "live"]
    /\ UNCHANGED <<identity, pending, removals, mail, carried, torn, overlapped, lost>>

\* A domain may be asked for that no other website has.
FindWebsiteConfigurationByDomain(d) == Having(d)

UpdateWebsiteConfiguration(x, w, target) ==
    LET domain == configuration[w].domain
        step   == IF domain \notin {NoDomain, target} THEN "remove"
                  ELSE IF target \notin {NoDomain, domain} THEN "add" ELSE "write"
    IN
    /\ target \in {NoDomain, domain} \/ FindWebsiteConfigurationByDomain(target) \subseteq {w}
    /\ Call(x, "update", w, target, step)

\* The provider has no identity of the name to delete, or has one already: an error.
RemoveDomain(x) ==
    LET p == pending[x] IN
    /\ p.step = "remove" /\ identity[p.domain] # "absent"
    /\ identity' = [identity EXCEPT ![p.domain] = "absent"]
    /\ Conclude(x, [p EXCEPT !.step = IF p.target = NoDomain THEN "write" ELSE "add",
                           !.touched = TRUE],
              NoWebsite, IF p.stale THEN p.domain ELSE NoDomain)
    /\ overlapped' = IF p.stale THEN overlapped \cup Concerned(p.domain) \cup {p.website}
                     ELSE overlapped
    /\ UNCHANGED <<configuration, removals, mail, carried, torn, lost>>

AddDomain(x) ==
    LET p == pending[x] IN
    /\ p.step = "add" /\ identity[p.target] = "absent"
    /\ identity' = [identity EXCEPT ![p.target] = "pending"]
    /\ pending' = [pending EXCEPT ![x].step = "write", ![x].touched = TRUE]
    /\ UNCHANGED <<configuration, removals, mail, carried, torn, overlapped, lost>>

VerifyDnsConfiguration(x, w) ==
    /\ configuration[w].domain # NoDomain
    /\ Call(x, "verify", w, configuration[w].domain, "ask")

VerifyDomain(x) ==
    LET p == pending[x] IN
    /\ p.step = "ask" /\ identity[p.domain] # "absent"
    /\ pending' = [pending EXCEPT ![x].step = "write",
                                  ![x].verified = identity[p.domain] = "verified"]
    /\ UNCHANGED <<configuration, identity, removals, mail, carried, torn, overlapped, lost>>

\* Fault: a domain that is given up stays verified.
StillVerified(p) ==
    [state |-> "live", domain |-> p.target, verified |-> p.verified]

\* A new domain is as verified as the old one.
NewRow(p) ==
    [state |-> "live", domain |-> p.target, verified |-> p.verified /\ p.target # NoDomain]

\* The whole row, as it was read; a row that is gone isn't written.
UpdateWebsiteConfigurationRow(x) ==
    LET p == pending[x]
        w == p.website
    IN
    /\ p.step = "write"
    /\ configuration' = IF Exists(w) THEN [configuration EXCEPT ![w] = NewRow(p)]
                        ELSE configuration
    /\ mail' = [m \in Mails |-> [mail[m] EXCEPT !.late = @ \/ mail[m].website = w]]
    /\ carried' = CASE p.op = "update" /\ p.verified /\ p.target \notin {NoDomain, p.domain} ->
                         carried \cup {w}
                    [] p.op = "verify" \/ p.target = NoDomain -> carried \ {w}
                    [] OTHER -> carried
    /\ overlapped' = IF p.stale THEN overlapped \cup {w} \cup Concerned(p.target)
                     ELSE overlapped
    /\ lost' = IF p.stale THEN lost \cup ({configuration[w].domain, p.target} \ {NoDomain})
               ELSE lost
    /\ Conclude(x, NoCall, w, p.target)
    /\ UNCHANGED <<identity, removals, torn>>

\* An error, of the provider or the database, or the server stops.
FailCall(x) ==
    LET p == pending[x] IN
    /\ p.op # "none"
    /\ pending' = [pending EXCEPT ![x] = NoCall]
    /\ torn' = IF p.touched THEN torn \cup {p.website} ELSE torn
    /\ lost' = IF p.touched THEN lost \cup ({p.target} \ {NoDomain}) ELSE lost
    /\ UNCHANGED <<configuration, identity, removals, mail, carried, overlapped>>

\* The owner of a domain proves it, with the records the provider asks for.
ProveDomain(d) ==
    /\ identity[d] = "pending"
    /\ identity' = [identity EXCEPT ![d] = "verified"]
    /\ UNCHANGED <<configuration, pending, removals, mail, carried, torn, overlapped, lost>>

\* In the transaction that deletes the website: the row is read, and then all is written.
RemoveWebsiteConfiguration(x, w) == Call(x, "delete", w, NoDomain, "commit")

\* Fault: the provider keeps the domains of websites that are deleted.
DeleteRowOnly(x) ==
    LET p == pending[x]
        w == p.website
    IN
    /\ p.step = "commit" /\ Exists(w)
    /\ configuration' = [configuration EXCEPT ![w] = [state |-> "gone", domain |-> NoDomain,
                                                      verified |-> FALSE]]
    /\ Conclude(x, NoCall, w, NoDomain)
    /\ UNCHANGED <<identity, removals, mail, carried, torn, overlapped, lost>>

DeleteConfiguration(x) ==
    LET p == pending[x]
        w == p.website
    IN
    /\ p.step = "commit" /\ Exists(w)
    /\ configuration' = [configuration EXCEPT ![w] = [state |-> "gone", domain |-> NoDomain,
                                                      verified |-> FALSE]]
    /\ removals' = IF p.domain = NoDomain THEN removals
                   ELSE removals \cup {[website |-> w, domain |-> p.domain, again |-> FALSE]}
    /\ lost' = IF p.stale THEN lost \cup ({configuration[w].domain} \ {NoDomain}) ELSE lost
    /\ overlapped' = IF p.stale \/ ~Quiet(w) THEN overlapped \cup {w} ELSE overlapped
    /\ mail' = [m \in Mails |-> [mail[m] EXCEPT !.late = @ \/ mail[m].website = w]]
    /\ Conclude(x, NoCall, w, NoDomain)
    /\ UNCHANGED <<identity, carried, torn>>

\* The job may be done and run again, if the worker stops before it says so.
JobDeleteWebsiteConfigurationData(j, done) ==
    /\ identity[j.domain] # "absent"
    /\ identity' = [identity EXCEPT ![j.domain] = "absent"]
    /\ removals' = (removals \ {j}) \cup (IF done THEN {} ELSE {[j EXCEPT !.again = TRUE]})
    /\ LET late == j.again \/ j.website \in torn \cup overlapped IN
       /\ overlapped' = IF late THEN overlapped \cup Concerned(j.domain) ELSE overlapped
       /\ pending' = [x \in Callers |->
                        [pending[x] EXCEPT !.stale = @ \/ (late /\ pending[x].target = j.domain)]]
    /\ UNCHANGED <<configuration, mail, carried, torn, lost>>

GiveUpRemoval(j) ==
    /\ removals' = removals \ {j}
    /\ lost' = lost \cup {j.domain}
    /\ UNCHANGED <<configuration, identity, pending, mail, carried, torn, overlapped>>

-----------------------------------------------------------------------------
(* The emails of a website.                                                *)

GetDefaultFromAddressForWebsite == Platform

From(w) == IF configuration[w].verified THEN configuration[w].domain
           ELSE GetDefaultFromAddressForWebsite

Post(m, w, kind, from) ==
    /\ mail[m].kind = "none" /\ Exists(w)
    /\ mail' = [mail EXCEPT ![m] = [NoMail EXCEPT !.kind = kind, !.website = w, !.from = from,
                                                  !.step = "queued", !.late = ~Settled(w)]]
    /\ UNCHANGED <<configuration, identity, pending, removals, carried, torn, overlapped, lost>>

\* Where the emails come from is decided when the job runs...
PushEmailJob(m, w, kind) == Post(m, w, kind, NoDomain)

\* ... but for those of a newsletter when they are made.
PushEmail(m, w) ==
    configuration[w].verified /\ Post(m, w, "broadcast", configuration[w].domain)

Address(m, kind) ==
    LET w == mail[m].website IN
    /\ mail[m].kind = kind /\ mail[m].step = "queued" /\ Exists(w)
    /\ mail' = [mail EXCEPT ![m].from = From(w), ![m].step = "sending",
                            ![m].refused = FALSE, ![m].late = ~Settled(w)]
    /\ UNCHANGED <<configuration, identity, pending, removals, carried, torn, overlapped, lost>>

JobSendLoginEmail(m)       == Address(m, "login")
JobSendSubscribeEmail(m)   == Address(m, "subscribe")
JobSendVerifyEmailEmail(m) == Address(m, "verify email")

\* Who asks the provider to send for a domain must have proven it.
IsProven(from) == from \in {Platform} \cup {d \in Domains : identity[d] = "verified"}

Outcome(m, sent, counted, crashed, step) ==
    /\ sent => IsProven(mail[m].from)
    /\ mail' = [mail EXCEPT
                  ![m].step = step, ![m].sent = @ \/ sent, ![m].counted = @ \/ counted,
                  ![m].crashed = @ \/ crashed,
                  ![m].refused = @ \/ ~IsProven(mail[m].from),
                  ![m].late = @ \/ ~Settled(mail[m].website)]
    /\ UNCHANGED <<configuration, identity, pending, removals, carried, torn, overlapped, lost>>

\* An email is counted whether it was sent or not, before its job fails or is done.
SendTransactionnal(m) ==
    /\ mail[m].step = "sending"
    /\ \/ Outcome(m, TRUE, TRUE, FALSE, "done")
       \/ Outcome(m, FALSE, TRUE, FALSE, "queued")
       \/ Outcome(m, TRUE, FALSE, TRUE, "queued")

\* Fault: emails that are sent aren't counted.
SendUncounted(m) ==
    /\ mail[m].step = "queued" /\ mail[m].kind = "broadcast"
    /\ \/ Outcome(m, TRUE, FALSE, FALSE, "done")
       \/ Outcome(m, FALSE, FALSE, FALSE, "queued")

\* An address that the provider suppresses is no error, and the email not counted.
JobSendEmail(m) ==
    /\ mail[m].step = "queued" /\ mail[m].kind = "broadcast"
    /\ \/ Outcome(m, TRUE, TRUE, FALSE, "done")
       \/ Outcome(m, FALSE, FALSE, FALSE, "queued")
       \/ IsProven(mail[m].from) /\ Outcome(m, FALSE, FALSE, FALSE, "done")
       \/ Outcome(m, TRUE, FALSE, TRUE, "queued")

GiveUpEmail(m) ==
    /\ mail[m].step = "queued"
    /\ mail' = [mail EXCEPT ![m].step = "done"]
    /\ UNCHANGED <<configuration, identity, pending, removals, carried, torn, overlapped, lost>>

-----------------------------------------------------------------------------
EmailJobs == {"login", "subscribe", "verify email"}

EmailDomainsNext ==
    \/ \E w \in Websites :
         \/ InitWebsiteConfiguration(w)
         \/ \E m \in Mails : PushEmail(m, w) \/ \E kind \in EmailJobs : PushEmailJob(m, w, kind)
    \/ \E x \in Callers, w \in Websites :
         \/ VerifyDnsConfiguration(x, w) \/ RemoveWebsiteConfiguration(x, w)
         \/ \E target \in Domains \cup {NoDomain} : UpdateWebsiteConfiguration(x, w, target)
    \/ \E x \in Callers :
         \/ RemoveDomain(x) \/ AddDomain(x) \/ VerifyDomain(x)
         \/ UpdateWebsiteConfigurationRow(x) \/ DeleteConfiguration(x) \/ FailCall(x)
    \/ \E d \in Domains : ProveDomain(d)
    \/ \E j \in removals :
         \/ GiveUpRemoval(j)
         \/ \E done \in BOOLEAN : JobDeleteWebsiteConfigurationData(j, done)
    \/ \E m \in Mails :
         \/ JobSendLoginEmail(m) \/ JobSendSubscribeEmail(m) \/ JobSendVerifyEmailEmail(m)
         \/ SendTransactionnal(m) \/ JobSendEmail(m) \/ GiveUpEmail(m)

EmailDomainsSpec == EmailDomainsInit /\ [][EmailDomainsNext]_emailDomainsVars

PendingCall ==
    [op : {"none", "update", "verify", "delete"}, website : Websites \cup {NoWebsite},
     domain : Domains \cup {NoDomain}, verified : BOOLEAN, target : Domains \cup {NoDomain},
     step : {"none", "remove", "add", "ask", "write", "commit"},
     touched : BOOLEAN, stale : BOOLEAN]
Mail ==
    [kind : EmailJobs \cup {"none", "broadcast"}, website : Websites \cup {NoWebsite},
     from : Domains \cup {NoDomain, Platform}, step : {"none", "queued", "sending", "done"},
     sent : BOOLEAN, counted : BOOLEAN, refused : BOOLEAN, late : BOOLEAN, crashed : BOOLEAN]

EmailDomainsTypeOK ==
    /\ configuration \in [Websites -> Configuration]
    /\ identity \in [Domains -> {"absent", "pending", "verified"}]
    /\ pending \in [Callers -> PendingCall]
    /\ removals \subseteq [website : Websites, domain : Domains, again : BOOLEAN]
    /\ mail \in [Mails -> Mail]
    /\ carried \subseteq Websites /\ torn \subseteq Websites /\ overlapped \subseteq Websites
    /\ lost \subseteq Domains

DomainsAreKept ==
    \A w \in Websites \ (torn \cup overlapped) :
        Exists(w) /\ Quiet(w) =>
            /\ configuration[w].domain # NoDomain => identity[configuration[w].domain] # "absent"
            /\ configuration[w].verified =>
                 /\ configuration[w].domain # NoDomain
                 /\ w \notin carried => identity[configuration[w].domain] = "verified"

DomainsAreNotShared ==
    \A d \in Domains, w, v \in Websites \ overlapped : {w, v} \subseteq Having(d) => w = v

DomainsAreNotLeft ==
    \A d \in Domains \ lost :
        identity[d] = "absent" \/ Having(d) # {} \/ (\E j \in removals : j.domain = d)
        \/ \E x \in Callers : pending[x].touched /\ pending[x].target = d

MailsAreSentAndCounted ==
    \A m \in Mails :
        /\ mail[m].sent /\ mail[m].step = "done" => mail[m].counted \/ mail[m].crashed
        /\ mail[m].refused => mail[m].late

(***************************************************************************)
(* A website that sends from its own domain has it at the provider, where  *)
(* it is proven if the website says so; no two websites have the same, and *)
(* the provider has none that nobody has, and nobody can therefore take.   *)
(* So an email is refused only if the domain changed once it was made; one *)
(* that is sent is counted.  Unless a request failed half way or wrote     *)
(* what had changed; and a domain that takes the place of a proven one is  *)
(* taken as proven until it is asked for.                                  *)
(***************************************************************************)
MailDomainsAreKept ==
    DomainsAreKept /\ DomainsAreNotShared /\ DomainsAreNotLeft /\ MailsAreSentAndCounted

(* The inductive invariant behind it.                                      *)

\* What a request has read of its website is there still, and nobody has the
\* domain it wants, unless somebody has written since, which made it stale.
ReadIsCurrent(x) ==
    LET p == pending[x] IN
    p.op # "none" /\ ~p.stale =>
        /\ Exists(p.website) /\ configuration[p.website].domain = p.domain
        /\ p.op = "update" => configuration[p.website].verified = p.verified
        /\ p.target \in Domains \ {p.domain} => Having(p.target) = {}

\* Where it is with that: what it has asked of the provider before it writes.
StepIsSound(x) ==
    LET p == pending[x] IN
    /\ IF p.op = "none" THEN p.step = "none" /\ ~p.touched ELSE p.website \in Websites
    /\ p.op = "verify" => p.step \in {"ask", "write"} /\ p.target = p.domain /\ p.domain # NoDomain
    /\ p.op = "delete" => p.step = "commit" /\ p.target = NoDomain
    /\ p.op = "update" => p.step \in {"remove", "add", "write"}
    /\ p.step = "remove" => p.domain # NoDomain /\ p.target # p.domain /\ ~p.touched
    /\ p.step = "add" => p.target # NoDomain /\ p.target # p.domain /\ (p.domain = NoDomain \/ p.touched)
    /\ p.step = "write" => p.touched \/ p.target = p.domain
    /\ p.touched => p.op = "update" /\ p.target # p.domain

\* The provider has the domain that is going to be written, has proven it if that
\* is what will be written, and has no more the one that will be given up.
CallIsKept(x) ==
    LET p == pending[x]
        w == p.website
    IN
    p.step = "write" /\ ~p.stale =>
        /\ p.op = "update" /\ p.target \in Domains \ {p.domain} => identity[p.target] # "absent"
        /\ p.op = "verify" /\ p.verified /\ Quiet(w) /\ w \notin torn \cup overlapped =>
             identity[p.domain] = "verified"

Adding(d) == \E x \in Callers : pending[x].touched /\ pending[x].target = d

OldIsGone(x) ==
    LET p == pending[x] IN
    p.touched /\ ~p.stale /\ p.domain # NoDomain =>
        identity[p.domain] = "absent" \/ p.domain \in lost \/ Adding(p.domain)

\* The job of a website that was deleted at the right time removes a domain that
\* nobody else has, or is about to have.
RemovalIsDue(j) ==
    ~j.again /\ j.website \notin torn \cup overlapped =>
        /\ identity[j.domain] # "absent" /\ Having(j.domain) = {}
        /\ \A x \in Callers : pending[x].step = "write" /\ ~pending[x].stale =>
                pending[x].target # j.domain
        /\ \A i \in removals : i.domain = j.domain /\ ~i.again
                /\ i.website \notin torn \cup overlapped => i = j

\* Who shares a domain are both known to have overlapped.
SharingIsKnown ==
    \A w, v \in Websites :
        w # v /\ Exists(w) /\ Exists(v) /\ configuration[w].domain = configuration[v].domain
        /\ configuration[w].domain # NoDomain => w \in overlapped

RowsAreBlank ==
    \A w \in Websites :
        ~Exists(w) => configuration[w].domain = NoDomain /\ ~configuration[w].verified

\* An email that isn't late goes out from the domain its website has now.
MailIsFromIts(m) ==
    /\ mail[m].sent => mail[m].counted \/ mail[m].crashed
    /\ mail[m].refused => mail[m].late
    /\ IF mail[m].kind = "none" THEN mail[m].step = "none" ELSE mail[m].website \in Websites
    /\ (mail[m].step = "sending" \/ mail[m].kind = "broadcast") /\ ~mail[m].late =>
         LET w == mail[m].website IN
         \/ mail[m].from = Platform
         \/ /\ Exists(w) /\ configuration[w].verified
            /\ configuration[w].domain = mail[m].from

EmailDomainsInv ==
    /\ EmailDomainsTypeOK
    /\ \A x \in Callers : ReadIsCurrent(x) /\ StepIsSound(x) /\ CallIsKept(x) /\ OldIsGone(x)
    /\ \A j \in removals : RemovalIsDue(j)
    /\ RowsAreBlank /\ SharingIsKnown /\ DomainsAreKept /\ DomainsAreNotLeft
    /\ \A m \in Mails : MailIsFromIts(m)
=============================================================================
