------------------------------ MODULE MCPeople ------------------------------
(***************************************************************************)
(* Instances of Contacts, RateLimiter, Organizations and EmailDomains for  *)
(* TLC: a run checks them one after the other, and each in small           *)
(* instances, of which the initial state chooses one.                      *)
(***************************************************************************)
EXTENDS Contacts, RateLimiter, Organizations, EmailDomains, TLC

CONSTANTS c1, c2, e1, x1, w1, d1, k1

VARIABLE instance

ContactsInstances      == {"logins", "subscriptions", "addresses", "one at a time"}
OrganizationsInstances == {"staff", "websites"}
EmailDomainsInstances  == {"one caller", "two callers", "deletions", "emails"}

Busy == {x \in Requests : request'[x].op # "none"}
OneContact == contact'[c2].state = "new" /\ \A x \in Requests : request'[x].contact # c2
OneSession == \A s \in SessionIDs : s # 1 => session'[s].state = "new"
OneAddress == \A x \in Requests : request'[x].row.email # NoEmail => request'[x].row.email = e1
NoLinks == links' = {} /\ \A x \in Requests : request'[x].email \in {NoEmail, e1}

\* The only updates of a contact are unblockings.
OnlyUnblocked ==
    \A x \in Busy : request'[x].op = "update" =>
        request'[x].row = [contact[request'[x].contact] EXCEPT !.blocked = FALSE]
        \/ request'[x] = request[x] \/ request[x].op = "update"

ContactsWithin ==
    CASE instance = "logins" ->
            /\ OneContact /\ OneAddress /\ NoLinks /\ OnlyUnblocked
            /\ \A x \in Busy : request'[x].op \notin {"subscribe", "wrong code",
                                                      "complete subscription"}
            /\ \A x \in Requests : ~request'[x].row.subscribed
            /\ contact'[c1].state # "gone" /\ (overwritten' = {} \/ raced' = {})
      [] instance = "subscriptions" ->
            /\ OneContact /\ OneSession /\ OneAddress /\ NoLinks /\ OnlyUnblocked
            /\ \A x \in Busy : request'[x].op # "login"
      [] instance = "addresses" ->
            /\ OneContact /\ OneSession
            /\ \A x \in Busy : request'[x].op \notin {"block", "fail attempt", "wrong code"}
            /\ \A x \in Requests : ~request'[x].row.subscribed
      [] instance = "one at a time" ->
            /\ Busy \subseteq {x1} /\ OneSession /\ Cardinality(links') <= 1
            /\ \A x \in Busy : request'[x].op \notin {"block", "fail attempt", "wrong code",
                                                      "login"}
            /\ \A x \in Busy : request'[x].op \in {"create", "update"} => request'[x].row.subscribed
            /\ \A c \in ContactIDs :
                 /\ contact'[c].state # "gone"
                 /\ contact'[c].subscribed = (contact'[c].state = "live")

OrganizationsWithin ==
    CASE instance = "staff" ->
            /\ \A x \in Actors : acting'[x].op \notin {"website", "key", "delete"}
            /\ \A o \in OrganizationIDs : /\ organization'[o].paid = (organization'[o].slots > 0)
                                           /\ organization'[o].slots >= organization[o].slots
                                           /\ o \notin relaxed' \cap crossed'
      [] instance = "websites" -> \A x \in Actors : acting'[x].op # "invite"

NoMails   == UNCHANGED mail
OneCaller == \A x \in Callers \ {k1} : pending'[x].op = "none"
NoFaults  == torn \cup overlapped \cup lost = {}

EmailDomainsWithin ==
    CASE instance = "one caller" -> NoMails /\ OneCaller
      [] instance = "two callers" ->
            NoMails /\ NoFaults /\ \A w \in Websites : configuration'[w].state # "gone"
      [] instance = "deletions" ->
            NoMails /\ NoFaults /\ \A x \in Callers : pending'[x].target # d1
      [] instance = "emails" ->
            OneCaller /\ \A w \in Websites \ {w1} : configuration'[w].state = "new"

Symmetry == Permutations(Users)

MCInit ==
    /\ ContactsInit /\ LimiterInit /\ OrganizationsInit /\ EmailDomainsInit
    /\ instance \in ContactsInstances \cup OrganizationsInstances \cup EmailDomainsInstances
                    \cup {"limiter"}

MCNext ==
    /\ UNCHANGED instance
    /\ \/ instance \in ContactsInstances /\ ContactsNext /\ ContactsWithin
          /\ UNCHANGED <<limiterVars, organizationsVars, emailDomainsVars>>
       \/ instance \in OrganizationsInstances /\ OrganizationsNext /\ OrganizationsWithin
          /\ UNCHANGED <<contactsVars, limiterVars, emailDomainsVars>>
       \/ instance \in EmailDomainsInstances /\ EmailDomainsNext /\ EmailDomainsWithin
          /\ UNCHANGED <<contactsVars, limiterVars, organizationsVars>>
       \/ instance = "limiter" /\ LimiterNext
          /\ UNCHANGED <<contactsVars, organizationsVars, emailDomainsVars>>

MCSpec ==
    MCInit /\ [][MCNext]_<<contactsVars, limiterVars, organizationsVars, emailDomainsVars, instance>>

PeopleTypeOK == ContactsTypeOK /\ LimiterTypeOK /\ OrganizationsTypeOK /\ EmailDomainsTypeOK

\* Neither can a code be guessed, nor a form be sent again and again: what a row counts,
\* and what is counted in memory, is at most what is allowed.
AttemptsAreLimited == TriesAreCounted /\ RequestsAreLimited
=============================================================================
