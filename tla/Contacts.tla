------------------------------ MODULE Contacts ------------------------------
(***************************************************************************)
(* The contacts of a website and their sessions: pkg/services/contacts and *)
(* the handlers of pkg/services/site through which visitors subscribe, log *)
(* in and change their account.                                            *)
(*                                                                         *)
(* Each request reads a contact without a lock and writes the whole row    *)
(* back, so that a request in flight may undo what others did meanwhile.   *)
(* request[x] is what the request x has read, and the row it will write.   *)
(*                                                                         *)
(* A code or a link stands for the mailbox to which it was sent, and who   *)
(* presents it has shown to read that mailbox.  Left out: names, countries *)
(* and addresses, the orders that keep a contact from being deleted, and   *)
(* the times after which codes expire: a request may always fail.          *)
(***************************************************************************)
EXTENDS Naturals, FiniteSets

CONSTANTS
    ContactIDs, Emails, Requests,
    SessionIDs,         \* numbers, in the order in which they are given
    LoginMaxAttempts,   \* site.LoginMaxAttempts
    SignupMaxAttempts,  \* site.SignupMaxAttempts
    MaxSessions,        \* how many older sessions a login leaves
    MaxGuesses,         \* bound: wrong codes that are counted
    NoContact, NoSession, NoEmail

ASSUME ContactsAssumption ==
    /\ SessionIDs \subseteq Nat \ {0}
    /\ {LoginMaxAttempts, SignupMaxAttempts, MaxSessions, MaxGuesses} \subseteq Nat
    /\ NoContact \notin ContactIDs /\ NoEmail \notin Emails /\ NoSession = 0

VARIABLES
    contact,      \* contact[c]: the row
    session,      \* session[s]: the row
    request,      \* request[x]: what the request x is about
    links,        \* links that were mailed to change an email
    proven,       \* proven[c]: emails shown to be the contact's, paid with, or staff's word
    guesses,      \* guesses[s]: wrong codes for a session
    guessed,      \* guessed[c]: wrong codes for a signup code
    overwritten,  \* contacts a request wrote back over another's changes
    raced,        \* sessions, likewise
    letIn         \* sessions made by requests that no check could refuse

contactsVars == <<contact, session, request, links, proven, guesses, guessed,
                  overwritten, raced, letIn>>

Contact ==
    [state : {"new", "live", "gone"}, email : Emails \cup {NoEmail}, verified : BOOLEAN,
     blocked : BOOLEAN, subscribed : BOOLEAN,
     code : Emails \cup {NoEmail},   \* the mailbox that has the signup code
     tries : 0 .. SignupMaxAttempts] \* failed_signup_attempts

Session ==
    [state : {"new", "live", "gone"}, contact : ContactIDs \cup {NoContact},
     verified : BOOLEAN, code : Emails \cup {NoEmail}, tries : 0 .. LoginMaxAttempts]

NoRow == [state |-> "new", email |-> NoEmail, verified |-> FALSE, blocked |-> FALSE,
          subscribed |-> FALSE, code |-> NoEmail, tries |-> 0]

Idle == [op |-> "none", contact |-> NoContact, row |-> NoRow, session |-> NoSession,
         attempt |-> 0, email |-> NoEmail, stale |-> FALSE]

ContactsInit ==
    /\ contact = [c \in ContactIDs |-> NoRow]
    /\ session = [s \in SessionIDs |-> [state |-> "new", contact |-> NoContact,
                                        verified |-> FALSE, code |-> NoEmail, tries |-> 0]]
    /\ request = [x \in Requests |-> Idle]
    /\ links = {} /\ proven = [c \in ContactIDs |-> {}]
    /\ guesses = [s \in SessionIDs |-> 0] /\ guessed = [c \in ContactIDs |-> 0]
    /\ overwritten = {} /\ raced = {} /\ letIn = {}

Live(c) == contact[c].state = "live"
With(e) == {c \in ContactIDs : Live(c) /\ contact[c].email = e}

\* CurrentContact: the token of a verified session.
LoggedIn(s) == session[s].state = "live" /\ session[s].verified

\* IDs are given in order.
Upcoming(s) == session[s].state = "new" /\ \A r \in SessionIDs : session[r].state = "new" => s <= r

proofVars == <<links, proven, guesses, guessed>>
raceVars == <<overwritten, raced, letIn>>

Begin(x, r) ==
    /\ request[x].op = "none"
    /\ request' = [request EXCEPT ![x] = r]

\* The request x is over.  A write of its makes stale what others have read.
End(x, cs, ss) ==
    request' = [y \in Requests |->
        IF y = x THEN Idle
        ELSE [request[y] EXCEPT !.stale =
                  \/ @ \/ request[y].contact \in cs
                  \/ request[y].op = "fail attempt" /\ request[y].session \in ss]]

Insert(c, row) == [Idle EXCEPT !.op = "create", !.contact = c,
                               !.row = [row EXCEPT !.state = "live"]]
Update(op, c, row) == [Idle EXCEPT !.op = op, !.contact = c, !.row = row]

Unused(c) == contact[c].state = "new" /\ \A y \in Requests : request[y].contact # c

-----------------------------------------------------------------------------
(* What a visitor does: the code is read, and a session or a row written.  *)

\* Fault: a contact that is blocked isn't refused.
LoginUnchecked(x, c) ==
    /\ Live(c)
    /\ Begin(x, [Update("login", c, [NoRow EXCEPT !.blocked = contact[c].blocked])
                 EXCEPT !.email = contact[c].email])
    /\ UNCHANGED <<contact, session, proofVars, raceVars>>

Login(x, c) ==
    /\ Live(c) /\ ~contact[c].blocked
    /\ Begin(x, [Update("login", c, [NoRow EXCEPT !.blocked = contact[c].blocked])
                 EXCEPT !.email = contact[c].email])
    /\ UNCHANGED <<contact, session, proofVars, raceVars>>

\* The code is mailed to the address that was read.
CreateSession(x, s) ==
    LET r == request[x] IN
    /\ r.op = "login" /\ Live(r.contact) /\ Upcoming(s)
    /\ session' = [session EXCEPT ![s] = [state |-> "live", contact |-> r.contact,
                                          verified |-> FALSE, code |-> r.email, tries |-> 0]]
    /\ letIn' = IF contact[r.contact].blocked /\ ~r.row.blocked THEN letIn \cup {s} ELSE letIn
    /\ End(x, {}, {})
    /\ UNCHANGED <<contact, proofVars, overwritten, raced>>

\* Fault: one code too many.
MayTryAgain(s) ==
    /\ session[s].state = "live" /\ ~session[s].verified
    /\ session[s].tries <= LoginMaxAttempts

\* CompleteLogin checks the session first,
MayTry(s) ==
    /\ session[s].state = "live" /\ ~session[s].verified
    /\ session[s].tries < LoginMaxAttempts

\* then the code: one that is wrong
WrongLoginCode(x, s) ==
    /\ MayTry(s) /\ guesses[s] < MaxGuesses
    /\ Begin(x, [Idle EXCEPT !.op = "fail attempt", !.session = s,
                             !.attempt = session[s].tries + 1])
    /\ UNCHANGED <<contact, session, proofVars, raceVars>>

\* Fault: the attempt isn't saved.
ForgetLoginAttempt(x) ==
    LET s == request[x].session IN
    /\ request[x].op = "fail attempt"
    /\ guesses' = [guesses EXCEPT ![s] = @ + 1]
    /\ raced' = IF request[x].stale THEN raced \cup {s} ELSE raced
    /\ End(x, {}, {})
    /\ UNCHANGED <<contact, session, links, proven, guessed, overwritten, letIn>>

\* is counted, in the whole row of a session that wasn't verified,
FailSessionLoginAttempt(x) ==
    LET s == request[x].session IN
    /\ request[x].op = "fail attempt"
    /\ IF session[s].state = "live"
       THEN session' = [session EXCEPT ![s].tries = request[x].attempt, ![s].verified = FALSE]
       ELSE UNCHANGED session
    /\ guesses' = [guesses EXCEPT ![s] = @ + 1]
    /\ raced' = IF request[x].stale THEN raced \cup {s} ELSE raced
    /\ End(x, {}, {s})
    /\ UNCHANGED <<contact, links, proven, guessed, overwritten, letIn>>

\* one that is right shows who has the mailbox, and the contact is read,
RightLoginCode(x, s) ==
    /\ MayTry(s)
    /\ Begin(x, [Idle EXCEPT !.op = "right code", !.session = s, !.attempt = session[s].tries])
    /\ proven' = [proven EXCEPT ![session[s].contact] = @ \cup {session[s].code}]
    /\ UNCHANGED <<contact, session, links, guesses, guessed, raceVars>>

FindContact(x) ==
    LET c == session[request[x].session].contact IN
    /\ request[x].op = "right code" /\ Live(c)
    /\ request' = [request EXCEPT ![x].op = "complete login", ![x].contact = c,
                                  ![x].row = [contact[c] EXCEPT !.verified = TRUE]]
    /\ UNCHANGED <<contact, session, proofVars, raceVars>>

-----------------------------------------------------------------------------
(* Rows that are made, and rows that are changed: the requests that read.  *)

Subscribe(x, e, c) ==
    /\ IF With(e) = {}
       THEN /\ Unused(c)
            /\ Begin(x, Insert(c, [NoRow EXCEPT !.email = e, !.subscribed = TRUE, !.code = e]))
       ELSE /\ c \in With(e) /\ ~contact[c].verified
            /\ Begin(x, Update("subscribe", c,
                               [contact[c] EXCEPT !.subscribed = TRUE, !.tries = 0, !.code = e]))
    /\ UNCHANGED <<contact, session, proofVars, raceVars>>

MayConfirm(c) ==
    Live(c) /\ ~contact[c].verified /\ contact[c].tries < SignupMaxAttempts

\* A contact without a code has no right one.
WrongSignupCode(x, c) ==
    /\ MayConfirm(c) /\ guessed[c] < MaxGuesses
    /\ Begin(x, Update("wrong code", c, [contact[c] EXCEPT !.tries = @ + 1]))
    /\ UNCHANGED <<contact, session, proofVars, raceVars>>

RightSignupCode(x, c) ==
    /\ MayConfirm(c) /\ contact[c].code # NoEmail
    /\ Begin(x, Update("complete subscription", c,
                       [contact[c] EXCEPT !.subscribed = TRUE, !.tries = 0, !.code = NoEmail,
                                          !.verified = TRUE]))
    /\ proven' = [proven EXCEPT ![c] = @ \cup {contact[c].code}]
    /\ UNCHANGED <<contact, session, links, guesses, guessed, raceVars>>

Unsubscribe(x, c) ==
    /\ Live(c) /\ contact[c].subscribed
    /\ Begin(x, Update("update", c, [contact[c] EXCEPT !.subscribed = FALSE]))
    /\ UNCHANGED <<contact, session, proofVars, raceVars>>

\* An email that isn't taken is asked for with a link, which is mailed to it.
UpdateMyAccount(x, s, subscribed, e) ==
    LET c == session[s].contact IN
    /\ LoggedIn(s)
    /\ e \in Emails => With(e) = {}
    /\ Begin(x, [Update("update", c, [contact[c] EXCEPT !.subscribed = subscribed])
                 EXCEPT !.email = e])
    /\ UNCHANGED <<contact, session, proofVars, raceVars>>

VerifyEmail(x, s, link) ==
    LET c == session[s].contact IN
    /\ LoggedIn(s) /\ link \in links
    /\ link.contact = c /\ link.old = contact[c].email
    /\ Begin(x, Update("update", c, [contact[c] EXCEPT !.email = link.new]))
    /\ proven' = [proven EXCEPT ![c] = @ \cup {link.new}]
    /\ UNCHANGED <<contact, session, links, guesses, guessed, raceVars>>

\* Staff vouch for the address.
CreateContact(x, e, c) ==
    /\ With(e) = {} /\ Unused(c)
    /\ Begin(x, Insert(c, [NoRow EXCEPT !.email = e, !.verified = TRUE]))
    /\ proven' = [proven EXCEPT ![c] = @ \cup {e}]
    /\ UNCHANGED <<contact, session, links, guesses, guessed, raceVars>>

UpdateContact(x, c, e, subscribed) ==
    /\ Live(c)
    /\ Begin(x, Update("update", c, [contact[c] EXCEPT !.email = e, !.subscribed = subscribed]))
    /\ proven' = [proven EXCEPT ![c] = @ \cup {e}]
    /\ UNCHANGED <<contact, session, links, guesses, guessed, raceVars>>

\* A contact of the file, each in its turn: one who exists is verified and has the
\* file's subscription, unless verified and unsubscribed here as there.
ImportContacts(x, e, subscribed, c) ==
    /\ IF With(e) = {}
       THEN /\ Unused(c)
            /\ Begin(x, Insert(c, [NoRow EXCEPT !.email = e, !.verified = TRUE,
                                                !.subscribed = subscribed]))
       ELSE /\ c \in With(e) /\ (~contact[c].verified \/ contact[c].subscribed \/ subscribed)
            /\ Begin(x, Update("update", c, [contact[c] EXCEPT !.verified = TRUE, !.tries = 0,
                                                               !.subscribed = subscribed]))
    /\ proven' = [proven EXCEPT ![c] = @ \cup {e}]
    /\ UNCHANGED <<contact, session, links, guesses, guessed, raceVars>>

\* For an order: nobody has shown to read the mailbox.
FindOrCreateContact(x, e, subscribed, c) ==
    /\ With(e) = {} /\ Unused(c)
    /\ Begin(x, Insert(c, [NoRow EXCEPT !.email = e, !.subscribed = subscribed]))
    /\ UNCHANGED <<contact, session, proofVars, raceVars>>

\* completeOrder, between its reading of the contact and Stripe's answer that the order
\* is paid: payment is taken for a proof.  Anybody may order with a contact's email.
CompleteOrder(x, c) ==
    /\ Live(c)
    /\ Begin(x, Update("update", c, [contact[c] EXCEPT !.verified = TRUE]))
    /\ proven' = [proven EXCEPT ![c] = @ \cup {contact[c].email}]
    /\ UNCHANGED <<contact, session, links, guesses, guessed, raceVars>>

BlockContact(x, c) ==
    /\ Live(c) /\ ~contact[c].blocked
    /\ Begin(x, Update("block", c, [contact[c] EXCEPT !.blocked = TRUE]))
    /\ UNCHANGED <<contact, session, proofVars, raceVars>>

UnblockContact(x, c) ==
    /\ Live(c) /\ contact[c].blocked
    /\ Begin(x, Update("update", c, [contact[c] EXCEPT !.blocked = FALSE]))
    /\ UNCHANGED <<contact, session, proofVars, raceVars>>

-----------------------------------------------------------------------------
(* What they write.                                                        *)

\* The whole row, if it is still there; no two contacts have the same email.
Save(r) ==
    /\ With(r.row.email) \subseteq {r.contact}
    /\ contact' = [contact EXCEPT ![r.contact] = IF Live(r.contact) THEN r.row ELSE @]
    /\ overwritten' = IF r.stale THEN overwritten \cup {r.contact} ELSE overwritten

Without(ss) == [s \in SessionIDs |-> IF s \in ss THEN [session[s] EXCEPT !.state = "gone"]
                                     ELSE session[s]]
SessionsOf(c) == {s \in SessionIDs : session[s].state = "live" /\ session[s].contact = c}

\* The verified sessions of a contact but the newest ones.
Older(c) ==
    LET valid == {s \in SessionsOf(c) : session[s].verified} IN
    {s \in valid : Cardinality({t \in valid : t > s}) >= MaxSessions}

CreateContactInternal(x) ==
    LET r == request[x] IN
    /\ r.op = "create" /\ With(r.row.email) = {}
    /\ contact' = [contact EXCEPT ![r.contact] = r.row]
    /\ End(x, {}, {})
    /\ UNCHANGED <<session, proofVars, raceVars>>

\* Fault: an account's new email is saved at once.
UpdateEmailAtOnce(x) ==
    LET r == request[x] IN
    /\ r.op \in {"update", "subscribe", "wrong code"}
    /\ Save([r EXCEPT !.row.email = IF r.email = NoEmail THEN @ ELSE r.email])
    /\ End(x, {r.contact}, {})
    /\ UNCHANGED <<session, links, proven, guesses, guessed, raced, letIn>>

\* A new signup code is tried anew, and a wrong one is counted.
UpdateContactInternal(x) ==
    LET r == request[x] IN
    /\ r.op \in {"update", "subscribe", "wrong code"} /\ Save(r)
    /\ links' = IF r.email = NoEmail THEN links
                ELSE links \cup {[contact |-> r.contact, old |-> r.row.email, new |-> r.email]}
    /\ guessed' = [guessed EXCEPT ![r.contact] = CASE r.op = "subscribe"  -> 0
                                                   [] r.op = "wrong code" -> @ + 1
                                                   [] OTHER               -> @]
    /\ End(x, {r.contact}, {})
    /\ UNCHANGED <<session, proven, guesses, raced, letIn>>

\* Fault: the sessions are kept.
BlockOnly(x) ==
    LET r == request[x] IN
    /\ r.op = "block" /\ Save(r)
    /\ End(x, {r.contact}, {})
    /\ UNCHANGED <<session, proofVars, raced, letIn>>

\* In one transaction.
Block(x) ==
    LET r == request[x] IN
    /\ r.op = "block" /\ Save(r)
    /\ session' = Without(SessionsOf(r.contact))
    /\ End(x, {r.contact}, SessionsOf(r.contact))
    /\ UNCHANGED <<proofVars, raced, letIn>>

\* In one transaction.  Whether the contact is blocked isn't looked at.
CompleteSubscription(x, s) ==
    LET r == request[x] IN
    /\ r.op = "complete subscription" /\ Live(r.contact) /\ Upcoming(s) /\ Save(r)
    /\ session' = [session EXCEPT ![s] = [state |-> "live", contact |-> r.contact,
                                          verified |-> TRUE, code |-> NoEmail, tries |-> 0]]
    /\ letIn' = IF r.row.blocked THEN letIn \cup {s} ELSE letIn
    /\ End(x, {r.contact}, {})
    /\ UNCHANGED <<proofVars, raced>>

\* In one transaction: older sessions are deleted and the session, if it is still
\* there, is verified.
CompleteLogin(x) ==
    LET r     == request[x]
        older == Older(r.contact)
    IN
    /\ r.op = "complete login" /\ Save(r)
    /\ session' = [s \in SessionIDs |->
                     IF s = r.session /\ session[s].state = "live" /\ s \notin older
                     THEN [session[s] EXCEPT !.verified = TRUE, !.code = NoEmail,
                                             !.tries = r.attempt]
                     ELSE Without(older)[s]]
    /\ End(x, {r.contact}, older \cup {r.session})
    /\ UNCHANGED <<proofVars, raced, letIn>>

\* A contact's own wish, or staff's.
DeleteContact(c) ==
    /\ Live(c)
    /\ contact' = [contact EXCEPT ![c] = [NoRow EXCEPT !.state = "gone"]]
    /\ session' = Without(SessionsOf(c))
    /\ UNCHANGED <<request, proofVars, raceVars>>

DeleteMyAccount(s) == LoggedIn(s) /\ DeleteContact(session[s].contact)

Logout(s) ==
    /\ LoggedIn(s)
    /\ session' = Without({s})
    /\ UNCHANGED <<contact, request, proofVars, raceVars>>

\* The sessions up to s are older than six hours.
JobDeleteOldUnverifiedSessions(s) ==
    /\ \E r \in SessionIDs : r <= s /\ session[r].state = "live" /\ ~session[r].verified
    /\ session' = Without({r \in SessionIDs : r <= s /\ session[r].state = "live"
                                              /\ ~session[r].verified})
    /\ UNCHANGED <<contact, request, proofVars, raceVars>>

\* The email provider has given up an address.  The row is locked meanwhile.
HandleEmailSuppression(c) ==
    /\ Live(c) /\ contact[c].subscribed
    /\ contact' = [contact EXCEPT ![c].subscribed = FALSE]
    /\ request' = [y \in Requests |-> [request[y] EXCEPT !.stale = @ \/ request[y].contact = c]]
    /\ UNCHANGED <<session, proofVars, raceVars>>

\* The database, or the server, fails; or a code has expired.
Fail(x) ==
    /\ request[x].op # "none"
    /\ End(x, {}, {})
    /\ UNCHANGED <<contact, session, proofVars, raceVars>>

-----------------------------------------------------------------------------
Free == {x \in Requests : request[x].op = "none"}

ContactsNext ==
    \/ \E x \in Free, c \in ContactIDs :
         \/ Login(x, c) \/ WrongSignupCode(x, c) \/ RightSignupCode(x, c)
         \/ Unsubscribe(x, c) \/ BlockContact(x, c) \/ UnblockContact(x, c)
         \/ CompleteOrder(x, c)
         \/ \E e \in Emails :
              \/ Subscribe(x, e, c) \/ CreateContact(x, e, c)
              \/ \E subscribed \in BOOLEAN :
                   \/ UpdateContact(x, c, e, subscribed)
                   \/ ImportContacts(x, e, subscribed, c)
                   \/ FindOrCreateContact(x, e, subscribed, c)
    \/ \E x \in Free, s \in SessionIDs :
         \/ WrongLoginCode(x, s) \/ RightLoginCode(x, s)
         \/ \E link \in links : VerifyEmail(x, s, link)
         \/ \E e \in Emails \cup {NoEmail}, subscribed \in BOOLEAN :
              UpdateMyAccount(x, s, subscribed, e)
    \/ \E x \in Requests \ Free :
         \/ \E s \in SessionIDs : CreateSession(x, s) \/ CompleteSubscription(x, s)
         \/ FailSessionLoginAttempt(x) \/ FindContact(x) \/ CreateContactInternal(x)
         \/ UpdateContactInternal(x) \/ Block(x) \/ CompleteLogin(x) \/ Fail(x)
    \/ \E c \in ContactIDs : DeleteContact(c) \/ HandleEmailSuppression(c)
    \/ \E s \in SessionIDs : DeleteMyAccount(s) \/ Logout(s)
                               \/ JobDeleteOldUnverifiedSessions(s)

ContactsSpec == ContactsInit /\ [][ContactsNext]_contactsVars

Operations == {"none", "create", "login", "fail attempt", "right code", "complete login",
               "subscribe", "wrong code", "complete subscription", "update", "block"}

ContactsTypeOK ==
    /\ contact \in [ContactIDs -> Contact]
    /\ session \in [SessionIDs -> Session]
    /\ request \in [Requests ->
         [op : Operations, contact : ContactIDs \cup {NoContact}, row : Contact,
          session : SessionIDs \cup {NoSession}, attempt : 0 .. LoginMaxAttempts,
          email : Emails \cup {NoEmail}, stale : BOOLEAN]]
    /\ links \subseteq [contact : ContactIDs, old : Emails, new : Emails]
    /\ proven \in [ContactIDs -> SUBSET (Emails \cup {NoEmail})]
    /\ guesses \in [SessionIDs -> Nat] /\ guessed \in [ContactIDs -> Nat]
    /\ overwritten \subseteq ContactIDs /\ raced \subseteq SessionIDs /\ letIn \subseteq SessionIDs

(***************************************************************************)
(* A contact that staff have blocked is logged in nowhere: the sessions it *)
(* had are gone, those it was asking for too, and it gets no other.        *)
(* Except: a request of the visitor's that had read the contact before is  *)
(* let in, and so is a subscription, for which nothing looks at the block. *)
(***************************************************************************)
BlockedIsOut ==
    \A c \in ContactIDs, s \in SessionIDs :
        Live(c) /\ contact[c].blocked /\ session[s].contact = c /\ LoggedIn(s)
            => s \in letIn \/ c \in overwritten

(***************************************************************************)
(* Whoever is taken for the owner of an address, and gets its newsletters, *)
(* its orders and its account, has shown to read its mailbox, has staff    *)
(* vouch for it or has paid for an order with it: through subscriptions,   *)
(* logins, orders and changes of the address, one for the other, unless a  *)
(* request wrote an older row back.                                        *)
(***************************************************************************)
VerifiedIsProven ==
    \A c \in ContactIDs :
        Live(c) /\ contact[c].verified => contact[c].email \in proven[c] \/ c \in overwritten

(***************************************************************************)
(* A code can't be guessed: whatever else happens to the row that counts,  *)
(* a session and a signup code are refused after so many wrong codes,      *)
(* unless attempts overlapped and were counted as one.                     *)
(***************************************************************************)
TriesAreCounted ==
    /\ \A s \in SessionIDs : guesses[s] <= LoginMaxAttempts \/ s \in raced
    /\ \A c \in ContactIDs : guessed[c] <= SignupMaxAttempts \/ c \in overwritten

(***************************************************************************)
(* An account that staff have blocked is locked until they unblock it, as  *)
(* the error of Login says: nobody gets a session of it.  The code refuses *)
(* in Login only, so that a blocked contact with a signup code completes   *)
(* its subscription and is logged in.                                      *)
(***************************************************************************)
BlockedIsLocked ==
    \A s \in SessionIDs : LoggedIn(s) => ~contact[session[s].contact].blocked
=============================================================================
