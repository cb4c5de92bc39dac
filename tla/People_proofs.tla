---------------------------- MODULE People_proofs ----------------------------
(***************************************************************************)
(* Proofs about Contacts, for any number of contacts, sessions and         *)
(* requests at a time and every limit, about RateLimiter, for any number   *)
(* of visitors and calls, every period and every limit, about              *)
(* EmailDomains, for any sets of websites, domains, requests and emails,   *)
(* and about all that the run of MCPeople checks together.                 *)
(***************************************************************************)
EXTENDS MCPeople, Organizations_proofs

-----------------------------------------------------------------------------
(***************************************************************************)
(* Contacts.                                                               *)
(*                                                                         *)
(* A request writes the whole row it has read.  What makes that right is   *)
(* that every write marks the requests that have read the row: one that    *)
(* isn't marked writes the row that is there, but for its own change, and  *)
(* one that is marked puts the contact among those that were overwritten.  *)
(***************************************************************************)
\* What a row says of a contact is shown: it is verified, and a code was mailed to it.
RowIsProven(c, row) ==
    /\ row.verified => row.email \in proven[c] \/ c \in overwritten
    /\ row.code # NoEmail => row.code = row.email \/ row.email \in proven[c] \/ c \in overwritten

ContactInv(c) ==
    /\ RowIsProven(c, contact[c])
    /\ Live(c) => contact[c].email \in Emails
    /\ contact[c].state = "new" => guessed[c] = 0
    /\ guessed[c] <= SignupMaxAttempts \/ c \in overwritten
    /\ Live(c) /\ ~contact[c].verified => guessed[c] <= contact[c].tries \/ c \in overwritten

\* Who presents a code that was mailed to e is the owner of c.
CodeShows(c, e) ==
    Live(c) => contact[c].email = e \/ contact[c].email \in proven[c] \/ c \in overwritten

SessionInv(s) ==
    /\ session[s].state = "new" => guesses[s] = 0
    /\ guesses[s] <= LoginMaxAttempts \/ s \in raced
    /\ session[s].state = "live" /\ ~session[s].verified =>
         guesses[s] <= session[s].tries \/ s \in raced
    /\ session[s].state # "new" => \E c \in ContactIDs : session[s].contact = c /\ contact[c].state # "new"
    /\ \A c \in ContactIDs : session[s].state = "live" /\ session[s].contact = c =>
         /\ Live(c) /\ CodeShows(c, session[s].code)
         /\ contact[c].blocked => s \in letIn \/ c \in overwritten

Writes == {"subscribe", "wrong code", "complete subscription", "update", "block", "complete login"}

\* What the request x is that will write the whole row of c.
WriteInv(x, c) ==
    /\ request[x].row.state = "live" /\ request[x].row.email \in Emails
    /\ RowIsProven(c, request[x].row) /\ contact[c].state # "new"
    /\ request[x].op = "block" => request[x].row.blocked
    /\ request[x].op \in {"complete subscription", "complete login"} => request[x].row.verified
    /\ ~request[x].stale =>
         /\ Live(c) => request[x].row.email = contact[c].email
                       \/ request[x].row.email \in proven[c]
         /\ Live(c) /\ request[x].row.blocked => contact[c].blocked \/ request[x].op = "block"
         /\ request[x].op = "wrong code" =>
              guessed[c] < request[x].row.tries \/ c \in overwritten
         /\ request[x].op \notin {"wrong code", "subscribe"} /\ ~request[x].row.verified =>
              guessed[c] <= request[x].row.tries \/ c \in overwritten

CreateInv(x, c) ==
    /\ request[x].row.state = "live" /\ request[x].row.email \in Emails
    /\ RowIsProven(c, request[x].row) /\ contact[c].state = "new"
    /\ \A y \in Requests \ {x} : request[y].contact # c

\* The code is mailed to whom the contact was.
LoginInv(x, c) ==
    contact[c].state # "new" /\ CodeShows(c, request[x].email) /\ ~request[x].row.blocked

\* Of a request about the session s.
AttemptInv(x, s) ==
    /\ session[s].state # "new"
    /\ request[x].op = "fail attempt" /\ ~request[x].stale =>
         guesses[s] < request[x].attempt \/ s \in raced
    /\ request[x].op = "complete login" => session[s].contact = request[x].contact
    /\ request[x].op = "right code" =>
         \A c \in ContactIDs : session[s].contact = c /\ Live(c) =>
           contact[c].email \in proven[c] \/ c \in overwritten

RequestOf(x, c) ==
    request[x].contact = c => /\ request[x].op \in Writes => WriteInv(x, c)
                              /\ request[x].op = "create" => CreateInv(x, c)
                              /\ request[x].op = "login" => LoginInv(x, c)

AttemptOf(x, s) ==
    request[x].session = s =>
        (request[x].op \in {"fail attempt", "right code", "complete login"} => AttemptInv(x, s))

RequestInv(x) ==
    /\ request[x].op \in Writes \cup {"create", "login"} => request[x].contact \in ContactIDs
    /\ request[x].op \in {"fail attempt", "right code", "complete login"} =>
         request[x].session \in SessionIDs
    /\ \A c \in ContactIDs : RequestOf(x, c)
    /\ \A s \in SessionIDs : AttemptOf(x, s)

ContactsInv ==
    /\ ContactsTypeOK
    /\ \A c \in ContactIDs : ContactInv(c)
    /\ \A s \in SessionIDs : SessionInv(s)
    /\ \A x \in Requests : RequestInv(x)

-----------------------------------------------------------------------------
LEMMA ContactsConstants ==
    /\ SessionIDs \subseteq Nat \ {0}
    /\ LoginMaxAttempts \in Nat /\ SignupMaxAttempts \in Nat /\ MaxSessions \in Nat
    /\ NoContact \notin ContactIDs /\ NoEmail \notin Emails /\ NoSession = 0
BY ContactsAssumption

\* What a request has read, and is about to write.
Intent == [op : Operations, contact : ContactIDs \cup {NoContact}, row : Contact,
           session : SessionIDs \cup {NoSession}, attempt : 0 .. LoginMaxAttempts,
           email : Emails \cup {NoEmail}, stale : BOOLEAN]

LEMMA ContactsVariables ==
    ASSUME ContactsTypeOK
    PROVE  /\ contact \in [ContactIDs -> Contact] /\ session \in [SessionIDs -> Session]
           /\ request \in [Requests -> Intent]
           /\ links \subseteq [contact : ContactIDs, old : Emails, new : Emails]
           /\ proven \in [ContactIDs -> SUBSET (Emails \cup {NoEmail})]
           /\ guesses \in [SessionIDs -> Nat] /\ guessed \in [ContactIDs -> Nat]
           /\ overwritten \subseteq ContactIDs /\ raced \subseteq SessionIDs
           /\ letIn \subseteq SessionIDs
BY DEF ContactsTypeOK, Intent

LEMMA RowTypes ==
    /\ NoRow \in Contact /\ Idle \in Intent
    /\ Idle.contact \notin ContactIDs /\ Idle.session \notin SessionIDs /\ Idle.op = "none"
<1>1. NoRow \in Contact
  BY ContactsConstants DEF NoRow, Contact
<1>2. Idle \in Intent
  BY <1>1, ContactsConstants DEF Idle, Intent, Operations
<1>3. QED BY <1>1, <1>2, ContactsConstants DEF Idle

\* The request has read c, and will write row.
Writing(r, op, c, row, e) ==
    /\ r \in Intent /\ r.op = op /\ r.contact = c /\ r.row = row /\ r.email = e
    /\ r.session = NoSession /\ ~r.stale

LEMMA UpdateIsWriting ==
    ASSUME NEW op \in Operations, NEW c \in ContactIDs, NEW row \in Contact,
           NEW e \in Emails \cup {NoEmail}
    PROVE  /\ Writing(Update(op, c, row), op, c, row, NoEmail)
           /\ Writing([Update(op, c, row) EXCEPT !.email = e], op, c, row, e)
<1>1. Update(op, c, row) = [Idle EXCEPT !.op = op, !.contact = c, !.row = row]
  BY DEF Update
<1>2. Idle \in Intent /\ Idle.email = NoEmail /\ Idle.session = NoSession /\ ~Idle.stale
  BY RowTypes DEF Idle
<1>3. Writing(Update(op, c, row), op, c, row, NoEmail)
  BY <1>1, <1>2 DEF Writing, Intent
<1>4. QED BY <1>3 DEF Writing, Intent

LEMMA InsertIsWriting ==
    ASSUME NEW c \in ContactIDs, NEW row \in Contact
    PROVE  \E r \in Contact :
             /\ Writing(Insert(c, row), "create", c, r, NoEmail)
             /\ r.state = "live" /\ r.email = row.email /\ r.verified = row.verified
             /\ r.blocked = row.blocked /\ r.code = row.code /\ r.tries = row.tries
<1> DEFINE r == [row EXCEPT !.state = "live"]
<1>1. /\ r \in Contact /\ r.state = "live" /\ r.email = row.email /\ r.verified = row.verified
      /\ r.blocked = row.blocked /\ r.code = row.code /\ r.tries = row.tries
  BY DEF Contact
<1>2. Insert(c, row) = [Idle EXCEPT !.op = "create", !.contact = c, !.row = r]
  BY DEF Insert
<1>3. Idle \in Intent /\ Idle.email = NoEmail /\ Idle.session = NoSession /\ ~Idle.stale
  BY RowTypes DEF Idle
<1> HIDE DEF r
<1>4. Writing(Insert(c, row), "create", c, r, NoEmail)
  BY <1>1, <1>2, <1>3 DEF Writing, Intent, Operations
<1>5. QED BY <1>1, <1>4

-----------------------------------------------------------------------------
(* What is shown stays shown.                                              *)

Grows ==
    /\ \A c \in ContactIDs : proven[c] \subseteq proven'[c]
    /\ overwritten \subseteq overwritten' /\ raced \subseteq raced' /\ letIn \subseteq letIn'

LEMMA ProvenStays ==
    ASSUME Grows, NEW c \in ContactIDs, NEW row, RowIsProven(c, row)
    PROVE  RowIsProven(c, row)'
BY DEF Grows, RowIsProven

LEMMA ContactStays ==
    ASSUME Grows, NEW c \in ContactIDs, ContactInv(c), contact'[c] = contact[c],
           guessed'[c] = guessed[c]
    PROVE  ContactInv(c)'
BY DEF Grows, ContactInv, RowIsProven, Live

\* A request that begins, or that has read more, writes nothing yet.
LEMMA BeginsInv ==
    ASSUME ContactsInv, NEW x \in Requests, NEW r \in Intent,
           request' = [request EXCEPT ![x] = r],
           UNCHANGED <<contact, session, links, guesses, guessed, overwritten, raced, letIn>>,
           proven' \in [ContactIDs -> SUBSET (Emails \cup {NoEmail})],
           \A c \in ContactIDs : proven[c] \subseteq proven'[c],
           RequestInv(x)',
           \A y \in Requests \ {x} : request[y].op = "create" => request[y].contact # r.contact
    PROVE  ContactsInv'
<1>0. ContactsTypeOK /\ Grows
  BY DEF ContactsInv, Grows
<1>1. /\ request' \in [Requests -> Intent] /\ request'[x] = r
      /\ \A y \in Requests \ {x} : request'[y] = request[y]
  BY <1>0, ContactsVariables
<1>2. ContactsTypeOK'
  BY <1>0, <1>1 DEF ContactsTypeOK, Intent
<1>3. \A c \in ContactIDs : ContactInv(c)'
  BY <1>0, ContactStays DEF ContactsInv
<1>4. ASSUME NEW s \in SessionIDs PROVE SessionInv(s)'
  <2>1. SessionInv(s)
    BY DEF ContactsInv
  <2> QED BY <1>0, <2>1 DEF SessionInv, CodeShows, Live, Grows
<1>5. ASSUME NEW y \in Requests, y # x PROVE RequestInv(y)'
  <2>1. RequestInv(y)
    BY DEF ContactsInv
  <2>2. request'[y] = request[y] /\ (request[y].op = "create" => request[y].contact # r.contact)
    BY <1>1, <1>5
  <2>3. ASSUME NEW c \in ContactIDs PROVE RequestOf(y, c)'
    <3>1. WriteInv(y, c) => WriteInv(y, c)'
      BY <1>0, <2>2 DEF WriteInv, RowIsProven, Grows, Live
    <3>2. LoginInv(y, c) => LoginInv(y, c)'
      BY <1>0, <2>2 DEF LoginInv, CodeShows, Grows, Live
    <3>3. request[y].op = "create" /\ request[y].contact = c /\ CreateInv(y, c) => CreateInv(y, c)'
      BY <1>0, <1>1, <2>2 DEF CreateInv, RowIsProven, Grows, Live
    <3>4. RequestOf(y, c)
      BY <2>1 DEF RequestInv
    <3> QED BY <2>2, <3>1, <3>2, <3>3, <3>4 DEF RequestOf
  <2>4. ASSUME NEW s \in SessionIDs PROVE AttemptOf(y, s)'
    <3>1. AttemptOf(y, s)
      BY <2>1 DEF RequestInv
    <3>2. AttemptInv(y, s) => AttemptInv(y, s)'
      BY <1>0, <2>2 DEF AttemptInv, Grows, Live
    <3> QED BY <2>2, <3>1, <3>2 DEF AttemptOf
  <2>5. QED BY <2>1, <2>2, <2>3, <2>4 DEF RequestInv
<1>6. QED BY <1>2, <1>3, <1>4, <1>5 DEF ContactsInv

-----------------------------------------------------------------------------
(* The requests that read.                                                 *)

\* What a request leaves alone that only reads; it may show an email.
OnlyReads ==
    /\ UNCHANGED <<contact, session, links, guesses, guessed, raceVars>>
    /\ proven' \in [ContactIDs -> SUBSET (Emails \cup {NoEmail})]
    /\ \A c \in ContactIDs : proven[c] \subseteq proven'[c]

LEMMA ReadsOnly ==
    ASSUME ContactsTypeOK, UNCHANGED <<contact, session, links, guesses, guessed, raceVars>>
    PROVE  /\ UNCHANGED proven => OnlyReads
           /\ \A c \in ContactIDs, e \in Emails \cup {NoEmail} :
                proven' = [proven EXCEPT ![c] = @ \cup {e}] => OnlyReads /\ e \in proven'[c]
BY ContactsVariables DEF OnlyReads

LEMMA LiveRow ==
    ASSUME ContactsInv, NEW c \in ContactIDs, Live(c)
    PROVE  /\ contact[c] \in Contact /\ contact[c].state = "live" /\ contact[c].email \in Emails
           /\ RowIsProven(c, contact[c])
           /\ contact[c].tries \in Nat /\ contact[c].tries \in 0 .. SignupMaxAttempts
           /\ guessed[c] \in Nat
           /\ ~contact[c].verified => guessed[c] <= contact[c].tries \/ c \in overwritten
<1>1. ContactsTypeOK /\ ContactInv(c)
  BY DEF ContactsInv
<1>2. contact[c] \in Contact /\ guessed[c] \in Nat
  BY <1>1, ContactsVariables
<1>3. contact[c].tries \in 0 .. SignupMaxAttempts
  BY <1>2 DEF Contact
<1>4. contact[c].tries \in Nat
  BY <1>3, ContactsConstants
<1>5. QED BY <1>1, <1>2, <1>3, <1>4 DEF ContactInv, Live

LEMMA WriteBegins ==
    ASSUME ContactsInv, NEW x \in Requests, NEW c \in ContactIDs, Live(c), NEW r,
           NEW op \in {"subscribe", "wrong code", "complete subscription", "update", "block"},
           NEW row \in Contact, NEW e, Writing(r, op, c, row, e), Begin(x, r), OnlyReads,
           row.state = "live", row.email \in Emails, RowIsProven(c, row)',
           op = "block" => row.blocked, op = "complete subscription" => row.verified,
           row.email = contact[c].email \/ row.email \in proven'[c],
           row.blocked => contact[c].blocked \/ op = "block",
           op = "wrong code" => guessed[c] < row.tries \/ c \in overwritten,
           op \notin {"wrong code", "subscribe"} /\ ~row.verified =>
             guessed[c] <= row.tries \/ c \in overwritten
    PROVE  ContactsInv'
<1>0. ContactsTypeOK /\ \A y \in Requests : RequestInv(y)
  BY DEF ContactsInv
<1>1. /\ r \in Intent /\ r.op = op /\ r.contact = c /\ r.row = row /\ r.email = e
      /\ r.session = NoSession /\ ~r.stale
  BY DEF Writing
<1>2. request' = [request EXCEPT ![x] = r] /\ request'[x] = r
  BY <1>0, ContactsVariables DEF Begin
<1>3. WriteInv(x, c)'
  BY <1>1, <1>2 DEF WriteInv, OnlyReads, Live, raceVars, RowIsProven
<1>4. RequestInv(x)'
  <2>1. \A d \in ContactIDs : RequestOf(x, d)'
    BY <1>1, <1>2, <1>3 DEF RequestOf
  <2> QED BY <1>1, <1>2, <2>1, ContactsConstants DEF RequestInv, AttemptOf
<1>5. ASSUME NEW y \in Requests \ {x}, request[y].op = "create" PROVE request[y].contact # c
  BY <1>0, <1>5 DEF RequestInv, RequestOf, CreateInv, Live
<1>6. QED BY <1>1, <1>2, <1>4, <1>5, BeginsInv DEF OnlyReads, raceVars

LEMMA CreateBegins ==
    ASSUME ContactsInv, NEW x \in Requests, NEW c \in ContactIDs, Unused(c), NEW r,
           NEW row \in Contact, NEW e, Writing(r, "create", c, row, e), Begin(x, r), OnlyReads,
           row.state = "live", row.email \in Emails, RowIsProven(c, row)'
    PROVE  ContactsInv'
<1>0. ContactsTypeOK
  BY DEF ContactsInv
<1>1. /\ r \in Intent /\ r.op = "create" /\ r.contact = c /\ r.row = row
      /\ r.session = NoSession
  BY DEF Writing
<1>2. /\ request' = [request EXCEPT ![x] = r] /\ request'[x] = r
      /\ \A y \in Requests \ {x} : request'[y] = request[y]
  BY <1>0, ContactsVariables DEF Begin
<1>3. \A y \in Requests : request[y].contact # c
  BY DEF Unused
<1>4. CreateInv(x, c)'
  BY <1>1, <1>2, <1>3 DEF CreateInv, OnlyReads, Unused, raceVars, RowIsProven
<1>5. RequestInv(x)'
  <2>1. \A d \in ContactIDs : RequestOf(x, d)'
    BY <1>1, <1>2, <1>4 DEF RequestOf, Writes
  <2> QED BY <1>1, <1>2, <2>1, ContactsConstants DEF RequestInv, AttemptOf
<1>6. QED BY <1>1, <1>2, <1>3, <1>5, BeginsInv DEF OnlyReads, raceVars

LEMMA LoginInvStep ==
    ASSUME ContactsInv, NEW x \in Requests, NEW c \in ContactIDs, Login(x, c)
    PROVE  ContactsInv'
<1> DEFINE row == [NoRow EXCEPT !.blocked = contact[c].blocked]
           r   == [Update("login", c, row) EXCEPT !.email = contact[c].email]
<1>1. /\ Live(c) /\ ~contact[c].blocked /\ Begin(x, r)
      /\ UNCHANGED <<contact, session, proofVars, raceVars>>
  BY DEF Login
<1>2. contact[c].blocked \in BOOLEAN /\ contact[c].email \in Emails
  BY <1>1, LiveRow DEF Contact
<1>3. row \in Contact /\ ~row.blocked
  BY <1>1, <1>2, RowTypes DEF Contact
<1> HIDE DEF row
<1>4. Writing(r, "login", c, row, contact[c].email)
  BY <1>2, <1>3, UpdateIsWriting DEF Operations
<1> HIDE DEF r
<1>5. /\ r \in Intent /\ r.op = "login" /\ r.contact = c /\ r.row = row
      /\ r.email = contact[c].email /\ r.session = NoSession
  BY <1>4 DEF Writing
<1>6. request' = [request EXCEPT ![x] = r] /\ request'[x] = r
  BY <1>1, ContactsVariables DEF Begin, ContactsInv
<1>7. LoginInv(x, c)'
  BY <1>1, <1>3, <1>5, <1>6 DEF LoginInv, CodeShows, Live
<1>8. RequestInv(x)'
  <2>1. \A d \in ContactIDs : RequestOf(x, d)'
    BY <1>5, <1>6, <1>7 DEF RequestOf, Writes
  <2> QED BY <1>5, <1>6, <2>1, ContactsConstants DEF RequestInv, AttemptOf
<1>9. ASSUME NEW y \in Requests \ {x}, request[y].op = "create" PROVE request[y].contact # c
  BY <1>1, <1>9 DEF ContactsInv, RequestInv, RequestOf, CreateInv, Live
<1>10. OnlyReads
  BY <1>1, ReadsOnly DEF ContactsInv, proofVars
<1>11. QED BY <1>5, <1>6, <1>8, <1>9, <1>10, BeginsInv DEF OnlyReads, raceVars

\* A code for a session, wrong or right; and who has shown a right one is read.
LEMMA CodesInv ==
    ASSUME ContactsInv, NEW x \in Requests, NEW s \in SessionIDs,
           WrongLoginCode(x, s) \/ RightLoginCode(x, s)
    PROVE  ContactsInv'
<1>0. /\ ContactsTypeOK /\ SessionInv(s) /\ session[s] \in Session /\ session[s].state = "live"
      /\ ~session[s].verified /\ session[s].tries < LoginMaxAttempts
  BY ContactsVariables DEF ContactsInv, WrongLoginCode, RightLoginCode, MayTry
<1>1. /\ session[s].tries \in 0 .. LoginMaxAttempts /\ session[s].tries \in Nat
      /\ session[s].tries + 1 \in 0 .. LoginMaxAttempts /\ guesses[s] \in Nat
  <2>1. session[s].tries \in 0 .. LoginMaxAttempts
    BY <1>0 DEF Session
  <2> QED BY <1>0, <2>1, ContactsConstants, ContactsVariables
<1>2. PICK c \in ContactIDs : /\ session[s].contact = c /\ Live(c) /\ CodeShows(c, session[s].code)
  BY <1>0 DEF SessionInv
<1>3. PICK r \in Intent :
        /\ request' = [request EXCEPT ![x] = r]
        /\ r.session = s /\ r.contact \notin ContactIDs
        /\ \/ /\ r.op = "fail attempt" /\ r.attempt = session[s].tries + 1 /\ ~r.stale
              /\ UNCHANGED <<contact, session, proofVars, raceVars>>
           \/ /\ r.op = "right code"
              /\ proven' = [proven EXCEPT ![c] = @ \cup {session[s].code}]
              /\ UNCHANGED <<contact, session, links, guesses, guessed, raceVars>>
  <2>1. CASE WrongLoginCode(x, s)
    <3> DEFINE r == [Idle EXCEPT !.op = "fail attempt", !.session = s,
                                 !.attempt = session[s].tries + 1]
    <3>1. /\ r \in Intent /\ r.session = s /\ r.contact \notin ContactIDs
          /\ r.op = "fail attempt" /\ r.attempt = session[s].tries + 1 /\ ~r.stale
      BY <1>1, RowTypes DEF Intent, Idle, Operations
    <3> QED BY <2>1, <3>1 DEF WrongLoginCode, Begin
  <2>2. CASE RightLoginCode(x, s)
    <3> DEFINE r == [Idle EXCEPT !.op = "right code", !.session = s, !.attempt = session[s].tries]
    <3>1. /\ r \in Intent /\ r.session = s /\ r.contact \notin ContactIDs /\ r.op = "right code"
      BY <1>1, RowTypes DEF Intent, Idle, Operations
    <3> QED BY <1>2, <2>2, <3>1 DEF RightLoginCode, Begin
  <2>3. QED BY <2>1, <2>2
<1>4. request'[x] = r
  BY <1>0, <1>3, ContactsVariables
<1>5. OnlyReads
  BY <1>0, <1>3, ReadsOnly DEF proofVars, Session
<1>6. AttemptInv(x, s)'
  <2>1. session'[s].state # "new"
    BY <1>0, <1>5 DEF OnlyReads
  <2>2. CASE r.op = "fail attempt"
    <3>1. guesses[s] < session[s].tries + 1 \/ s \in raced
      BY <1>0, <1>1 DEF SessionInv
    <3>2. r.attempt = session[s].tries + 1 /\ UNCHANGED <<guesses, raced>>
      BY <1>3, <2>2 DEF proofVars, raceVars
    <3> QED BY <1>4, <2>1, <2>2, <3>1, <3>2 DEF AttemptInv
  <2>3. CASE r.op = "right code"
    <3>1. /\ UNCHANGED <<contact, session, overwritten>>
          /\ session[s].code \in proven'[c] /\ proven[c] \subseteq proven'[c]
      <4>1. /\ proven' = [proven EXCEPT ![c] = @ \cup {session[s].code}]
            /\ UNCHANGED <<contact, session, links, guesses, guessed, raceVars>>
        BY <1>3, <2>3
      <4>2. proven'[c] = proven[c] \cup {session[s].code}
        BY <1>0, <4>1, ContactsVariables
      <4> QED BY <4>1, <4>2 DEF raceVars
    <3>2. contact[c].email \in proven'[c] \/ c \in overwritten
      BY <1>2, <3>1 DEF CodeShows
    <3> QED BY <1>2, <1>4, <2>1, <2>3, <3>1, <3>2 DEF AttemptInv, Live
  <2>4. QED BY <1>3, <2>2, <2>3
<1>7. RequestInv(x)'
  <2>1. r.op \notin Writes \cup {"create", "login"}
    BY <1>3 DEF Writes
  <2>2. \A t \in SessionIDs : AttemptOf(x, t)'
    BY <1>3, <1>4, <1>6 DEF AttemptOf
  <2> QED BY <1>3, <1>4, <2>1, <2>2 DEF RequestInv, RequestOf
<1>8. \A y \in Requests \ {x} : request[y].op = "create" => request[y].contact # r.contact
  BY <1>3 DEF ContactsInv, RequestInv
<1>9. QED BY <1>3, <1>5, <1>7, <1>8, BeginsInv DEF OnlyReads, raceVars

LEMMA FindContactInv ==
    ASSUME ContactsInv, NEW x \in Requests, FindContact(x)
    PROVE  ContactsInv'
<1>0. ContactsTypeOK /\ RequestInv(x) /\ request[x] \in Intent
  BY ContactsVariables DEF ContactsInv
<1>1. PICK s \in SessionIDs : request[x].session = s /\ AttemptInv(x, s)
  BY <1>0 DEF FindContact, RequestInv, AttemptOf
<1>2. PICK c \in ContactIDs : session[s].contact = c
  <2>1. SessionInv(s)
    BY DEF ContactsInv
  <2> QED BY <1>1, <2>1 DEF SessionInv, AttemptInv
<1> DEFINE row == [contact[c] EXCEPT !.verified = TRUE]
           r   == [request[x] EXCEPT !.op = "complete login", !.contact = c, !.row = row]
<1>3. /\ request[x].op = "right code" /\ Live(c)
      /\ UNCHANGED <<contact, session, proofVars, raceVars>>
  BY <1>1, <1>2 DEF FindContact
<1>4. request' = [request EXCEPT ![x] = r]
  BY <1>0, <1>1, <1>2, ContactsVariables DEF FindContact
<1>5. /\ row \in Contact /\ row.state = "live" /\ row.verified /\ row.email = contact[c].email
      /\ row.email \in Emails /\ row.blocked = contact[c].blocked
      /\ row.email \in proven[c] \/ c \in overwritten
  <2>1. contact[c].email \in proven[c] \/ c \in overwritten
    BY <1>1, <1>2, <1>3 DEF AttemptInv
  <2> QED BY <1>3, <2>1, LiveRow DEF Contact
<1> HIDE DEF row
<1>6. /\ r \in Intent /\ r.op = "complete login" /\ r.contact = c /\ r.row = row /\ r.session = s
  BY <1>0, <1>1, <1>5 DEF Intent, Operations
<1> HIDE DEF r
<1>7. request'[x] = r
  BY <1>0, <1>4, ContactsVariables
<1>8. WriteInv(x, c)'
  BY <1>3, <1>5, <1>6, <1>7 DEF WriteInv, RowIsProven, Live, proofVars, raceVars
<1>9. AttemptInv(x, s)'
  BY <1>1, <1>2, <1>3, <1>6, <1>7 DEF AttemptInv
<1>10. RequestInv(x)'
  <2>1. \A d \in ContactIDs : RequestOf(x, d)'
    BY <1>6, <1>7, <1>8 DEF RequestOf
  <2>2. \A t \in SessionIDs : AttemptOf(x, t)'
    BY <1>6, <1>7, <1>9 DEF AttemptOf
  <2> QED BY <1>6, <1>7, <2>1, <2>2 DEF RequestInv
<1>11. ASSUME NEW y \in Requests \ {x}, request[y].op = "create" PROVE request[y].contact # c
  BY <1>3, <1>11 DEF ContactsInv, RequestInv, RequestOf, CreateInv, Live
<1>12. OnlyReads
  BY <1>0, <1>3, ReadsOnly DEF proofVars
<1>13. QED BY <1>4, <1>6, <1>10, <1>11, <1>12, BeginsInv DEF OnlyReads, raceVars

\* The row that was read, with a subscription, a block and a count changed.
LEMMA SameAddress ==
    ASSUME ContactsInv, NEW c \in ContactIDs, Live(c), Grows, NEW row \in Contact,
           row.state = contact[c].state, row.email = contact[c].email,
           row.code \in {contact[c].code, NoEmail, row.email},
           row.verified => contact[c].verified \/ row.email \in proven'[c]
    PROVE  /\ row.state = "live" /\ row.email \in Emails /\ RowIsProven(c, row)'
BY LiveRow DEF Grows, RowIsProven

LEMMA OnlyReadsGrows ==
    ASSUME OnlyReads
    PROVE  Grows /\ UNCHANGED <<contact, session, guesses, guessed, overwritten, raced, letIn>>
BY DEF OnlyReads, Grows, raceVars

\* What visitors ask of a contact, and staff of one whose address stays.
LEMMA UpdatesInv ==
    ASSUME ContactsInv, NEW x \in Requests, NEW c \in ContactIDs,
           \/ WrongSignupCode(x, c) \/ RightSignupCode(x, c) \/ Unsubscribe(x, c)
           \/ BlockContact(x, c) \/ UnblockContact(x, c) \/ CompleteOrder(x, c)
    PROVE  ContactsInv'
<1>0. ContactsTypeOK
  BY DEF ContactsInv
<1>1. Live(c)
  BY DEF WrongSignupCode, RightSignupCode, MayConfirm, Unsubscribe, BlockContact, UnblockContact,
         CompleteOrder
<1>2. /\ contact[c] \in Contact /\ contact[c].email \in Emails /\ contact[c].code \in Emails \cup {NoEmail}
      /\ contact[c].tries \in Nat /\ guessed[c] \in Nat /\ contact[c].tries \in 0 .. SignupMaxAttempts
      /\ RowIsProven(c, contact[c])
      /\ ~contact[c].verified => guessed[c] <= contact[c].tries \/ c \in overwritten
  BY <1>1, LiveRow DEF Contact
<1>3. ASSUME WrongSignupCode(x, c) PROVE ContactsInv'
  <2>0. PICK n, row : n = contact[c].tries + 1 /\ row = [contact[c] EXCEPT !.tries = n]
    OBVIOUS
  <2>1. /\ ~contact[c].verified /\ contact[c].tries < SignupMaxAttempts
        /\ Begin(x, Update("wrong code", c, row)) /\ OnlyReads
    BY <1>0, <1>3, <2>0, ReadsOnly DEF WrongSignupCode, MayConfirm, proofVars
  <2>2. n \in 0 .. SignupMaxAttempts /\ (guessed[c] < n \/ c \in overwritten)
    <3>1. /\ contact[c].tries \in Nat /\ contact[c].tries < SignupMaxAttempts
          /\ guessed[c] \in Nat /\ SignupMaxAttempts \in Nat
      BY <1>2, <2>1, ContactsConstants
    <3>2. guessed[c] <= contact[c].tries \/ c \in overwritten
      BY <1>2, <2>1
    <3> QED BY <2>0, <3>1, <3>2
  <2>3. /\ row \in Contact /\ row.state = contact[c].state /\ row.email = contact[c].email
        /\ row.code = contact[c].code /\ row.verified = contact[c].verified
        /\ row.blocked = contact[c].blocked /\ row.tries = n
    BY <1>2, <2>0, <2>2 DEF Contact
  <2>4. Writing(Update("wrong code", c, row), "wrong code", c, row, NoEmail)
    BY <2>3, UpdateIsWriting DEF Operations
  <2>5. row.state = "live" /\ row.email \in Emails /\ RowIsProven(c, row)'
    BY <1>1, <2>1, <2>3, SameAddress, OnlyReadsGrows
  <2>6. QED BY <1>1, <2>1, <2>2, <2>3, <2>4, <2>5, WriteBegins
<1>4. ASSUME RightSignupCode(x, c) PROVE ContactsInv'
  <2>0. PICK row : row = [contact[c] EXCEPT !.subscribed = TRUE, !.tries = 0, !.code = NoEmail,
                                              !.verified = TRUE]
    OBVIOUS
  <2>1. /\ contact[c].code # NoEmail /\ Begin(x, Update("complete subscription", c, row))
        /\ UNCHANGED <<contact, session, links, guesses, guessed, raceVars>>
        /\ proven' = [proven EXCEPT ![c] = @ \cup {contact[c].code}]
    BY <1>4, <2>0 DEF RightSignupCode
  <2>2. OnlyReads /\ contact[c].code \in proven'[c]
    BY <1>0, <1>2, <2>1, ReadsOnly
  <2>3. /\ row \in Contact /\ row.state = "live" /\ row.email = contact[c].email
        /\ row.code = NoEmail /\ row.verified /\ row.blocked = contact[c].blocked
    <3>1. 0 \in 0 .. SignupMaxAttempts /\ contact[c].state = "live" /\ contact[c] \in Contact
      BY <1>1, <1>2, ContactsConstants DEF Live
    <3> QED BY <2>0, <3>1 DEF Contact
  <2>4. Writing(Update("complete subscription", c, row), "complete subscription", c, row, NoEmail)
    BY <2>3, UpdateIsWriting DEF Operations
  <2>5. RowIsProven(c, row)'
    BY <1>2, <2>1, <2>2, <2>3, OnlyReadsGrows DEF RowIsProven, Grows
  <2>6. QED BY <1>1, <1>2, <2>1, <2>2, <2>3, <2>4, <2>5, WriteBegins
<1>5. ASSUME Unsubscribe(x, c) PROVE ContactsInv'
  <2>0. PICK row : row = [contact[c] EXCEPT !.subscribed = FALSE]
    OBVIOUS
  <2>1. Begin(x, Update("update", c, row)) /\ OnlyReads
    BY <1>0, <1>5, <2>0, ReadsOnly DEF Unsubscribe, proofVars
  <2>2. /\ row \in Contact /\ row.state = contact[c].state /\ row.email = contact[c].email
        /\ row.code = contact[c].code /\ row.verified = contact[c].verified
        /\ row.blocked = contact[c].blocked /\ row.tries = contact[c].tries
    BY <1>2, <2>0 DEF Contact
  <2>3. Writing(Update("update", c, row), "update", c, row, NoEmail)
    BY <2>2, UpdateIsWriting DEF Operations
  <2>4. row.state = "live" /\ row.email \in Emails /\ RowIsProven(c, row)'
    BY <1>1, <2>1, <2>2, SameAddress, OnlyReadsGrows
  <2>5. QED BY <1>1, <1>2, <2>1, <2>2, <2>3, <2>4, WriteBegins
<1>6. ASSUME BlockContact(x, c) PROVE ContactsInv'
  <2>0. PICK row : row = [contact[c] EXCEPT !.blocked = TRUE]
    OBVIOUS
  <2>1. Begin(x, Update("block", c, row)) /\ OnlyReads
    BY <1>0, <1>6, <2>0, ReadsOnly DEF BlockContact, proofVars
  <2>2. /\ row \in Contact /\ row.state = contact[c].state /\ row.email = contact[c].email
        /\ row.code = contact[c].code /\ row.verified = contact[c].verified
        /\ row.blocked /\ row.tries = contact[c].tries
    BY <1>2, <2>0 DEF Contact
  <2>3. Writing(Update("block", c, row), "block", c, row, NoEmail)
    BY <2>2, UpdateIsWriting DEF Operations
  <2>4. row.state = "live" /\ row.email \in Emails /\ RowIsProven(c, row)'
    BY <1>1, <2>1, <2>2, SameAddress, OnlyReadsGrows
  <2>5. QED BY <1>1, <1>2, <2>1, <2>2, <2>3, <2>4, WriteBegins
<1>7. ASSUME UnblockContact(x, c) PROVE ContactsInv'
  <2>0. PICK row : row = [contact[c] EXCEPT !.blocked = FALSE]
    OBVIOUS
  <2>1. Begin(x, Update("update", c, row)) /\ OnlyReads
    BY <1>0, <1>7, <2>0, ReadsOnly DEF UnblockContact, proofVars
  <2>2. /\ row \in Contact /\ row.state = contact[c].state /\ row.email = contact[c].email
        /\ row.code = contact[c].code /\ row.verified = contact[c].verified
        /\ ~row.blocked /\ row.tries = contact[c].tries
    BY <1>2, <2>0 DEF Contact
  <2>3. Writing(Update("update", c, row), "update", c, row, NoEmail)
    BY <2>2, UpdateIsWriting DEF Operations
  <2>4. row.state = "live" /\ row.email \in Emails /\ RowIsProven(c, row)'
    BY <1>1, <2>1, <2>2, SameAddress, OnlyReadsGrows
  <2>5. QED BY <1>1, <1>2, <2>1, <2>2, <2>3, <2>4, WriteBegins
<1>8. ASSUME CompleteOrder(x, c) PROVE ContactsInv'
  <2>0. PICK row : row = [contact[c] EXCEPT !.verified = TRUE]
    OBVIOUS
  <2>1. /\ Begin(x, Update("update", c, row))
        /\ UNCHANGED <<contact, session, links, guesses, guessed, raceVars>>
        /\ proven' = [proven EXCEPT ![c] = @ \cup {contact[c].email}]
    BY <1>8, <2>0 DEF CompleteOrder
  <2>2. OnlyReads /\ contact[c].email \in proven'[c]
    BY <1>0, <1>2, <2>1, ReadsOnly
  <2>3. /\ row \in Contact /\ row.state = contact[c].state /\ row.email = contact[c].email
        /\ row.code = contact[c].code /\ row.verified
        /\ row.blocked = contact[c].blocked /\ row.tries = contact[c].tries
    BY <1>2, <2>0 DEF Contact
  <2>4. Writing(Update("update", c, row), "update", c, row, NoEmail)
    BY <2>3, UpdateIsWriting DEF Operations
  <2>5. row.state = "live" /\ row.email \in Emails /\ RowIsProven(c, row)'
    BY <1>1, <2>2, <2>3, SameAddress, OnlyReadsGrows
  <2>6. QED BY <1>1, <1>2, <2>1, <2>2, <2>3, <2>4, <2>5, WriteBegins
<1>9. QED BY <1>3, <1>4, <1>5, <1>6, <1>7, <1>8

LEMMA AddressesInv ==
    ASSUME ContactsInv, NEW x \in Requests, NEW c \in ContactIDs, NEW e \in Emails,
           NEW subscribed \in BOOLEAN,
           UpdateContact(x, c, e, subscribed)
             \/ (Live(c) /\ c \in With(e) /\ (Subscribe(x, e, c) \/ ImportContacts(x, e, subscribed, c)))
    PROVE  ContactsInv'
<1>0. ContactsTypeOK /\ 0 \in 0 .. SignupMaxAttempts
  BY ContactsConstants DEF ContactsInv
<1>1. Live(c)
  BY DEF UpdateContact
<1>2. /\ contact[c] \in Contact /\ contact[c].email \in Emails
      /\ contact[c].tries \in Nat /\ guessed[c] \in Nat /\ RowIsProven(c, contact[c])
      /\ ~contact[c].verified => guessed[c] <= contact[c].tries \/ c \in overwritten
  BY <1>1, LiveRow
<1>3. ASSUME UpdateContact(x, c, e, subscribed) PROVE ContactsInv'
  <2>0. PICK row : row = [contact[c] EXCEPT !.email = e, !.subscribed = subscribed]
    OBVIOUS
  <2>1. /\ Begin(x, Update("update", c, row))
        /\ UNCHANGED <<contact, session, links, guesses, guessed, raceVars>>
        /\ proven' = [proven EXCEPT ![c] = @ \cup {e}]
    BY <1>3, <2>0 DEF UpdateContact
  <2>2. OnlyReads /\ e \in proven'[c]
    BY <1>0, <2>1, ReadsOnly
  <2>3. /\ row \in Contact /\ row.state = contact[c].state /\ row.email = e
        /\ row.code = contact[c].code /\ row.verified = contact[c].verified
        /\ row.blocked = contact[c].blocked /\ row.tries = contact[c].tries
    BY <1>2, <2>0 DEF Contact
  <2>4. Writing(Update("update", c, row), "update", c, row, NoEmail)
    BY <2>3, UpdateIsWriting DEF Operations
  <2>5. RowIsProven(c, row)' /\ row.state = "live"
    BY <1>1, <2>2, <2>3 DEF RowIsProven, Live
  <2>6. QED BY <1>1, <1>2, <2>1, <2>2, <2>3, <2>4, <2>5, WriteBegins
<1>4. ASSUME c \in With(e), Subscribe(x, e, c) PROVE ContactsInv'
  <2>0. PICK row : row = [contact[c] EXCEPT !.subscribed = TRUE, !.tries = 0, !.code = e]
    OBVIOUS
  <2>1. Begin(x, Update("subscribe", c, row)) /\ OnlyReads /\ contact[c].email = e
    BY <1>0, <1>4, <2>0, ReadsOnly DEF Subscribe, proofVars, With
  <2>2. /\ row \in Contact /\ row.state = contact[c].state /\ row.email = contact[c].email
        /\ row.code = row.email /\ row.verified = contact[c].verified
        /\ row.blocked = contact[c].blocked
    BY <1>0, <1>2, <2>0, <2>1 DEF Contact
  <2>3. Writing(Update("subscribe", c, row), "subscribe", c, row, NoEmail)
    BY <2>2, UpdateIsWriting DEF Operations
  <2>4. row.state = "live" /\ row.email \in Emails /\ RowIsProven(c, row)'
    BY <1>1, <2>1, <2>2, SameAddress, OnlyReadsGrows
  <2>5. QED BY <1>1, <1>2, <2>1, <2>2, <2>3, <2>4, WriteBegins
<1>5. ASSUME c \in With(e), ImportContacts(x, e, subscribed, c) PROVE ContactsInv'
  <2>0. PICK row : row = [contact[c] EXCEPT !.verified = TRUE, !.tries = 0,
                                            !.subscribed = subscribed]
    OBVIOUS
  <2>1. /\ Begin(x, Update("update", c, row)) /\ contact[c].email = e
        /\ UNCHANGED <<contact, session, links, guesses, guessed, raceVars>>
        /\ proven' = [proven EXCEPT ![c] = @ \cup {e}]
    BY <1>5, <2>0 DEF ImportContacts, With
  <2>2. OnlyReads /\ e \in proven'[c]
    BY <1>0, <2>1, ReadsOnly
  <2>3. /\ row \in Contact /\ row.state = contact[c].state /\ row.email = contact[c].email
        /\ row.code = contact[c].code /\ row.verified /\ row.blocked = contact[c].blocked
    BY <1>0, <1>2, <2>0 DEF Contact
  <2>4. Writing(Update("update", c, row), "update", c, row, NoEmail)
    BY <2>3, UpdateIsWriting DEF Operations
  <2>5. row.state = "live" /\ row.email \in Emails /\ RowIsProven(c, row)'
    BY <1>1, <2>1, <2>2, <2>3, SameAddress, OnlyReadsGrows
  <2>6. QED BY <1>1, <1>2, <2>1, <2>2, <2>3, <2>4, <2>5, WriteBegins
<1>6. QED BY <1>3, <1>4, <1>5

\* Of an account that is logged in.
LEMMA AccountsInv ==
    ASSUME ContactsInv, NEW x \in Requests, NEW s \in SessionIDs,
           \/ \E link \in links : VerifyEmail(x, s, link)
           \/ \E e \in Emails \cup {NoEmail}, subscribed \in BOOLEAN :
                UpdateMyAccount(x, s, subscribed, e)
    PROVE  ContactsInv'
<1>0. ContactsTypeOK
  BY DEF ContactsInv
<1>1. PICK c \in ContactIDs : c = session[s].contact /\ Live(c)
  BY DEF ContactsInv, SessionInv, VerifyEmail, UpdateMyAccount, LoggedIn
<1>2. /\ contact[c] \in Contact /\ contact[c].email \in Emails
      /\ contact[c].tries \in Nat /\ guessed[c] \in Nat /\ RowIsProven(c, contact[c])
      /\ ~contact[c].verified => guessed[c] <= contact[c].tries \/ c \in overwritten
  BY <1>1, LiveRow
<1>3. ASSUME NEW link \in links, VerifyEmail(x, s, link) PROVE ContactsInv'
  <2>0. PICK row, e : e = link.new /\ row = [contact[c] EXCEPT !.email = e]
    OBVIOUS
  <2>1. /\ Begin(x, Update("update", c, row))
        /\ UNCHANGED <<contact, session, links, guesses, guessed, raceVars>>
        /\ proven' = [proven EXCEPT ![c] = @ \cup {e}]
    BY <1>1, <1>3, <2>0 DEF VerifyEmail
  <2>2. e \in Emails
    BY <1>0, <2>0, ContactsVariables
  <2>3. OnlyReads /\ e \in proven'[c]
    BY <1>0, <2>1, <2>2, ReadsOnly
  <2>4. /\ row \in Contact /\ row.state = contact[c].state /\ row.email = e
        /\ row.code = contact[c].code /\ row.verified = contact[c].verified
        /\ row.blocked = contact[c].blocked /\ row.tries = contact[c].tries
    BY <1>2, <2>0, <2>2 DEF Contact
  <2>5. Writing(Update("update", c, row), "update", c, row, NoEmail)
    BY <2>4, UpdateIsWriting DEF Operations
  <2>6. RowIsProven(c, row)' /\ row.state = "live"
    BY <1>1, <2>3, <2>4 DEF RowIsProven, Live
  <2>7. QED BY <1>1, <1>2, <2>1, <2>2, <2>3, <2>4, <2>5, <2>6, WriteBegins
<1>4. ASSUME NEW e \in Emails \cup {NoEmail}, NEW subscribed \in BOOLEAN,
             UpdateMyAccount(x, s, subscribed, e)
      PROVE  ContactsInv'
  <2>0. PICK row : row = [contact[c] EXCEPT !.subscribed = subscribed]
    OBVIOUS
  <2>1. Begin(x, [Update("update", c, row) EXCEPT !.email = e]) /\ OnlyReads
    BY <1>0, <1>1, <1>4, <2>0, ReadsOnly DEF UpdateMyAccount, proofVars
  <2>2. /\ row \in Contact /\ row.state = contact[c].state /\ row.email = contact[c].email
        /\ row.code = contact[c].code /\ row.verified = contact[c].verified
        /\ row.blocked = contact[c].blocked /\ row.tries = contact[c].tries
    BY <1>2, <2>0 DEF Contact
  <2>3. Writing([Update("update", c, row) EXCEPT !.email = e], "update", c, row, e)
    BY <2>2, UpdateIsWriting DEF Operations
  <2>4. row.state = "live" /\ row.email \in Emails /\ RowIsProven(c, row)'
    BY <1>1, <2>1, <2>2, SameAddress, OnlyReadsGrows
  <2>5. QED BY <1>1, <1>2, <2>1, <2>2, <2>3, <2>4, WriteBegins
<1>5. QED BY <1>3, <1>4

\* Contacts that are new: nobody else has read them.
LEMMA InsertsKeepInv ==
    ASSUME ContactsInv, NEW x \in Requests, NEW c \in ContactIDs, NEW e \in Emails,
           NEW subscribed \in BOOLEAN, With(e) = {},
           \/ Subscribe(x, e, c) \/ CreateContact(x, e, c) \/ ImportContacts(x, e, subscribed, c)
           \/ FindOrCreateContact(x, e, subscribed, c)
    PROVE  ContactsInv'
<1>0. ContactsTypeOK
  BY DEF ContactsInv
<1>1. \E row \in Contact :
        /\ Unused(c) /\ Begin(x, Insert(c, row)) /\ row.email = e /\ row.code \in {NoEmail, e}
        /\ \/ ~row.verified /\ UNCHANGED <<contact, session, proofVars, raceVars>>
           \/ /\ proven' = [proven EXCEPT ![c] = @ \cup {e}]
              /\ UNCHANGED <<contact, session, links, guesses, guessed, raceVars>>
  <2>1. NoRow \in Contact /\ ~NoRow.verified /\ NoRow.code = NoEmail
    BY RowTypes DEF NoRow
  <2>2. CASE Subscribe(x, e, c)
    <3>1. PICK row : row = [NoRow EXCEPT !.email = e, !.subscribed = TRUE, !.code = e]
      OBVIOUS
    <3>2. row \in Contact /\ row.email = e /\ row.code = e /\ ~row.verified
      BY <2>1, <3>1 DEF Contact
    <3> QED BY <2>2, <3>1, <3>2 DEF Subscribe
  <2>3. CASE CreateContact(x, e, c)
    <3>1. PICK row : row = [NoRow EXCEPT !.email = e, !.verified = TRUE]
      OBVIOUS
    <3>2. row \in Contact /\ row.email = e /\ row.code = NoEmail
      BY <2>1, <3>1 DEF Contact
    <3> QED BY <2>3, <3>1, <3>2 DEF CreateContact
  <2>4. CASE ImportContacts(x, e, subscribed, c)
    <3>1. PICK row : row = [NoRow EXCEPT !.email = e, !.verified = TRUE, !.subscribed = subscribed]
      OBVIOUS
    <3>2. row \in Contact /\ row.email = e /\ row.code = NoEmail
      BY <2>1, <3>1 DEF Contact
    <3> QED BY <2>4, <3>1, <3>2 DEF ImportContacts
  <2>5. CASE FindOrCreateContact(x, e, subscribed, c)
    <3>1. PICK row : row = [NoRow EXCEPT !.email = e, !.subscribed = subscribed]
      OBVIOUS
    <3>2. row \in Contact /\ row.email = e /\ row.code = NoEmail /\ ~row.verified
      BY <2>1, <3>1 DEF Contact
    <3> QED BY <2>5, <3>1, <3>2 DEF FindOrCreateContact
  <2>6. QED BY <2>2, <2>3, <2>4, <2>5
<1>2. PICK row \in Contact :
        /\ Unused(c) /\ Begin(x, Insert(c, row)) /\ row.email = e /\ row.code \in {NoEmail, e}
        /\ \/ ~row.verified /\ UNCHANGED <<contact, session, proofVars, raceVars>>
           \/ /\ proven' = [proven EXCEPT ![c] = @ \cup {e}]
              /\ UNCHANGED <<contact, session, links, guesses, guessed, raceVars>>
  BY <1>1
<1>3. OnlyReads /\ (row.verified => e \in proven'[c])
  BY <1>0, <1>2, ReadsOnly DEF proofVars
<1>4. PICK r \in Contact : /\ Writing(Insert(c, row), "create", c, r, NoEmail)
                           /\ r.state = "live" /\ r.email = row.email
                           /\ r.verified = row.verified /\ r.code = row.code
  BY InsertIsWriting
<1>5. RowIsProven(c, r)'
  BY <1>2, <1>3, <1>4 DEF RowIsProven
<1>6. QED BY <1>2, <1>3, <1>4, <1>5, CreateBegins

-----------------------------------------------------------------------------
(* What becomes of requests and sessions when a contact is written.        *)

\* The request y is what it was, and if it isn't marked nobody wrote what it is about.
MarkedBy(y, cs, ss) ==
    /\ request'[y].op = request[y].op /\ request'[y].contact = request[y].contact
    /\ request'[y].row = request[y].row /\ request'[y].session = request[y].session
    /\ request'[y].attempt = request[y].attempt /\ request'[y].email = request[y].email
    /\ ~request'[y].stale =>
         /\ ~request[y].stale /\ request[y].contact \notin cs
         /\ request[y].op = "fail attempt" => request[y].session \notin ss

ContactStep(c, cs) ==
    /\ contact[c].state # "new" => contact'[c].state # "new"
    /\ contact[c].state # "new" /\ contact'[c].state = "live" =>
         /\ contact[c].state = "live"
         /\ contact'[c].email = contact[c].email \/ contact'[c].email \in proven'[c]
            \/ c \in overwritten'
    /\ c \notin cs => /\ guessed'[c] = guessed[c]
                      /\ contact[c].state # "new" /\ contact'[c].state = "live" =>
                           contact'[c].email = contact[c].email
                           /\ contact'[c].blocked = contact[c].blocked

SessionStep(s, ss) ==
    /\ session[s].state # "new" => /\ session'[s].state # "new"
                                   /\ session'[s].contact = session[s].contact
    /\ s \notin ss => guesses'[s] = guesses[s]

Steps(cs, ss) ==
    /\ Grows
    /\ \A c \in ContactIDs : ContactStep(c, cs)
    /\ \A s \in SessionIDs : SessionStep(s, ss)

LEMMA RequestStays ==
    ASSUME ContactsInv, NEW cs, NEW ss, Steps(cs, ss), NEW y \in Requests, MarkedBy(y, cs, ss),
           \A z \in Requests : request'[z].contact \in {request[z].contact, NoContact},
           \A c \in ContactIDs : request[y].op = "create" /\ request[y].contact = c =>
                                 contact'[c].state = "new"
    PROVE  RequestInv(y)'
<1>0. RequestInv(y) /\ Grows
  BY DEF ContactsInv, Steps
<1>1. /\ request'[y].op = request[y].op /\ request'[y].contact = request[y].contact
      /\ request'[y].row = request[y].row /\ request'[y].session = request[y].session
      /\ request'[y].attempt = request[y].attempt /\ request'[y].email = request[y].email
      /\ ~request'[y].stale =>
           /\ ~request[y].stale /\ request[y].contact \notin cs
           /\ request[y].op = "fail attempt" => request[y].session \notin ss
  BY DEF MarkedBy
<1>2. ASSUME NEW c \in ContactIDs PROVE RequestOf(y, c)'
  <2>1. RequestOf(y, c) /\ ContactStep(c, cs)
    BY <1>0 DEF RequestInv, Steps
  <2>2. ASSUME request[y].contact = c, WriteInv(y, c) PROVE WriteInv(y, c)'
    <3>1. RowIsProven(c, request[y].row)'
      BY <1>0, <1>1, <2>2 DEF WriteInv, RowIsProven, Grows
    <3>2. contact'[c].state # "new"
      BY <2>1, <2>2 DEF WriteInv, ContactStep
    <3>3. ASSUME ~request'[y].stale
          PROVE  /\ Live(c)' => request[y].row.email = contact'[c].email
                                \/ request[y].row.email \in proven'[c]
                 /\ Live(c)' /\ request[y].row.blocked =>
                      contact'[c].blocked \/ request[y].op = "block"
                 /\ request[y].op = "wrong code" =>
                      guessed'[c] < request[y].row.tries \/ c \in overwritten'
                 /\ request[y].op \notin {"wrong code", "subscribe"} /\ ~request[y].row.verified =>
                      guessed'[c] <= request[y].row.tries \/ c \in overwritten'
      BY <1>0, <1>1, <2>1, <2>2, <3>3 DEF WriteInv, ContactStep, Grows, Live
    <3> QED BY <1>1, <2>2, <3>1, <3>2, <3>3 DEF WriteInv
  <2>3. ASSUME LoginInv(y, c) PROVE LoginInv(y, c)'
    BY <1>0, <1>1, <2>1, <2>3 DEF LoginInv, CodeShows, ContactStep, Grows, Live
  <2>4. ASSUME request[y].op = "create", request[y].contact = c, CreateInv(y, c)
        PROVE  CreateInv(y, c)'
    <3>1. \A z \in Requests \ {y} : request'[z].contact # c
      BY <2>4, ContactsConstants DEF CreateInv
    <3> QED BY <1>0, <1>1, <2>4, <3>1 DEF CreateInv, RowIsProven, Grows
  <2>5. QED BY <1>1, <2>1, <2>2, <2>3, <2>4 DEF RequestOf
<1>3. ASSUME NEW s \in SessionIDs PROVE AttemptOf(y, s)'
  <2>1. AttemptOf(y, s) /\ SessionStep(s, ss)
    BY <1>0 DEF RequestInv, Steps
  <2>2. ASSUME request[y].session = s, AttemptInv(y, s) PROVE AttemptInv(y, s)'
    <3>1. /\ session[s].state # "new" /\ session'[s].state # "new"
          /\ session'[s].contact = session[s].contact
      BY <2>1, <2>2 DEF AttemptInv, SessionStep
    <3>2. request'[y].op = "fail attempt" /\ ~request'[y].stale =>
            guesses'[s] < request'[y].attempt \/ s \in raced'
      BY <1>0, <1>1, <2>1, <2>2 DEF AttemptInv, SessionStep, Grows
    <3>3. ASSUME request[y].op = "right code", NEW c \in ContactIDs, session[s].contact = c,
                 Live(c)'
          PROVE  contact'[c].email \in proven'[c] \/ c \in overwritten'
      <4>1. ContactStep(c, cs) /\ contact[c].state # "new"
        <5>1. SessionInv(s)
          BY DEF ContactsInv
        <5> QED BY <3>1, <3>3, <5>1 DEF SessionInv, Steps
      <4>2. Live(c) => contact[c].email \in proven[c] \/ c \in overwritten
        BY <2>2, <3>3 DEF AttemptInv
      <4> QED BY <1>0, <3>3, <4>1, <4>2 DEF ContactStep, Grows, Live
    <3> QED BY <1>1, <2>2, <3>1, <3>2, <3>3 DEF AttemptInv
  <2>3. QED BY <1>1, <2>1, <2>2 DEF AttemptOf
<1>4. QED BY <1>0, <1>1, <1>2, <1>3 DEF RequestInv

LEMMA EndMarks ==
    ASSUME ContactsTypeOK, NEW x \in Requests, NEW cs, NEW ss, End(x, cs, ss)
    PROVE  /\ request' \in [Requests -> Intent] /\ request'[x] = Idle
           /\ \A y \in Requests \ {x} : MarkedBy(y, cs, ss)
<1>1. ASSUME NEW y \in Requests
      PROVE  /\ request'[y] \in Intent
             /\ y # x => MarkedBy(y, cs, ss)
  <2>1. request[y] \in Intent
    BY ContactsVariables
  <2>2. PICK stale \in BOOLEAN :
          stale = (\/ request[y].stale \/ request[y].contact \in cs
                   \/ request[y].op = "fail attempt" /\ request[y].session \in ss)
    <3>1. request[y].stale \in BOOLEAN
      BY <2>1 DEF Intent
    <3> QED BY <3>1
  <2>3. request'[y] = IF y = x THEN Idle ELSE [request[y] EXCEPT !.stale = stale]
    BY <2>2 DEF End
  <2>4. [request[y] EXCEPT !.stale = stale] \in Intent
    BY <2>1 DEF Intent
  <2>5. request'[y] \in Intent
    BY <2>3, <2>4, RowTypes
  <2>6. ASSUME y # x PROVE MarkedBy(y, cs, ss)
    <3>1. request'[y].stale = stale
      BY <2>1, <2>3, <2>6 DEF Intent
    <3> QED BY <2>1, <2>2, <2>3, <2>6, <3>1 DEF MarkedBy, Intent
  <2>7. QED BY <2>5, <2>6
<1>2. request' \in [Requests -> Intent] /\ request'[x] = Idle
  <2>1. request' = [y \in Requests |-> request'[y]] /\ request'[x] = Idle
    BY DEF End
  <2> QED BY <1>1, <2>1
<1>3. QED BY <1>1, <1>2

\* The request x is over, and the others go on.
LEMMA EndsKeepInv ==
    ASSUME ContactsInv, NEW x \in Requests, NEW cs, NEW ss, End(x, cs, ss), Steps(cs, ss),
           \A c \in ContactIDs : contact[c].state = "new" =>
             contact'[c].state = "new" \/ (request[x].op = "create" /\ request[x].contact = c)
    PROVE  request' \in [Requests -> Intent] /\ \A y \in Requests : RequestInv(y)'
<1>1. /\ request' \in [Requests -> Intent] /\ request'[x] = Idle
      /\ \A y \in Requests \ {x} : MarkedBy(y, cs, ss)
  BY EndMarks DEF ContactsInv
<1>2. RequestInv(x)'
  BY <1>1, RowTypes DEF RequestInv, RequestOf, AttemptOf, Writes
<1>3. ASSUME NEW y \in Requests, y # x PROVE RequestInv(y)'
  <2>1. \A z \in Requests : request'[z].contact \in {request[z].contact, NoContact}
    <3>1. \A z \in Requests \ {x} : request'[z].contact = request[z].contact
      BY <1>1 DEF MarkedBy
    <3>2. request'[x].contact = NoContact
      BY <1>1 DEF Idle
    <3> QED BY <3>1, <3>2
  <2>2. ASSUME NEW c \in ContactIDs, request[y].op = "create", request[y].contact = c
        PROVE  contact'[c].state = "new"
    <3>1. CreateInv(y, c)
      BY <2>2 DEF ContactsInv, RequestInv, RequestOf
    <3> QED BY <1>3, <3>1 DEF CreateInv
  <2>3. MarkedBy(y, cs, ss)
    BY <1>1, <1>3
  <2>4. QED BY <2>1, <2>2, <2>3, RequestStays
<1>4. QED BY <1>1, <1>2, <1>3

\* A session that stays, or goes.
LEMMA SessionStays ==
    ASSUME ContactsInv, NEW cs, NEW ss, Steps(cs, ss), NEW s \in SessionIDs,
           guesses'[s] = guesses[s],
           session'[s] = session[s]
             \/ (session[s].state # "new" /\ session'[s].state = "gone"),
           \A c \in ContactIDs : session'[s].state = "live" /\ session[s].contact = c =>
             /\ contact'[c].state = "live"
             /\ contact'[c].blocked => contact[c].blocked \/ c \in overwritten'
    PROVE  SessionInv(s)'
<1>0. SessionInv(s) /\ Grows
  BY DEF ContactsInv, Steps
<1>1. guesses'[s] <= LoginMaxAttempts \/ s \in raced'
  BY <1>0 DEF SessionInv, Grows
<1>2. /\ session'[s].state = "new" => guesses'[s] = 0
      /\ session'[s].state = "live" /\ ~session'[s].verified =>
           guesses'[s] <= session'[s].tries \/ s \in raced'
  BY <1>0 DEF SessionInv, Grows
<1>3. session'[s].state # "new" => session[s].state # "new" /\ session'[s].contact = session[s].contact
  BY DEF Steps, SessionStep
<1>4. ASSUME session'[s].state # "new"
      PROVE  \E c \in ContactIDs : session'[s].contact = c /\ contact'[c].state # "new"
  <2>1. PICK c \in ContactIDs : session[s].contact = c /\ contact[c].state # "new"
    BY <1>0, <1>3, <1>4 DEF SessionInv
  <2> QED BY <1>3, <1>4, <2>1 DEF Steps, ContactStep
<1>5. ASSUME NEW c \in ContactIDs, session'[s].state = "live", session'[s].contact = c
      PROVE  /\ Live(c)' /\ CodeShows(c, session[s].code)'
             /\ contact'[c].blocked => s \in letIn' \/ c \in overwritten'
  <2>1. session'[s] = session[s] /\ ContactStep(c, cs)
    BY <1>5 DEF Steps
  <2>2. /\ Live(c) /\ CodeShows(c, session[s].code)
        /\ contact[c].blocked => s \in letIn \/ c \in overwritten
    BY <1>0, <1>5, <2>1 DEF SessionInv
  <2>3. CodeShows(c, session[s].code)'
    BY <1>0, <2>1, <2>2 DEF CodeShows, ContactStep, Grows, Live
  <2>4. QED BY <1>0, <1>5, <2>1, <2>2, <2>3 DEF Grows, Live
<1>6. QED BY <1>1, <1>2, <1>4, <1>5 DEF SessionInv

-----------------------------------------------------------------------------
(* The requests that write.                                                *)

\* What the request x makes of the wrong codes that c's signup code has seen.
Guessing(x, c) ==
    /\ guessed' \in [ContactIDs -> Nat]
    /\ \A d \in ContactIDs \ {c} : guessed'[d] = guessed[d]
    /\ request[x].op = "subscribe" => guessed'[c] = 0
    /\ request[x].op = "wrong code" => guessed'[c] = guessed[c] + 1
    /\ request[x].op \notin {"subscribe", "wrong code"} => guessed'[c] = guessed[c]

\* The request x writes the whole row of c.
Saving(x, c) ==
    /\ request[x].contact = c /\ request[x].op \in Writes /\ Save(request[x]) /\ Guessing(x, c)
    /\ UNCHANGED proven /\ raced \subseteq raced' /\ letIn \subseteq letIn'

Saved(x, c) ==
    /\ Grows /\ \A d \in ContactIDs : ContactStep(d, {c}) /\ ContactInv(d)'
    /\ contact' \in [ContactIDs -> Contact] /\ overwritten' \subseteq ContactIDs
    /\ \A d \in ContactIDs : /\ contact[d].state = "live" => contact'[d].state = "live"
                             /\ contact[d].state = "new" => contact'[d].state = "new"
                             /\ contact'[d].blocked /\ contact'[d].state = "live" =>
                                  \/ contact[d].blocked \/ d \in overwritten'
                                  \/ (d = c /\ request[x].op = "block")
    /\ contact[c].state = "live" => contact'[c] = request[x].row
    /\ contact[c].state # "new" /\ RowIsProven(c, request[x].row)
    /\ request[x].op \in {"complete subscription", "complete login"} => request[x].row.verified

LEMMA SaveKeeps ==
    ASSUME ContactsInv, NEW x \in Requests, NEW c \in ContactIDs, Saving(x, c)
    PROVE  Saved(x, c)
<1> USE DEF Saving
<1>0. ContactsTypeOK /\ RequestInv(x) /\ ContactInv(c)
  BY DEF ContactsInv
<1>1. PICK row \in Contact, op \in Operations, stale \in BOOLEAN :
        row = request[x].row /\ op = request[x].op /\ stale = request[x].stale
  <2>1. request[x] \in Intent
    BY <1>0, ContactsVariables
  <2>2. /\ request[x].row \in Contact /\ request[x].op \in Operations
        /\ request[x].stale \in BOOLEAN
    BY <2>1 DEF Intent
  <2> QED BY <2>2
<1>2. WriteInv(x, c)
  BY <1>0 DEF RequestInv, RequestOf
<1>3. /\ contact' = [contact EXCEPT ![c] = IF Live(c) THEN row ELSE contact[c]]
      /\ overwritten' = IF stale THEN overwritten \cup {c} ELSE overwritten
  BY <1>0, <1>1, ContactsVariables DEF Save
<1>4. /\ contact \in [ContactIDs -> Contact] /\ contact' \in [ContactIDs -> Contact]
      /\ overwritten' \subseteq ContactIDs
      /\ contact'[c] = IF Live(c) THEN row ELSE contact[c]
      /\ \A d \in ContactIDs \ {c} : contact'[d] = contact[d]
  BY <1>0, <1>3, ContactsVariables
<1>5. Grows
  BY <1>3 DEF Grows
<1>6. /\ row.state = "live" /\ row.email \in Emails /\ RowIsProven(c, row)
      /\ contact[c].state # "new"
      /\ ~stale => /\ Live(c) => row.email = contact[c].email \/ row.email \in proven[c]
                   /\ Live(c) /\ row.blocked => contact[c].blocked \/ op = "block"
                   /\ op = "wrong code" => guessed[c] < row.tries \/ c \in overwritten
                   /\ op \notin {"wrong code", "subscribe"} /\ ~row.verified =>
                        guessed[c] <= row.tries \/ c \in overwritten
  BY <1>1, <1>2 DEF WriteInv, RowIsProven
<1>7. RowIsProven(c, row)'
  BY <1>5, <1>6, ProvenStays
<1>8. /\ row.tries \in Nat /\ row.tries <= SignupMaxAttempts
      /\ guessed[c] \in Nat /\ SignupMaxAttempts \in Nat
  <2>1. row.tries \in 0 .. SignupMaxAttempts
    BY DEF Contact
  <2>2. SignupMaxAttempts \in Nat /\ guessed[c] \in Nat
    BY <1>0, ContactsVariables, ContactsConstants
  <2> QED BY <2>1, <2>2
<1>9. guessed'[c] <= SignupMaxAttempts \/ c \in overwritten'
  <2>1. guessed[c] <= SignupMaxAttempts \/ c \in overwritten
    BY <1>0 DEF ContactInv
  <2>2. CASE op = "wrong code"
    <3>1. guessed[c] < row.tries \/ c \in overwritten'
      BY <1>3, <1>6, <2>2
    <3>2. guessed'[c] = guessed[c] + 1
      BY <1>1, <2>2 DEF Guessing
    <3>3. QED BY <1>8, <3>1, <3>2
  <2>3. CASE op # "wrong code"
    <3>1. guessed'[c] = 0 \/ guessed'[c] = guessed[c]
      BY <1>1, <2>3 DEF Guessing
    <3> QED BY <1>3, <1>8, <2>1, <3>1
  <2>4. QED BY <2>2, <2>3
<1>10. Live(c) /\ ~row.verified => guessed'[c] <= row.tries \/ c \in overwritten'
  <2> SUFFICES ASSUME Live(c), ~row.verified, c \notin overwritten'
               PROVE  guessed'[c] <= row.tries
    OBVIOUS
  <2>1. ~stale /\ c \notin overwritten
    BY <1>3
  <2>2. CASE op = "subscribe"
    BY <1>1, <1>8, <2>2 DEF Guessing
  <2>3. CASE op = "wrong code"
    <3>1. guessed[c] < row.tries /\ guessed'[c] = guessed[c] + 1
      BY <1>1, <1>6, <2>1, <2>3 DEF Guessing
    <3> QED BY <1>8, <3>1
  <2>4. CASE op \notin {"wrong code", "subscribe"}
    BY <1>1, <1>6, <2>1, <2>4 DEF Guessing
  <2>5. QED BY <2>2, <2>3, <2>4
<1>11. ContactInv(c)'
  <2>1. CASE Live(c)
    BY <1>4, <1>6, <1>7, <1>9, <1>10, <2>1 DEF ContactInv, RowIsProven, Live
  <2>2. CASE ~Live(c)
    <3>1. contact'[c] = contact[c] /\ ~(contact[c].state = "live") /\ contact[c].state # "new"
      BY <1>4, <1>6, <2>2 DEF Live
    <3>2. RowIsProven(c, contact[c])
      BY <1>0 DEF ContactInv
    <3> QED BY <1>5, <1>9, <3>1, <3>2 DEF ContactInv, RowIsProven, Live, Grows
  <2>3. QED BY <2>1, <2>2
<1>12. ASSUME NEW d \in ContactIDs PROVE ContactInv(d)' /\ ContactStep(d, {c})
  <2>1. CASE d # c
    BY <1>4, <1>5, <2>1, ContactStays DEF ContactsInv, ContactStep, Guessing
  <2>2. CASE d = c
    BY <1>3, <1>4, <1>6, <1>11, <2>2 DEF ContactStep, Live
  <2>3. QED BY <2>1, <2>2
<1>13. ASSUME NEW d \in ContactIDs
       PROVE  /\ contact[d].state = "live" => contact'[d].state = "live"
              /\ contact[d].state = "new" => contact'[d].state = "new"
              /\ contact'[d].blocked /\ contact'[d].state = "live" =>
                   \/ contact[d].blocked \/ d \in overwritten' \/ (d = c /\ op = "block")
  <2>1. CASE d # c
    <3>1. contact'[d] = contact[d]
      BY <1>4, <2>1
    <3>2. contact'[d].blocked = contact[d].blocked /\ contact'[d].state = contact[d].state
      BY <3>1
    <3> QED BY <3>2
  <2>2. CASE d = c /\ ~Live(c)
    BY <1>4, <2>2 DEF Live
  <2>3. CASE d = c /\ Live(c)
    <3>1. contact'[c] = row /\ row.state = "live" /\ contact[c].state # "new"
      BY <1>4, <1>6, <2>3
    <3>2. row.blocked => contact[c].blocked \/ op = "block" \/ c \in overwritten'
      BY <1>3, <1>6, <2>3
    <3>3. contact'[d].blocked = row.blocked /\ contact'[d].state = "live" /\ contact[d].state # "new"
      BY <2>3, <3>1
    <3>4. contact'[d].blocked => \/ contact[d].blocked \/ d \in overwritten'
                                \/ (d = c /\ op = "block")
      BY <2>3, <3>2, <3>3
    <3> QED BY <3>3, <3>4
  <2>4. QED BY <2>1, <2>2, <2>3
<1>14. request[x].op \in {"complete subscription", "complete login"} => request[x].row.verified
  BY <1>2 DEF WriteInv
<1>15. contact[c].state # "new" /\ RowIsProven(c, request[x].row)
  BY <1>2 DEF WriteInv
<1>16. QED BY <1>1, <1>4, <1>5, <1>6, <1>12, <1>13, <1>14, <1>15 DEF Live, Saved

\* A request that writes a row is over, and everything is as it must be if the sessions are.
LEMMA SaveInv ==
    ASSUME ContactsInv, NEW x \in Requests, NEW c \in ContactIDs, Saving(x, c), NEW ss,
           End(x, {c}, ss), UNCHANGED <<proven, guesses, raced>>, letIn' \subseteq SessionIDs,
           session' \in [SessionIDs -> Session],
           links' \subseteq [contact : ContactIDs, old : Emails, new : Emails],
           \A s \in SessionIDs : SessionStep(s, ss),
           Steps({c}, ss) => \A s \in SessionIDs : SessionInv(s)'
    PROVE  ContactsInv'
<1>0. ContactsTypeOK
  BY DEF ContactsInv
<1>1. /\ Grows /\ \A d \in ContactIDs : ContactStep(d, {c}) /\ ContactInv(d)'
      /\ contact' \in [ContactIDs -> Contact] /\ overwritten' \subseteq ContactIDs
      /\ \A d \in ContactIDs : contact[d].state = "new" => contact'[d].state = "new"
  BY SaveKeeps DEF Saved
<1>2. Steps({c}, ss)
  BY <1>1 DEF Steps
<1>3. request' \in [Requests -> Intent] /\ \A y \in Requests : RequestInv(y)'
  BY <1>1, <1>2, EndsKeepInv
<1>4. ContactsTypeOK'
  BY <1>0, <1>1, <1>3 DEF ContactsTypeOK, Intent, Saving, Guessing
<1>5. QED BY <1>1, <1>2, <1>3, <1>4 DEF ContactsInv

LEMMA Written ==
    ASSUME ContactsInv, NEW x \in Requests, request[x].op \in Writes
    PROVE  \E c \in ContactIDs : c = request[x].contact /\ WriteInv(x, c)
BY DEF ContactsInv, RequestInv, RequestOf

\* A session that the write leaves alone, or ends.
LEMMA SavedSessionStays ==
    ASSUME ContactsInv, NEW x \in Requests, NEW c \in ContactIDs, Saved(x, c),
           request[x].op # "block", NEW ss, Steps({c}, ss), NEW s \in SessionIDs,
           guesses'[s] = guesses[s],
           session'[s] = session[s]
             \/ (session[s].state # "new" /\ session'[s].state = "gone")
    PROVE  SessionInv(s)'
<1>1. ASSUME NEW d \in ContactIDs, session'[s].state = "live", session[s].contact = d
      PROVE  contact'[d].state = "live"
             /\ (contact'[d].blocked => contact[d].blocked \/ d \in overwritten')
  <2>1. contact[d].state = "live"
    <3>1. session[s].state = "live" /\ SessionInv(s)
      BY <1>1 DEF ContactsInv
    <3> QED BY <1>1, <3>1 DEF SessionInv, Live
  <2> QED BY <2>1 DEF Saved
<1>2. QED BY <1>1, SessionStays

LEMMA UpdateContactInternalInv ==
    ASSUME ContactsInv, NEW x \in Requests, UpdateContactInternal(x)
    PROVE  ContactsInv'
<1>0. ContactsTypeOK
  BY DEF ContactsInv
<1>1. PICK c \in ContactIDs : c = request[x].contact /\ WriteInv(x, c)
  BY Written DEF UpdateContactInternal, Writes
<1>2. /\ request[x].op \in Writes \ {"block"} /\ Save(request[x]) /\ End(x, {c}, {})
      /\ UNCHANGED <<session, proven, guesses, raced, letIn>>
      /\ links' = IF request[x].email = NoEmail THEN links
                  ELSE links \cup {[contact |-> c, old |-> request[x].row.email,
                                    new |-> request[x].email]}
  BY <1>1 DEF UpdateContactInternal, Writes
<1>3. Guessing(x, c)
  <2>1. PICK n : n = CASE request[x].op = "subscribe" -> 0
                       [] request[x].op = "wrong code" -> guessed[c] + 1
                       [] OTHER -> guessed[c]
    OBVIOUS
  <2>2. guessed' = [guessed EXCEPT ![c] = n]
    BY <1>1, <2>1 DEF UpdateContactInternal
  <2>3. /\ request[x].op = "subscribe" => n = 0
        /\ request[x].op = "wrong code" => n = guessed[c] + 1
        /\ request[x].op \notin {"subscribe", "wrong code"} => n = guessed[c]
    BY <2>1
  <2>4. guessed \in [ContactIDs -> Nat]
    BY <1>0, ContactsVariables
  <2>5. n \in Nat
    <3>1. guessed[c] \in Nat
      BY <2>4
    <3>2. n \in {0, guessed[c], guessed[c] + 1}
      BY <2>3
    <3> QED BY <3>1, <3>2
  <2>6. QED BY <2>2, <2>3, <2>4, <2>5 DEF Guessing
<1>4. links' \subseteq [contact : ContactIDs, old : Emails, new : Emails]
  <2>1. request[x].row.email \in Emails
    BY <1>1 DEF WriteInv
  <2>2. request[x].email \in Emails \cup {NoEmail}
    BY <1>0, ContactsVariables DEF Intent
  <2> QED BY <1>0, <1>2, <2>1, <2>2, ContactsVariables
<1>5. /\ session' \in [SessionIDs -> Session] /\ letIn' \subseteq SessionIDs
      /\ \A s \in SessionIDs : SessionStep(s, {})
  BY <1>0, <1>2, ContactsVariables DEF SessionStep
<1>6. Saving(x, c)
  BY <1>1, <1>2, <1>3 DEF Saving
<1>7. ASSUME Steps({c}, {}), NEW s \in SessionIDs PROVE SessionInv(s)'
  <2>1. Saved(x, c)
    BY <1>6, SaveKeeps
  <2> QED BY <1>2, <1>7, <2>1, SavedSessionStays
<1>8. QED BY <1>2, <1>4, <1>5, <1>7, <1>6, SaveInv

LEMMA WithoutSessions ==
    ASSUME ContactsTypeOK, NEW ss, session' = Without(ss),
           \A s \in ss \cap SessionIDs : session[s].state = "live"
    PROVE  /\ session' \in [SessionIDs -> Session]
           /\ \A s \in SessionIDs :
                /\ session[s].state # "new" => /\ session'[s].state # "new"
                                               /\ session'[s].contact = session[s].contact
                /\ s \notin ss => session'[s] = session[s]
                /\ s \in ss => session[s].state # "new" /\ session'[s].state = "gone"
<1>1. ASSUME NEW s \in SessionIDs
      PROVE  /\ session'[s] \in Session
             /\ s \notin ss => session'[s] = session[s]
             /\ s \in ss => session'[s].state = "gone" /\ session'[s].contact = session[s].contact
  <2>1. session[s] \in Session
    BY ContactsVariables
  <2>2. session'[s] = IF s \in ss THEN [session[s] EXCEPT !.state = "gone"] ELSE session[s]
    BY DEF Without
  <2> QED BY <2>1, <2>2 DEF Session
<1>2. session' = [s \in SessionIDs |-> session'[s]]
  BY DEF Without
<1>3. QED BY <1>1, <1>2

LEMMA BlockInv ==
    ASSUME ContactsInv, NEW x \in Requests, Block(x)
    PROVE  ContactsInv'
<1>0. ContactsTypeOK
  BY DEF ContactsInv
<1>1. PICK c \in ContactIDs : c = request[x].contact /\ WriteInv(x, c)
  BY Written DEF Block, Writes
<1>2. PICK ss : ss = SessionsOf(c)
  OBVIOUS
<1>3. /\ request[x].op = "block" /\ Save(request[x]) /\ End(x, {c}, ss)
      /\ session' = Without(ss)
      /\ UNCHANGED <<links, proven, guesses, guessed, raced, letIn>>
  BY <1>1, <1>2 DEF Block, proofVars
<1>4. Guessing(x, c)
  BY <1>0, <1>3, ContactsVariables DEF Guessing
<1>5. /\ session' \in [SessionIDs -> Session]
      /\ \A s \in SessionIDs :
           /\ session[s].state # "new" => /\ session'[s].state # "new"
                                          /\ session'[s].contact = session[s].contact
           /\ s \notin ss => session'[s] = session[s]
           /\ s \in ss => session[s].state # "new" /\ session'[s].state = "gone"
  BY <1>0, <1>2, <1>3, WithoutSessions DEF SessionsOf
<1>6. \A s \in SessionIDs : SessionStep(s, ss)
  BY <1>3, <1>5 DEF SessionStep
<1>7. Saving(x, c)
  BY <1>1, <1>3, <1>4 DEF Saving, Writes
<1>8. \A d \in ContactIDs :
         /\ contact[d].state = "live" => contact'[d].state = "live"
         /\ contact'[d].blocked /\ contact'[d].state = "live" =>
              \/ contact[d].blocked \/ d \in overwritten'
              \/ (d = c /\ request[x].op = "block")
  <2>1. Saved(x, c)
    BY <1>7, SaveKeeps
  <2> QED BY <2>1 DEF Saved
<1>9. ASSUME Steps({c}, ss), NEW s \in SessionIDs PROVE SessionInv(s)'
  <2>1. ASSUME NEW d \in ContactIDs, session'[s].state = "live", session[s].contact = d
        PROVE  contact'[d].state = "live"
               /\ (contact'[d].blocked => contact[d].blocked \/ d \in overwritten')
    <3>1. contact[d].state = "live" /\ session[s].state = "live" /\ s \notin ss
      BY <1>5, <2>1 DEF ContactsInv, SessionInv, Live
    <3>2. d # c
      BY <1>2, <2>1, <3>1 DEF SessionsOf
    <3> QED BY <1>8, <3>1, <3>2
  <2> QED BY <1>3, <1>5, <1>9, <2>1, SessionStays
<1>10. /\ letIn' \subseteq SessionIDs
      /\ links' \subseteq [contact : ContactIDs, old : Emails, new : Emails]
  BY <1>0, <1>3, ContactsVariables DEF Writes
<1>11. QED BY <1>3, <1>5, <1>6, <1>9, <1>10, <1>7, SaveInv

LEMMA CompleteSubscriptionInv ==
    ASSUME ContactsInv, NEW x \in Requests, NEW s \in SessionIDs, CompleteSubscription(x, s)
    PROVE  ContactsInv'
<1>0. ContactsTypeOK /\ SessionInv(s)
  BY DEF ContactsInv
<1>1. PICK c \in ContactIDs : c = request[x].contact /\ WriteInv(x, c)
  BY Written DEF CompleteSubscription, Writes
<1>2. PICK new : new = [state |-> "live", contact |-> c, verified |-> TRUE, code |-> NoEmail,
                        tries |-> 0]
  OBVIOUS
<1>3. /\ request[x].op = "complete subscription" /\ Live(c) /\ session[s].state = "new"
      /\ Save(request[x]) /\ End(x, {c}, {}) /\ session' = [session EXCEPT ![s] = new]
      /\ letIn' = IF request[x].row.blocked THEN letIn \cup {s} ELSE letIn
      /\ UNCHANGED <<links, proven, guesses, guessed, raced>>
  BY <1>1, <1>2 DEF CompleteSubscription, Upcoming, proofVars
<1>4. Guessing(x, c)
  BY <1>0, <1>3, ContactsVariables DEF Guessing
<1>5. Saving(x, c)
  BY <1>1, <1>3, <1>4 DEF Saving, Writes
<1>6. Saved(x, c)
  BY <1>5, SaveKeeps
<1>7. /\ session' \in [SessionIDs -> Session] /\ session'[s] = new
      /\ \A t \in SessionIDs \ {s} : session'[t] = session[t]
  <2>1. new \in Session
    BY <1>2, ContactsConstants DEF Session
  <2> QED BY <1>0, <1>3, <2>1, ContactsVariables
<1>8. \A t \in SessionIDs : SessionStep(t, {})
  BY <1>3, <1>7 DEF SessionStep
<1>9. ASSUME Steps({c}, {}), NEW t \in SessionIDs PROVE SessionInv(t)'
  <2>1. CASE t # s
    BY <1>3, <1>6, <1>7, <1>9, <2>1, SavedSessionStays
  <2>2. CASE t = s
    <3>1. guesses'[s] = 0 /\ LoginMaxAttempts \in Nat
      BY <1>0, <1>3, ContactsConstants DEF SessionInv
    <3>2. /\ session'[s].state = "live" /\ session'[s].contact = c /\ session'[s].verified
      BY <1>2, <1>7
    <3>3. PICK row : row = request[x].row /\ contact'[c] = row /\ contact'[c].state = "live"
                     /\ row.verified /\ RowIsProven(c, row)
      BY <1>3, <1>6 DEF Saved, Live
    <3>4. contact'[c].email \in proven'[c] \/ c \in overwritten'
      BY <1>6, <3>3 DEF Saved, Grows, RowIsProven
    <3>5. contact'[c].blocked => s \in letIn'
      BY <1>3, <3>3
    <3> QED BY <2>2, <3>1, <3>2, <3>3, <3>4, <3>5 DEF SessionInv, CodeShows, Live
  <2>3. QED BY <2>1, <2>2
<1>10. /\ letIn' \subseteq SessionIDs
       /\ links' \subseteq [contact : ContactIDs, old : Emails, new : Emails]
  BY <1>0, <1>3, ContactsVariables
<1>11. QED BY <1>3, <1>5, <1>7, <1>8, <1>9, <1>10, SaveInv

LEMMA CompleteLoginInv ==
    ASSUME ContactsInv, NEW x \in Requests, CompleteLogin(x)
    PROVE  ContactsInv'
<1>0. ContactsTypeOK /\ RequestInv(x) /\ request[x] \in Intent
  BY ContactsVariables DEF ContactsInv
<1>1. PICK c \in ContactIDs : c = request[x].contact /\ WriteInv(x, c)
  BY Written DEF CompleteLogin, Writes
<1>2. PICK s \in SessionIDs : s = request[x].session /\ AttemptInv(x, s)
  BY <1>0 DEF CompleteLogin, RequestInv, AttemptOf
<1>3. PICK older : older = Older(c)
  OBVIOUS
<1>4. PICK row : row = [session[s] EXCEPT !.verified = TRUE, !.code = NoEmail,
                                          !.tries = request[x].attempt]
  OBVIOUS
<1>5. /\ request[x].op = "complete login" /\ Save(request[x]) /\ End(x, {c}, older \cup {s})
      /\ UNCHANGED <<links, proven, guesses, guessed, raced, letIn>>
      /\ session' = [t \in SessionIDs |->
                       IF t = s /\ session[t].state = "live" /\ t \notin older
                       THEN [session[t] EXCEPT !.verified = TRUE, !.code = NoEmail,
                                               !.tries = request[x].attempt]
                       ELSE Without(older)[t]]
  BY <1>1, <1>2, <1>3 DEF CompleteLogin, proofVars
<1>6. Guessing(x, c)
  BY <1>0, <1>5, ContactsVariables DEF Guessing
<1>7. Saving(x, c)
  BY <1>1, <1>5, <1>6 DEF Saving, Writes
<1>8. Saved(x, c)
  BY <1>7, SaveKeeps
<1>9. session[s].contact = c /\ session[s].state # "new" /\ session[s] \in Session
  BY <1>0, <1>1, <1>2, <1>5, ContactsVariables DEF AttemptInv
<1>10. /\ row \in Session /\ row.state = session[s].state /\ row.contact = c /\ row.verified
       /\ row.code = NoEmail
  <2>1. request[x].attempt \in 0 .. LoginMaxAttempts
    BY <1>0 DEF Intent
  <2> QED BY <1>4, <1>9, <2>1 DEF Session
<1>11. ASSUME NEW t \in SessionIDs
       PROVE  /\ session'[t] \in Session
              /\ \/ session'[t] = session[t]
                 \/ session[t].state = "live" /\ session'[t].state = "gone"
                    /\ session'[t].contact = session[t].contact
                 \/ t = s /\ session[s].state = "live" /\ session'[s] = row
  <2>1. session[t] \in Session
    BY <1>0, ContactsVariables
  <2>2. t \in older => session[t].state = "live"
    BY <1>3 DEF Older, SessionsOf
  <2>3. CASE t = s /\ session[t].state = "live" /\ t \notin older
    <3>1. session'[t] = row
      BY <1>4, <1>5, <2>3
    <3> QED BY <1>10, <2>3, <3>1
  <2>4. CASE ~(t = s /\ session[t].state = "live" /\ t \notin older)
    <3>1. session'[t] = IF t \in older THEN [session[t] EXCEPT !.state = "gone"] ELSE session[t]
      BY <1>5, <2>4 DEF Without
    <3> QED BY <2>1, <2>2, <3>1 DEF Session
  <2>5. QED BY <2>3, <2>4
<1>12. session' \in [SessionIDs -> Session]
  <2>1. session' = [t \in SessionIDs |-> session'[t]]
    BY <1>5
  <2> QED BY <1>11, <2>1
<1>13. \A t \in SessionIDs : SessionStep(t, older \cup {s})
  BY <1>5, <1>9, <1>10, <1>11 DEF SessionStep
<1>14. ASSUME Steps({c}, older \cup {s}), NEW t \in SessionIDs PROVE SessionInv(t)'
  <2>1. CASE session'[t] = session[t] \/ (session[t].state = "live" /\ session'[t].state = "gone")
    BY <1>5, <1>8, <1>14, <2>1, SavedSessionStays
  <2>2. CASE t = s /\ session[s].state = "live" /\ session'[s] = row
    <3>1. SessionInv(s) /\ UNCHANGED <<guesses, raced, letIn>>
      BY <1>5 DEF ContactsInv
    <3>2. guesses'[s] <= LoginMaxAttempts \/ s \in raced'
      BY <3>1 DEF SessionInv
    <3>3. /\ contact[c].state = "live"
          /\ contact[c].blocked => s \in letIn \/ c \in overwritten
      BY <1>9, <2>2, <3>1 DEF SessionInv, Live
    <3>4. /\ session'[s].state = "live" /\ session'[s].contact = c /\ session'[s].verified
      BY <1>10, <2>2
    <3>5. PICK r : r = request[x].row /\ contact'[c] = r /\ contact'[c].state = "live"
                   /\ r.verified /\ RowIsProven(c, r)
      BY <1>5, <1>8, <3>3 DEF Saved
    <3>6. contact'[c].email \in proven'[c] \/ c \in overwritten'
      BY <1>8, <3>5 DEF Saved, Grows, RowIsProven
    <3>7. contact'[c].blocked => s \in letIn' \/ c \in overwritten'
      BY <1>5, <1>8, <3>1, <3>3, <3>5 DEF Saved, Grows
    <3> QED BY <2>2, <3>2, <3>4, <3>5, <3>6, <3>7 DEF SessionInv, CodeShows, Live
  <2>3. QED BY <1>11, <2>1, <2>2
<1>15. /\ letIn' \subseteq SessionIDs
       /\ links' \subseteq [contact : ContactIDs, old : Emails, new : Emails]
  BY <1>0, <1>5, ContactsVariables
<1>16. QED BY <1>5, <1>7, <1>12, <1>13, <1>14, <1>15, SaveInv

-----------------------------------------------------------------------------
(* What is written besides whole rows.                                     *)

LEMMA CreateSessionInv ==
    ASSUME ContactsInv, NEW x \in Requests, NEW s \in SessionIDs, CreateSession(x, s)
    PROVE  ContactsInv'
<1>0. ContactsTypeOK /\ RequestInv(x) /\ request[x] \in Intent /\ SessionInv(s)
  BY ContactsVariables DEF ContactsInv
<1>1. PICK c \in ContactIDs : c = request[x].contact /\ LoginInv(x, c)
  BY <1>0 DEF CreateSession, RequestInv, RequestOf
<1>2. PICK new : new = [state |-> "live", contact |-> c, verified |-> FALSE,
                        code |-> request[x].email, tries |-> 0]
  OBVIOUS
<1>3. /\ Live(c) /\ session[s].state = "new" /\ session' = [session EXCEPT ![s] = new]
      /\ letIn' = IF contact[c].blocked /\ ~request[x].row.blocked THEN letIn \cup {s} ELSE letIn
      /\ End(x, {}, {})
      /\ UNCHANGED <<contact, links, proven, guesses, guessed, overwritten, raced>>
  BY <1>1, <1>2 DEF CreateSession, Upcoming, proofVars
<1>4. /\ session' \in [SessionIDs -> Session] /\ session'[s] = new
      /\ \A t \in SessionIDs \ {s} : session'[t] = session[t]
  <2>1. request[x].email \in Emails \cup {NoEmail} /\ 0 \in 0 .. LoginMaxAttempts
    BY <1>0, ContactsConstants DEF Intent
  <2>2. new \in Session
    BY <1>2, <2>1 DEF Session
  <2> QED BY <1>0, <1>3, <2>2, ContactsVariables
<1>5. Grows
  BY <1>3 DEF Grows
<1>6. Steps({}, {})
  <2>1. \A d \in ContactIDs : ContactStep(d, {})
    BY <1>3 DEF ContactStep
  <2>2. \A t \in SessionIDs : SessionStep(t, {})
    BY <1>3, <1>4 DEF SessionStep
  <2> QED BY <1>5, <2>1, <2>2 DEF Steps
<1>7. request' \in [Requests -> Intent] /\ \A y \in Requests : RequestInv(y)'
  BY <1>3, <1>6, EndsKeepInv
<1>8. ASSUME NEW t \in SessionIDs PROVE SessionInv(t)'
  <2>1. CASE t # s
    <3>1. session'[t] = session[t] /\ SessionInv(t)
      BY <1>4, <2>1 DEF ContactsInv
    <3>2. \A d \in ContactIDs : session'[t].state = "live" /\ session[t].contact = d =>
            /\ contact'[d].state = "live"
            /\ contact'[d].blocked => contact[d].blocked \/ d \in overwritten'
      BY <1>3, <3>1 DEF SessionInv, Live
    <3> QED BY <1>3, <1>6, <3>1, <3>2, SessionStays
  <2>2. CASE t = s
    <3>1. guesses'[s] = 0 /\ LoginMaxAttempts \in Nat
      BY <1>0, <1>3, ContactsConstants DEF SessionInv
    <3>2. /\ session'[s].state = "live" /\ session'[s].contact = c /\ session'[s].tries = 0
          /\ session'[s].code = request[x].email
      BY <1>2, <1>4
    <3>3. /\ UNCHANGED <<contact, proven, overwritten>> /\ Live(c)
          /\ CodeShows(c, request[x].email) /\ ~request[x].row.blocked
      BY <1>1, <1>3 DEF LoginInv
    <3>4. contact[c].blocked => s \in letIn'
      BY <1>3, <3>3
    <3> QED BY <2>2, <3>1, <3>2, <3>3, <3>4 DEF SessionInv, CodeShows, Live
  <2>3. QED BY <2>1, <2>2
<1>9. \A d \in ContactIDs : ContactInv(d)'
  BY <1>3, <1>5, ContactStays DEF ContactsInv
<1>10. ContactsTypeOK'
  BY <1>0, <1>3, <1>4, <1>7 DEF ContactsTypeOK, Intent
<1>11. QED BY <1>7, <1>8, <1>9, <1>10 DEF ContactsInv

LEMMA FailSessionLoginAttemptInv ==
    ASSUME ContactsInv, NEW x \in Requests, FailSessionLoginAttempt(x)
    PROVE  ContactsInv'
<1>0. ContactsTypeOK /\ RequestInv(x) /\ request[x] \in Intent
  BY ContactsVariables DEF ContactsInv
<1>1. PICK s \in SessionIDs : s = request[x].session /\ AttemptInv(x, s)
  BY <1>0 DEF FailSessionLoginAttempt, RequestInv, AttemptOf
<1>2. PICK n, stale : n = request[x].attempt /\ stale = request[x].stale
  OBVIOUS
<1>3. /\ request[x].op = "fail attempt" /\ End(x, {}, {s})
      /\ guesses' = [guesses EXCEPT ![s] = @ + 1]
      /\ raced' = IF stale THEN raced \cup {s} ELSE raced
      /\ UNCHANGED <<contact, links, proven, guessed, overwritten, letIn>>
      /\ IF session[s].state = "live"
         THEN session' = [session EXCEPT ![s].tries = n, ![s].verified = FALSE]
         ELSE UNCHANGED session
  BY <1>1, <1>2 DEF FailSessionLoginAttempt
<1>4. n \in 0 .. LoginMaxAttempts /\ n \in Nat /\ n <= LoginMaxAttempts /\ LoginMaxAttempts \in Nat
  <2>1. n \in 0 .. LoginMaxAttempts
    BY <1>0, <1>2 DEF Intent
  <2> QED BY <2>1, ContactsConstants
<1>5. /\ session' \in [SessionIDs -> Session]
      /\ \A t \in SessionIDs \ {s} : session'[t] = session[t]
      /\ session'[s].state = session[s].state /\ session'[s].contact = session[s].contact
      /\ session'[s].code = session[s].code
      /\ session'[s].state = "live" => session'[s].tries = n
  <2>1. session \in [SessionIDs -> Session] /\ session[s] \in Session
    BY <1>0, ContactsVariables
  <2>2. CASE session[s].state = "live"
    <3>1. session' = [session EXCEPT ![s].tries = n, ![s].verified = FALSE]
      BY <1>3, <2>2
    <3> QED BY <1>4, <2>1, <3>1 DEF Session
  <2>3. CASE session[s].state # "live"
    BY <1>3, <2>1, <2>3
  <2>4. QED BY <2>2, <2>3
<1>6. /\ guesses \in [SessionIDs -> Nat] /\ guesses' \in [SessionIDs -> Nat]
      /\ guesses'[s] = guesses[s] + 1
      /\ \A t \in SessionIDs \ {s} : guesses'[t] = guesses[t]
  <2>1. guesses \in [SessionIDs -> Nat] /\ guesses[s] + 1 \in Nat
    BY <1>0, ContactsVariables
  <2> QED BY <1>3, <2>1
<1>7. Grows
  BY <1>3 DEF Grows
<1>8. session[s].state # "new" /\ (~stale => guesses[s] < n \/ s \in raced)
  BY <1>1, <1>2, <1>3 DEF AttemptInv
<1>9. Steps({}, {s})
  <2>1. \A d \in ContactIDs : ContactStep(d, {})
    BY <1>3 DEF ContactStep
  <2>2. \A t \in SessionIDs : SessionStep(t, {s})
    BY <1>5, <1>6, <1>8 DEF SessionStep
  <2> QED BY <1>7, <2>1, <2>2 DEF Steps
<1>10. request' \in [Requests -> Intent] /\ \A y \in Requests : RequestInv(y)'
  BY <1>3, <1>9, EndsKeepInv
<1>11. guesses'[s] <= n \/ s \in raced'
  <2>1. CASE stale
    BY <1>3, <2>1
  <2>2. CASE ~stale
    <3>1. guesses[s] \in Nat /\ (guesses[s] < n \/ s \in raced') /\ guesses'[s] = guesses[s] + 1
      BY <1>3, <1>6, <1>8, <2>2
    <3> QED BY <1>4, <3>1
  <2>3. QED BY <2>1, <2>2
<1>12. ASSUME NEW t \in SessionIDs PROVE SessionInv(t)'
  <2>0. SessionInv(t)
    BY DEF ContactsInv
  <2>1. CASE t # s
    <3>1. session'[t] = session[t] /\ guesses'[t] = guesses[t]
      BY <1>5, <1>6, <2>1
    <3>2. \A d \in ContactIDs : session'[t].state = "live" /\ session[t].contact = d =>
            /\ contact'[d].state = "live"
            /\ contact'[d].blocked => contact[d].blocked \/ d \in overwritten'
      BY <1>3, <2>0, <3>1 DEF SessionInv, Live
    <3> QED BY <1>9, <3>1, <3>2, SessionStays
  <2>2. CASE t = s
    <3>1. guesses'[s] <= LoginMaxAttempts \/ s \in raced'
      <4>1. guesses'[s] \in Nat
        BY <1>6
      <4> QED BY <1>4, <1>11, <4>1
    <3>3. UNCHANGED <<contact, proven, overwritten, letIn>>
      BY <1>3
    <3>4. /\ \E c \in ContactIDs : session'[s].contact = c /\ contact'[c].state # "new"
          /\ \A c \in ContactIDs : session'[s].state = "live" /\ session'[s].contact = c =>
               /\ Live(c)' /\ CodeShows(c, session[s].code)'
               /\ contact'[c].blocked => s \in letIn' \/ c \in overwritten'
      BY <1>5, <1>8, <2>0, <2>2, <3>3 DEF SessionInv, CodeShows, Live
    <3> QED BY <1>5, <1>8, <1>11, <2>2, <3>1, <3>4 DEF SessionInv
  <2>3. QED BY <2>1, <2>2
<1>13. \A d \in ContactIDs : ContactInv(d)'
  BY <1>3, <1>7, ContactStays DEF ContactsInv
<1>14. ContactsTypeOK'
  <2>1. raced' \subseteq SessionIDs
    BY <1>0, <1>3 DEF ContactsTypeOK
  <2> QED BY <1>0, <1>3, <1>5, <1>6, <1>10, <2>1 DEF ContactsTypeOK, Intent
<1>15. QED BY <1>10, <1>12, <1>13, <1>14 DEF ContactsInv

LEMMA CreateContactInternalInv ==
    ASSUME ContactsInv, NEW x \in Requests, CreateContactInternal(x)
    PROVE  ContactsInv'
<1>0. ContactsTypeOK /\ RequestInv(x) /\ request[x] \in Intent
  BY ContactsVariables DEF ContactsInv
<1>1. PICK c \in ContactIDs : c = request[x].contact /\ CreateInv(x, c)
  BY <1>0 DEF CreateContactInternal, RequestInv, RequestOf
<1>2. PICK row \in Contact : row = request[x].row
  BY <1>0 DEF Intent
<1>3. /\ request[x].op = "create" /\ contact' = [contact EXCEPT ![c] = row] /\ End(x, {}, {})
      /\ UNCHANGED <<session, links, proven, guesses, guessed, overwritten, raced, letIn>>
  BY <1>1, <1>2 DEF CreateContactInternal, proofVars, raceVars
<1>4. /\ row.state = "live" /\ row.email \in Emails /\ RowIsProven(c, row)
      /\ contact[c].state = "new"
  BY <1>1, <1>2 DEF CreateInv
<1>5. /\ contact' \in [ContactIDs -> Contact] /\ contact'[c] = row
      /\ \A d \in ContactIDs \ {c} : contact'[d] = contact[d]
  BY <1>0, <1>3, ContactsVariables
<1>6. Grows
  BY <1>3 DEF Grows
<1>7. Steps({}, {})
  <2>1. \A d \in ContactIDs : ContactStep(d, {})
    BY <1>3, <1>4, <1>5 DEF ContactStep
  <2>2. \A t \in SessionIDs : SessionStep(t, {})
    BY <1>3 DEF SessionStep
  <2> QED BY <1>6, <2>1, <2>2 DEF Steps
<1>8. request' \in [Requests -> Intent] /\ \A y \in Requests : RequestInv(y)'
  <2>1. \A d \in ContactIDs : contact[d].state = "new" =>
          contact'[d].state = "new" \/ (request[x].op = "create" /\ request[x].contact = d)
    BY <1>1, <1>3, <1>5
  <2> QED BY <1>3, <1>7, <2>1, EndsKeepInv
<1>9. ASSUME NEW d \in ContactIDs PROVE ContactInv(d)'
  <2>1. CASE d # c
    BY <1>3, <1>5, <1>6, <2>1, ContactStays DEF ContactsInv
  <2>2. CASE d = c
    <3>1. guessed'[c] = 0 /\ row.tries >= 0 /\ SignupMaxAttempts >= 0
      <4>1. guessed[c] = 0
        BY <1>4 DEF ContactsInv, ContactInv
      <4>2. row.tries \in 0 .. SignupMaxAttempts
        BY DEF Contact
      <4> QED BY <1>3, <4>1, <4>2, ContactsConstants
    <3>2. RowIsProven(c, row)'
      BY <1>4, <1>6, ProvenStays
    <3> QED BY <1>4, <1>5, <2>2, <3>1, <3>2 DEF ContactInv, RowIsProven, Live
  <2>3. QED BY <2>1, <2>2
<1>10. ASSUME NEW t \in SessionIDs PROVE SessionInv(t)'
  <2>1. \A d \in ContactIDs : session'[t].state = "live" /\ session[t].contact = d =>
          /\ contact'[d].state = "live"
          /\ contact'[d].blocked => contact[d].blocked \/ d \in overwritten'
    <3>1. \A d \in ContactIDs : session[t].state = "live" /\ session[t].contact = d => Live(d)
      BY DEF ContactsInv, SessionInv
    <3>2. UNCHANGED session
      BY <1>3
    <3> QED BY <1>4, <1>5, <3>1, <3>2 DEF Live
  <2> QED BY <1>3, <1>7, <2>1, SessionStays
<1>11. ContactsTypeOK'
  BY <1>0, <1>3, <1>5, <1>8 DEF ContactsTypeOK, Intent
<1>12. QED BY <1>8, <1>9, <1>10, <1>11 DEF ContactsInv

\* Nobody's request is over.
LEMMA RequestsStay ==
    ASSUME ContactsInv, Steps({}, {}), \A y \in Requests : MarkedBy(y, {}, {}),
           \A c \in ContactIDs : contact[c].state = "new" => contact'[c].state = "new"
    PROVE  \A y \in Requests : RequestInv(y)'
<1>1. ASSUME NEW y \in Requests PROVE RequestInv(y)'
  <2>1. \A z \in Requests : request'[z].contact \in {request[z].contact, NoContact}
    BY DEF MarkedBy
  <2>2. ASSUME NEW c \in ContactIDs, request[y].op = "create", request[y].contact = c
        PROVE  contact'[c].state = "new"
    <3>1. CreateInv(y, c)
      BY <2>2 DEF ContactsInv, RequestInv, RequestOf
    <3> QED BY <3>1 DEF CreateInv
  <2>3. QED BY <2>1, <2>2, RequestStays
<1>2. QED BY <1>1

LEMMA DeleteContactInv ==
    ASSUME ContactsInv, NEW c \in ContactIDs, DeleteContact(c)
    PROVE  ContactsInv'
<1>0. ContactsTypeOK
  BY DEF ContactsInv
<1>1. PICK ss, row : ss = SessionsOf(c) /\ row = [NoRow EXCEPT !.state = "gone"]
  OBVIOUS
<1>2. /\ Live(c) /\ contact' = [contact EXCEPT ![c] = row] /\ session' = Without(ss)
      /\ UNCHANGED <<request, links, proven, guesses, guessed, overwritten, raced, letIn>>
  BY <1>1 DEF DeleteContact, proofVars, raceVars
<1>3. row \in Contact /\ row.state = "gone" /\ ~row.verified /\ row.code = NoEmail
  BY <1>1, RowTypes DEF NoRow, Contact
<1>4. /\ contact' \in [ContactIDs -> Contact] /\ contact'[c] = row
      /\ \A d \in ContactIDs \ {c} : contact'[d] = contact[d]
  BY <1>0, <1>2, <1>3, ContactsVariables
<1>5. /\ session' \in [SessionIDs -> Session]
      /\ \A s \in SessionIDs :
           /\ session[s].state # "new" => /\ session'[s].state # "new"
                                          /\ session'[s].contact = session[s].contact
           /\ s \notin ss => session'[s] = session[s]
           /\ s \in ss => session[s].state # "new" /\ session'[s].state = "gone"
  BY <1>0, <1>1, <1>2, WithoutSessions DEF SessionsOf
<1>6. Grows
  BY <1>2 DEF Grows
<1>7. Steps({}, {})
  <2>1. \A d \in ContactIDs : ContactStep(d, {})
    BY <1>2, <1>3, <1>4 DEF ContactStep
  <2>2. \A s \in SessionIDs : SessionStep(s, {})
    BY <1>2, <1>5 DEF SessionStep
  <2> QED BY <1>6, <2>1, <2>2 DEF Steps
<1>8. \A y \in Requests : RequestInv(y)'
  <2>1. \A y \in Requests : MarkedBy(y, {}, {})
    BY <1>2 DEF MarkedBy
  <2>2. \A d \in ContactIDs : contact[d].state = "new" => contact'[d].state = "new"
    BY <1>2, <1>4 DEF Live
  <2> QED BY <1>7, <2>1, <2>2, RequestsStay
<1>9. ASSUME NEW d \in ContactIDs PROVE ContactInv(d)'
  <2>1. CASE d # c
    BY <1>2, <1>4, <1>6, <2>1, ContactStays DEF ContactsInv
  <2>2. CASE d = c
    <3>1. guessed[c] <= SignupMaxAttempts \/ c \in overwritten
      BY DEF ContactsInv, ContactInv
    <3> QED BY <1>2, <1>3, <1>4, <2>2, <3>1 DEF ContactInv, RowIsProven, Live
  <2>3. QED BY <2>1, <2>2
<1>10. ASSUME NEW s \in SessionIDs PROVE SessionInv(s)'
  <2>1. ASSUME NEW d \in ContactIDs, session'[s].state = "live", session[s].contact = d
        PROVE  contact'[d].state = "live"
               /\ (contact'[d].blocked => contact[d].blocked \/ d \in overwritten')
    <3>1. contact[d].state = "live" /\ session[s].state = "live" /\ s \notin ss
      BY <1>5, <2>1 DEF ContactsInv, SessionInv, Live
    <3>2. d # c
      BY <1>1, <2>1, <3>1 DEF SessionsOf
    <3> QED BY <1>4, <3>1, <3>2
  <2> QED BY <1>2, <1>5, <1>7, <2>1, SessionStays
<1>11. ContactsTypeOK'
  BY <1>0, <1>2, <1>4, <1>5 DEF ContactsTypeOK
<1>12. QED BY <1>8, <1>9, <1>10, <1>11 DEF ContactsInv

LEMMA SessionsGoInv ==
    ASSUME ContactsInv, NEW ss, session' = Without(ss),
           \A s \in ss \cap SessionIDs : session[s].state = "live",
           UNCHANGED <<contact, request, proofVars, raceVars>>
    PROVE  ContactsInv'
<1>0. /\ ContactsTypeOK
      /\ UNCHANGED <<contact, request, links, proven, guesses, guessed, overwritten, raced, letIn>>
  BY DEF ContactsInv, proofVars, raceVars
<1>1. /\ session' \in [SessionIDs -> Session]
      /\ \A s \in SessionIDs :
           /\ session[s].state # "new" => /\ session'[s].state # "new"
                                          /\ session'[s].contact = session[s].contact
           /\ s \notin ss => session'[s] = session[s]
           /\ s \in ss => session[s].state # "new" /\ session'[s].state = "gone"
  BY <1>0, WithoutSessions
<1>2. Grows
  BY <1>0 DEF Grows
<1>3. Steps({}, {})
  <2>1. \A d \in ContactIDs : ContactStep(d, {})
    BY <1>0 DEF ContactStep
  <2>2. \A s \in SessionIDs : SessionStep(s, {})
    BY <1>0, <1>1 DEF SessionStep
  <2> QED BY <1>2, <2>1, <2>2 DEF Steps
<1>4. \A y \in Requests : RequestInv(y)'
  <2>1. \A y \in Requests : MarkedBy(y, {}, {})
    BY <1>0 DEF MarkedBy
  <2> QED BY <1>0, <1>3, <2>1, RequestsStay
<1>5. \A d \in ContactIDs : ContactInv(d)'
  BY <1>0, <1>2, ContactStays DEF ContactsInv
<1>6. ASSUME NEW s \in SessionIDs PROVE SessionInv(s)'
  <2>1. ASSUME NEW d \in ContactIDs, session'[s].state = "live", session[s].contact = d
        PROVE  contact'[d].state = "live"
               /\ (contact'[d].blocked => contact[d].blocked \/ d \in overwritten')
    <3>1. session[s].state = "live" /\ SessionInv(s)
      BY <1>1, <2>1 DEF ContactsInv
    <3> QED BY <1>0, <2>1, <3>1 DEF SessionInv, Live
  <2> QED BY <1>0, <1>1, <1>3, <2>1, SessionStays
<1>7. ContactsTypeOK'
  BY <1>0, <1>1 DEF ContactsTypeOK
<1>8. QED BY <1>4, <1>5, <1>6, <1>7 DEF ContactsInv

LEMMA HandleEmailSuppressionInv ==
    ASSUME ContactsInv, NEW c \in ContactIDs, HandleEmailSuppression(c)
    PROVE  ContactsInv'
<1>0. ContactsTypeOK
  BY DEF ContactsInv
<1>1. PICK row : row = [contact[c] EXCEPT !.subscribed = FALSE]
  OBVIOUS
<1>2. /\ Live(c) /\ contact' = [contact EXCEPT ![c] = row]
      /\ request' = [y \in Requests |->
                       [request[y] EXCEPT !.stale = request[y].stale \/ request[y].contact = c]]
      /\ UNCHANGED <<session, links, proven, guesses, guessed, overwritten, raced, letIn>>
  <2>1. contact' = [contact EXCEPT ![c].subscribed = FALSE]
    BY DEF HandleEmailSuppression
  <2> QED BY <1>0, <1>1, <2>1, ContactsVariables DEF HandleEmailSuppression, proofVars, raceVars
<1>3. /\ row \in Contact /\ row.state = "live" /\ row.email = contact[c].email
      /\ row.verified = contact[c].verified /\ row.blocked = contact[c].blocked
      /\ row.code = contact[c].code /\ row.tries = contact[c].tries
      /\ contact[c].state = "live"
  <2>1. contact[c] \in Contact /\ contact[c].state = "live"
    BY <1>0, <1>2, ContactsVariables DEF Live
  <2> QED BY <1>1, <2>1 DEF Contact
<1>4. /\ contact' \in [ContactIDs -> Contact] /\ contact'[c] = row
      /\ \A d \in ContactIDs \ {c} : contact'[d] = contact[d]
  BY <1>0, <1>2, <1>3, ContactsVariables
<1>5. ASSUME NEW y \in Requests PROVE request'[y] \in Intent /\ MarkedBy(y, {}, {})
  <2>1. request[y] \in Intent
    BY <1>0, ContactsVariables
  <2>2. PICK stale \in BOOLEAN : stale = (request[y].stale \/ request[y].contact = c)
    OBVIOUS
  <2>3. request'[y] = [request[y] EXCEPT !.stale = stale]
    BY <1>2, <2>2
  <2>4. request'[y] \in Intent
    BY <2>1, <2>3 DEF Intent
  <2>5. request'[y].stale = stale
    BY <2>1, <2>3 DEF Intent
  <2>6. MarkedBy(y, {}, {})
    BY <2>1, <2>2, <2>3, <2>5 DEF MarkedBy, Intent
  <2>7. QED BY <2>4, <2>6
<1>6. Grows
  BY <1>2 DEF Grows
<1>7. Steps({}, {})
  <2>1. ASSUME NEW d \in ContactIDs PROVE ContactStep(d, {})
    <3>1. /\ contact'[d].state = contact[d].state /\ contact'[d].email = contact[d].email
          /\ contact'[d].blocked = contact[d].blocked
      BY <1>3, <1>4
    <3> QED BY <1>2, <3>1 DEF ContactStep
  <2>2. \A s \in SessionIDs : SessionStep(s, {})
    BY <1>2 DEF SessionStep
  <2> QED BY <1>6, <2>1, <2>2 DEF Steps
<1>8. \A y \in Requests : RequestInv(y)'
  <2>1. \A d \in ContactIDs : contact[d].state = "new" => contact'[d].state = "new"
    BY <1>3, <1>4
  <2> QED BY <1>5, <1>7, <2>1, RequestsStay
<1>9. ASSUME NEW d \in ContactIDs PROVE ContactInv(d)'
  <2>1. CASE d # c
    BY <1>2, <1>4, <1>6, <2>1, ContactStays DEF ContactsInv
  <2>2. CASE d = c
    <3>1. ContactInv(c)
      BY DEF ContactsInv
    <3>2. UNCHANGED <<proven, guessed, overwritten>>
      BY <1>2
    <3> QED BY <1>3, <1>4, <2>2, <3>1, <3>2 DEF ContactInv, RowIsProven, Live
  <2>3. QED BY <2>1, <2>2
<1>10. ASSUME NEW s \in SessionIDs PROVE SessionInv(s)'
  <2>1. ASSUME NEW d \in ContactIDs, session'[s].state = "live", session[s].contact = d
        PROVE  contact'[d].state = "live"
               /\ (contact'[d].blocked => contact[d].blocked \/ d \in overwritten')
    <3>1. contact[d].state = "live"
      BY <1>2, <2>1 DEF ContactsInv, SessionInv, Live
    <3>2. contact'[d].state = contact[d].state /\ contact'[d].blocked = contact[d].blocked
      BY <1>3, <1>4
    <3> QED BY <3>1, <3>2
  <2> QED BY <1>2, <1>7, <2>1, SessionStays
<1>11. ContactsTypeOK'
  <2>1. request' \in [Requests -> Intent]
    <3>1. request' = [y \in Requests |-> request'[y]]
      BY <1>2
    <3> QED BY <1>5, <3>1
  <2> QED BY <1>0, <1>2, <1>4, <2>1 DEF ContactsTypeOK, Intent
<1>12. QED BY <1>8, <1>9, <1>10, <1>11 DEF ContactsInv

LEMMA FailInv ==
    ASSUME ContactsInv, NEW x \in Requests, Fail(x)
    PROVE  ContactsInv'
<1>0. /\ ContactsTypeOK /\ End(x, {}, {})
      /\ UNCHANGED <<contact, session, links, proven, guesses, guessed, overwritten, raced, letIn>>
  BY DEF ContactsInv, Fail, proofVars, raceVars
<1>1. Grows
  BY <1>0 DEF Grows
<1>2. Steps({}, {})
  <2>1. \A d \in ContactIDs : ContactStep(d, {})
    BY <1>0 DEF ContactStep
  <2>2. \A s \in SessionIDs : SessionStep(s, {})
    BY <1>0 DEF SessionStep
  <2> QED BY <1>1, <2>1, <2>2 DEF Steps
<1>3. request' \in [Requests -> Intent] /\ \A y \in Requests : RequestInv(y)'
  BY <1>0, <1>2, EndsKeepInv
<1>4. \A d \in ContactIDs : ContactInv(d)'
  BY <1>0, <1>1, ContactStays DEF ContactsInv
<1>5. \A s \in SessionIDs : SessionInv(s)'
  BY <1>0 DEF ContactsInv, SessionInv, CodeShows, Live
<1>6. ContactsTypeOK'
  BY <1>0, <1>3 DEF ContactsTypeOK, Intent
<1>7. QED BY <1>3, <1>4, <1>5, <1>6 DEF ContactsInv

-----------------------------------------------------------------------------
(***************************************************************************)
(* At the start there is no contact, no session and no request.            *)
(***************************************************************************)
THEOREM ContactsInitInv == ContactsInit => ContactsInv
<1> SUFFICES ASSUME ContactsInit PROVE ContactsInv
  OBVIOUS
<1> USE DEF ContactsInit
<1>0. /\ 0 \in 0 .. LoginMaxAttempts /\ LoginMaxAttempts \in Nat /\ SignupMaxAttempts \in Nat
      /\ NoRow \in Contact /\ Idle \in Intent /\ NoRow.state = "new" /\ ~NoRow.verified
      /\ NoRow.code = NoEmail
  BY ContactsConstants, RowTypes DEF NoRow
<1>1. ContactsTypeOK
  <2>1. session \in [SessionIDs -> Session]
    BY <1>0 DEF Session
  <2>2. request \in [Requests -> Intent]
    BY <1>0
  <2> QED BY <1>0, <2>1, <2>2 DEF ContactsTypeOK, Intent
<1>2. \A c \in ContactIDs : ContactInv(c)
  BY <1>0 DEF ContactInv, RowIsProven, Live
<1>3. \A s \in SessionIDs : SessionInv(s)
  BY <1>0 DEF SessionInv
<1>4. \A x \in Requests : RequestInv(x)
  BY RowTypes DEF RequestInv, RequestOf, AttemptOf, Writes
<1>5. QED BY <1>1, <1>2, <1>3, <1>4 DEF ContactsInv

(***************************************************************************)
(* Whatever visitors and staff ask, whatever their requests read and write *)
(* meanwhile, in any order, and whichever of them fail, contacts, sessions *)
(* and requests stay as they must be.                                      *)
(***************************************************************************)
THEOREM ContactsStepInv ==
    ContactsInv /\ [ContactsNext]_contactsVars => ContactsInv'
<1> SUFFICES ASSUME ContactsInv, [ContactsNext]_contactsVars PROVE ContactsInv'
  OBVIOUS
<1>1. CASE UNCHANGED contactsVars
  <2> USE <1>1 DEF contactsVars, Live
  <2>1. ContactsTypeOK'
    BY DEF ContactsInv, ContactsTypeOK
  <2>2. \A c \in ContactIDs : ContactInv(c)'
    BY DEF ContactsInv, ContactInv, RowIsProven
  <2>3. \A s \in SessionIDs : SessionInv(s)'
    BY DEF ContactsInv, SessionInv, CodeShows
  <2>4. ASSUME NEW x \in Requests PROVE RequestInv(x)'
    <3>1. RequestInv(x)
      BY DEF ContactsInv
    <3>2. ASSUME NEW c \in ContactIDs, RequestOf(x, c) PROVE RequestOf(x, c)'
      BY <3>2 DEF RequestOf, WriteInv, CreateInv, LoginInv, RowIsProven, CodeShows
    <3>3. ASSUME NEW s \in SessionIDs, AttemptOf(x, s) PROVE AttemptOf(x, s)'
      BY <3>3 DEF AttemptOf, AttemptInv
    <3> QED BY <3>1, <3>2, <3>3 DEF RequestInv
  <2>5. QED BY <2>1, <2>2, <2>3, <2>4 DEF ContactsInv
<1>2. ASSUME NEW x \in Free, NEW c \in ContactIDs,
             \/ Login(x, c) \/ WrongSignupCode(x, c) \/ RightSignupCode(x, c)
             \/ Unsubscribe(x, c) \/ BlockContact(x, c) \/ UnblockContact(x, c)
             \/ CompleteOrder(x, c)
      PROVE  ContactsInv'
  BY <1>2, LoginInvStep, UpdatesInv DEF Free
<1>3. ASSUME NEW x \in Free, NEW c \in ContactIDs, NEW e \in Emails, NEW subscribed \in BOOLEAN,
             \/ Subscribe(x, e, c) \/ CreateContact(x, e, c)
             \/ UpdateContact(x, c, e, subscribed) \/ ImportContacts(x, e, subscribed, c)
             \/ FindOrCreateContact(x, e, subscribed, c)
      PROVE  ContactsInv'
  <2>0. x \in Requests
    BY DEF Free
  <2>1. CASE UpdateContact(x, c, e, subscribed)
    BY <2>0, <2>1, AddressesInv
  <2>2. CASE With(e) = {} /\ ~UpdateContact(x, c, e, subscribed)
    BY <1>3, <2>0, <2>2, InsertsKeepInv
  <2>3. CASE With(e) # {} /\ (Subscribe(x, e, c) \/ ImportContacts(x, e, subscribed, c))
    <3>1. c \in With(e) /\ Live(c)
      BY <2>3 DEF Subscribe, ImportContacts, With
    <3> QED BY <2>0, <2>3, <3>1, AddressesInv
  <2>4. With(e) # {} => ~CreateContact(x, e, c) /\ ~FindOrCreateContact(x, e, subscribed, c)
    BY DEF CreateContact, FindOrCreateContact
  <2>5. QED BY <1>3, <2>1, <2>2, <2>3, <2>4
<1>4. ASSUME NEW x \in Free, NEW s \in SessionIDs,
             \/ WrongLoginCode(x, s) \/ RightLoginCode(x, s)
             \/ \E link \in links : VerifyEmail(x, s, link)
             \/ \E e \in Emails \cup {NoEmail}, subscribed \in BOOLEAN :
                  UpdateMyAccount(x, s, subscribed, e)
      PROVE  ContactsInv'
  BY <1>4, CodesInv, AccountsInv DEF Free
<1>5. ASSUME NEW x \in Requests \ Free, NEW s \in SessionIDs,
             CreateSession(x, s) \/ CompleteSubscription(x, s)
      PROVE  ContactsInv'
  BY <1>5, CreateSessionInv, CompleteSubscriptionInv
<1>6. ASSUME NEW x \in Requests \ Free,
             \/ FailSessionLoginAttempt(x) \/ FindContact(x) \/ CreateContactInternal(x)
             \/ UpdateContactInternal(x) \/ Block(x) \/ CompleteLogin(x) \/ Fail(x)
      PROVE  ContactsInv'
  BY <1>6, FailSessionLoginAttemptInv, FindContactInv, CreateContactInternalInv,
     UpdateContactInternalInv, BlockInv, CompleteLoginInv, FailInv
<1>7. ASSUME NEW c \in ContactIDs, DeleteContact(c) \/ HandleEmailSuppression(c)
      PROVE  ContactsInv'
  BY <1>7, DeleteContactInv, HandleEmailSuppressionInv
<1>8. ASSUME NEW s \in SessionIDs, DeleteMyAccount(s) PROVE ContactsInv'
  <2>1. session[s].contact \in ContactIDs
    BY <1>8 DEF DeleteMyAccount, LoggedIn, ContactsInv, SessionInv
  <2> QED BY <1>8, <2>1, DeleteContactInv DEF DeleteMyAccount
<1>9. ASSUME NEW s \in SessionIDs, Logout(s) PROVE ContactsInv'
  <2>1. \A t \in {s} \cap SessionIDs : session[t].state = "live"
    BY <1>9 DEF Logout, LoggedIn
  <2> QED BY <1>9, <2>1, SessionsGoInv DEF Logout
<1>10. ASSUME NEW s \in SessionIDs, JobDeleteOldUnverifiedSessions(s) PROVE ContactsInv'
  <2>1. PICK ss : ss = {r \in SessionIDs : r <= s /\ session[r].state = "live"
                                           /\ ~session[r].verified}
    OBVIOUS
  <2>2. \A t \in ss \cap SessionIDs : session[t].state = "live"
    BY <2>1
  <2>3. session' = Without(ss) /\ UNCHANGED <<contact, request, proofVars, raceVars>>
    BY <1>10, <2>1 DEF JobDeleteOldUnverifiedSessions
  <2> QED BY <2>2, <2>3, SessionsGoInv
<1>11. QED
  BY <1>1, <1>2, <1>3, <1>4, <1>5, <1>6, <1>7, <1>8, <1>9, <1>10 DEF ContactsNext

(***************************************************************************)
(* Contacts, sessions, links and requests are always what the tables and   *)
(* the handlers of contacts and of the site hold.                          *)
(***************************************************************************)
THEOREM ContactsTypes == ContactsSpec => []ContactsTypeOK
<1>1. ContactsInv => ContactsTypeOK
  BY DEF ContactsInv
<1>2. QED BY <1>1, ContactsInitInv, ContactsStepInv, PTL DEF ContactsSpec

(***************************************************************************)
(* A contact that is blocked is logged in nowhere, but for the requests    *)
(* that no check could refuse, and for those that wrote an older row back: *)
(* BlockContact deletes its sessions, and Login refuses it others.         *)
(***************************************************************************)
THEOREM BlockedStaysOut == ContactsSpec => []BlockedIsOut
<1>1. ContactsInv => BlockedIsOut
  BY DEF ContactsInv, SessionInv, BlockedIsOut, LoggedIn
<1>2. QED BY <1>1, ContactsInitInv, ContactsStepInv, PTL DEF ContactsSpec

(***************************************************************************)
(* A contact that is verified has shown to read the mailbox of the address *)
(* it has now, or staff or a payment vouch for it, whichever requests have *)
(* changed it: the code, the link and the address of a row agree.          *)
(***************************************************************************)
THEOREM OwnersAreProven == ContactsSpec => []VerifiedIsProven
<1>1. ContactsInv => VerifiedIsProven
  BY DEF ContactsInv, ContactInv, RowIsProven, VerifiedIsProven
<1>2. QED BY <1>1, ContactsInitInv, ContactsStepInv, PTL DEF ContactsSpec

(***************************************************************************)
(* No session and no signup code is tried more often than it may be,       *)
(* unless attempts overlapped: CompleteLogin and CompleteSubscription read *)
(* the count, check the code, and write the count back.                    *)
(***************************************************************************)
THEOREM TriesCount == ContactsSpec => []TriesAreCounted
<1>1. ContactsInv => TriesAreCounted
  BY DEF ContactsInv, ContactInv, SessionInv, TriesAreCounted
<1>2. QED BY <1>1, ContactsInitInv, ContactsStepInv, PTL DEF ContactsSpec

-----------------------------------------------------------------------------
(***************************************************************************)
(* The rate limiter.                                                       *)
(*                                                                         *)
(* A bucket is the count of its window until it is deleted, and it is      *)
(* deleted only when nobody can be waiting any more with an instant of     *)
(* that window: a call takes less than a period, and a bucket is kept for  *)
(* one extra period.                                                       *)
(***************************************************************************)
\* A call has waited less than a period, and the cleanup has read an instant that is past.
WaitsAreShort ==
    /\ \A x \in Calls : call[x] # NoRequest =>
         call[x].instant <= clock /\ clock < call[x].instant + Period
    /\ sweep # NoInstant => sweep <= clock

\* A bucket has the count of its window, or has expired.
BucketsCount ==
    \A v \in Visitors, w \in Windows : passed[v][w] = bucket[v][w] \/ clock > Expires(w)

LimiterInv == LimiterTypeOK /\ WaitsAreShort /\ BucketsCount /\ RequestsAreLimited

-----------------------------------------------------------------------------
\* An instant is less than one period after the start of its window.
LEMMA WindowIsShort ==
    ASSUME NEW i \in Nat
    PROVE  i < (Window(i) + 1) * Period
<1>1. Period \in Nat /\ Period > 0
  BY RateLimiterAssumption
<1> DEFINE q == i \div Period
<1>2. q \in Nat /\ i % Period \in 0 .. Period - 1 /\ i = Period * q + (i % Period)
  BY <1>1, SMT
<1>3. i < Period * q + Period
  <2> HIDE DEF q
  <2> QED BY <1>1, <1>2, SMT
<1>4. Period * q + Period = (q + 1) * Period
  <2> HIDE DEF q
  <2> QED BY <1>1, <1>2, SMT
<1>5. QED BY <1>3, <1>4 DEF Window

LEMMA WindowsAreNat == Windows \subseteq Nat
<1> SUFFICES ASSUME NEW i \in Instants PROVE Window(i) \in Nat
  BY DEF Windows
<1> QED BY RateLimiterAssumption DEF Instants, Window

\* Whoever waits with an instant of a window finds that its bucket hasn't expired.
LEMMA NoLateCall ==
    ASSUME clock \in Nat, NEW i \in Instants, clock < i + Period
    PROVE  ~(clock > Expires(Window(i)))
<1>1. i \in Nat /\ Period \in Nat /\ Window(i) \in Nat
  BY RateLimiterAssumption, WindowsAreNat DEF Instants, Windows
<1>2. i < (Window(i) + 1) * Period
  BY <1>1, WindowIsShort
<1> DEFINE w == Window(i)
<1>3. (w + 2) * Period = (w + 1) * Period + Period /\ (w + 1) * Period \in Nat
  <2>1. w \in Nat
    BY <1>1
  <2> HIDE DEF w
  <2> QED BY <1>1, <2>1, SMT
<1>4. clock < (w + 1) * Period + Period
  <2> DEFINE e == (w + 1) * Period
  <2>1. e \in Nat /\ i < e
    BY <1>2, <1>3
  <2> HIDE DEF e
  <2> QED
    <3>1. clock < e + Period
      BY <1>1, <2>1
    <3> QED BY <3>1 DEF e
<1>5. QED BY <1>3, <1>4, <1>1 DEF Expires

-----------------------------------------------------------------------------
\* The limiter's invariant holds before the first request.
THEOREM LimiterInitInv == LimiterInit => LimiterInv
<1> SUFFICES ASSUME LimiterInit PROVE LimiterInv
  OBVIOUS
<1> USE RateLimiterAssumption DEF LimiterInit
<1>1. LimiterTypeOK
  BY DEF LimiterTypeOK, Instants
<1>2. WaitsAreShort
  BY DEF WaitsAreShort
<1>3. BucketsCount
  BY DEF BucketsCount
<1>4. RequestsAreLimited
  BY DEF RequestsAreLimited
<1>5. QED BY <1>1, <1>2, <1>3, <1>4 DEF LimiterInv

\* Counting a call, the cleanup and the clock keep it.
THEOREM LimiterStepInv == LimiterInv /\ [LimiterNext]_limiterVars => LimiterInv'
<1> SUFFICES ASSUME LimiterInv, [LimiterNext]_limiterVars PROVE LimiterInv'
  OBVIOUS
<1>0. LimiterTypeOK /\ WaitsAreShort /\ BucketsCount /\ RequestsAreLimited
  BY DEF LimiterInv
<1>n. /\ Period \in Nat \ {0} /\ Allowed \in Nat \ {0} /\ MaxInstant \in Nat
      /\ Windows \subseteq Nat /\ NoInstant \notin Nat
  BY RateLimiterAssumption, WindowsAreNat
<1>e. \A w \in Windows : Expires(w) \in Nat
  <2> SUFFICES ASSUME NEW w \in Windows PROVE (w + 2) * Period \in Nat
    BY DEF Expires
  <2> QED BY <1>n, SMT
<1>1. CASE Tick
  <2> USE <1>0, <1>1, <1>n DEF Tick
  <2>1. clock \in Nat /\ clock' = clock + 1
    BY DEF LimiterTypeOK, Instants
  <2>2. LimiterTypeOK'
    BY <2>1 DEF LimiterTypeOK, Instants
  <2>3. WaitsAreShort'
    <3>1. \A x \in Calls : call[x] # NoRequest => call[x].instant \in Nat
      BY DEF LimiterTypeOK, Instants
    <3>2. sweep # NoInstant => sweep \in Nat
      BY DEF LimiterTypeOK, Instants
    <3> QED BY <2>1, <3>1, <3>2 DEF WaitsAreShort
  <2>4. BucketsCount'
    <3> SUFFICES ASSUME NEW v \in Visitors, NEW w \in Windows
                 PROVE  passed[v][w] = bucket[v][w] \/ clock + 1 > Expires(w)
      BY <2>1 DEF BucketsCount, Expires
    <3>1. Expires(w) \in Nat
      BY <1>e
    <3>2. passed[v][w] = bucket[v][w] \/ clock > Expires(w)
      BY DEF BucketsCount
    <3> HIDE DEF Tick
    <3> QED BY <2>1, <3>1, <3>2
  <2>5. RequestsAreLimited'
    BY DEF RequestsAreLimited
  <2>6. QED BY <2>2, <2>3, <2>4, <2>5 DEF LimiterInv
<1>2. ASSUME NEW x \in Calls, NEW v \in Visitors, ReadClock(x, v) PROVE LimiterInv'
  <2> USE <1>0, <1>2, <1>n DEF ReadClock
  <2>1. LimiterTypeOK'
    BY DEF LimiterTypeOK
  <2>2. WaitsAreShort'
    <3>1. clock \in Nat
      BY DEF LimiterTypeOK, Instants
    <3>2. ASSUME NEW y \in Calls, call'[y] # NoRequest
          PROVE  call'[y].instant <= clock /\ clock < call'[y].instant + Period
      <4>1. CASE y = x
        <5>1. call'[y] = [visitor |-> v, instant |-> clock]
          BY <4>1 DEF LimiterTypeOK
        <5> QED BY <5>1, <3>1
      <4>2. CASE y # x
        <5>1. call'[y] = call[y]
          BY <4>2 DEF LimiterTypeOK
        <5> QED BY <5>1, <3>2 DEF WaitsAreShort
      <4>3. QED BY <4>1, <4>2
    <3> QED BY <3>2 DEF WaitsAreShort
  <2>3. BucketsCount'
    BY DEF BucketsCount, Expires
  <2>4. RequestsAreLimited'
    BY DEF RequestsAreLimited
  <2>5. QED BY <2>1, <2>2, <2>3, <2>4 DEF LimiterInv
<1>3. ASSUME NEW x \in Calls, IsAllowed(x) PROVE LimiterInv'
  <2> DEFINE u == call[x].visitor
             n == Window(call[x].instant)
  <2>1. call[x] # NoRequest /\ call[x].instant \in Instants /\ u \in Visitors /\ clock \in Nat
    BY <1>0, <1>3 DEF IsAllowed, LimiterTypeOK, Instants
  <2>2. n \in Windows
    BY <2>1 DEF Windows
  <2>3. passed[u][n] = bucket[u][n]
    <3>1. clock < call[x].instant + Period
      BY <1>0, <2>1 DEF WaitsAreShort
    <3>2. ~(clock > Expires(n))
      BY <2>1, <3>1, NoLateCall
    <3> QED BY <1>0, <2>1, <2>2, <3>2 DEF BucketsCount
  <2>4. bucket[u][n] \in 0 .. Allowed
    BY <1>0, <2>1, <2>2 DEF LimiterTypeOK
  <2>5. /\ call' = [call EXCEPT ![x] = NoRequest]
        /\ clock' = clock /\ sweep' = sweep
        /\ \/ /\ bucket[u][n] < Allowed /\ refused' = refused
              /\ bucket' = [bucket EXCEPT ![u][n] = @ + 1]
              /\ passed' = [passed EXCEPT ![u][n] = @ + 1]
           \/ /\ ~(bucket[u][n] < Allowed) /\ refused' = refused \cup {<<u, n>>}
              /\ bucket' = bucket /\ passed' = passed
    BY <1>3 DEF IsAllowed
  <2> HIDE DEF u, n
  <2>6. LimiterTypeOK'
    <3>1. bucket' \in [Visitors -> [Windows -> 0 .. Allowed]]
      <4>1. bucket \in [Visitors -> [Windows -> 0 .. Allowed]]
        BY <1>0 DEF LimiterTypeOK
      <4>2. bucket[u][n] < Allowed => bucket[u][n] + 1 \in 0 .. Allowed
        BY <1>n, <2>4
      <4>3. CASE bucket[u][n] < Allowed /\ bucket' = [bucket EXCEPT ![u][n] = @ + 1]
        <5>1. [bucket[u] EXCEPT ![n] = @ + 1] \in [Windows -> 0 .. Allowed]
          BY <2>1, <2>2, <4>1, <4>2, <4>3
        <5> QED BY <2>1, <4>1, <4>3, <5>1
      <4> QED BY <2>5, <4>1, <4>3
    <3>2. passed' \in [Visitors -> [Windows -> Nat]]
      <4>1. passed \in [Visitors -> [Windows -> Nat]]
        BY <1>0 DEF LimiterTypeOK
      <4>2. CASE passed' = [passed EXCEPT ![u][n] = @ + 1]
        <5>1. [passed[u] EXCEPT ![n] = @ + 1] \in [Windows -> Nat]
          BY <2>1, <2>2, <4>1
        <5> QED BY <2>1, <4>1, <4>2, <5>1
      <4> QED BY <2>5, <4>1, <4>2
    <3>3. call' \in [Calls -> [visitor : Visitors, instant : Instants] \cup {NoRequest}]
      BY <1>0, <2>5 DEF LimiterTypeOK
    <3>4. refused' \subseteq Visitors \X Windows
      BY <1>0, <2>1, <2>2, <2>5 DEF LimiterTypeOK
    <3> QED BY <1>0, <2>5, <3>1, <3>2, <3>3, <3>4 DEF LimiterTypeOK
  <2>7. WaitsAreShort'
    BY <1>0, <2>5 DEF WaitsAreShort, LimiterTypeOK
  <2>8. \A v \in Visitors, w \in Windows :
           /\ <<v, w>> # <<u, n>> =>
                bucket'[v][w] = bucket[v][w] /\ passed'[v][w] = passed[v][w]
           /\ passed'[u][n] = bucket'[u][n]
    BY <1>0, <2>1, <2>2, <2>3, <2>5 DEF LimiterTypeOK
  <2>9. BucketsCount'
    <3> SUFFICES ASSUME NEW v \in Visitors, NEW w \in Windows
                 PROVE  passed'[v][w] = bucket'[v][w] \/ clock > Expires(w)
      BY <2>5 DEF BucketsCount, Expires
    <3>1. CASE <<v, w>> = <<u, n>>
      BY <2>8, <3>1
    <3>2. CASE <<v, w>> # <<u, n>>
      BY <1>0, <2>8, <3>2 DEF BucketsCount
    <3> QED BY <3>1, <3>2
  <2>10. RequestsAreLimited'
    <3> SUFFICES ASSUME NEW v \in Visitors, NEW w \in Windows
                 PROVE  /\ passed'[v][w] <= Allowed
                        /\ <<v, w>> \in refused' => passed'[v][w] = Allowed
      BY DEF RequestsAreLimited
    <3>1. CASE <<v, w>> # <<u, n>>
      <4>1. passed'[v][w] = passed[v][w] /\ (<<v, w>> \in refused' => <<v, w>> \in refused)
        BY <2>5, <2>8, <3>1
      <4> QED BY <1>0, <4>1 DEF RequestsAreLimited
    <3>2. CASE <<v, w>> = <<u, n>>
      <4>1. v = u /\ w = n
        BY <3>2
      <4>2. passed[u][n] <= Allowed /\ (<<u, n>> \in refused => passed[u][n] = Allowed)
        BY <1>0, <2>1, <2>2 DEF RequestsAreLimited
      <4>3. CASE bucket[u][n] < Allowed /\ refused' = refused /\ passed' = [passed EXCEPT ![u][n] = @ + 1]
        <5>1. passed'[u][n] = passed[u][n] + 1
          BY <1>0, <2>1, <2>2, <4>3 DEF LimiterTypeOK
        <5> QED BY <1>n, <2>3, <2>4, <4>1, <4>2, <4>3, <5>1
      <4>4. CASE ~(bucket[u][n] < Allowed) /\ passed' = passed
        <5>1. passed'[u][n] = Allowed
          BY <1>n, <2>3, <2>4, <4>4
        <5> QED BY <1>n, <4>1, <5>1
      <4> QED BY <2>5, <4>3, <4>4
    <3> QED BY <3>1, <3>2
  <2>11. QED BY <2>6, <2>7, <2>9, <2>10 DEF LimiterInv
<1>4. CASE StartCleanup
  <2> USE <1>0, <1>4 DEF StartCleanup
  <2>1. LimiterTypeOK'
    BY DEF LimiterTypeOK
  <2>2. WaitsAreShort'
    BY DEF WaitsAreShort, LimiterTypeOK, Instants
  <2>3. BucketsCount'
    BY DEF BucketsCount, Expires
  <2>4. RequestsAreLimited'
    BY DEF RequestsAreLimited
  <2>5. QED BY <2>1, <2>2, <2>3, <2>4 DEF LimiterInv
<1>5. CASE Cleanup
  <2>1. sweep \in Nat /\ clock \in Nat /\ sweep <= clock
    BY <1>0, <1>5 DEF Cleanup, LimiterTypeOK, WaitsAreShort, Instants
  <2>2. LimiterTypeOK'
    <3>1. bucket' \in [Visitors -> [Windows -> 0 .. Allowed]]
      BY <1>0, <1>5, <1>n DEF Cleanup, LimiterTypeOK
    <3> QED BY <1>0, <1>5, <3>1 DEF Cleanup, LimiterTypeOK
  <2>3. WaitsAreShort'
    BY <1>0, <1>5 DEF Cleanup, WaitsAreShort
  <2>4. BucketsCount'
    <3> SUFFICES ASSUME NEW v \in Visitors, NEW w \in Windows
                 PROVE  passed[v][w] = bucket'[v][w] \/ clock > Expires(w)
      BY <1>5 DEF BucketsCount, Expires, Cleanup
    <3>1. bucket'[v][w] = IF sweep > Expires(w) THEN 0 ELSE bucket[v][w]
      BY <1>5 DEF Cleanup
    <3>2. CASE sweep > Expires(w)
      BY <1>e, <2>1, <3>2
    <3>3. CASE ~(sweep > Expires(w))
      BY <1>0, <3>1, <3>3 DEF BucketsCount
    <3> QED BY <3>2, <3>3
  <2>5. RequestsAreLimited'
    BY <1>0, <1>5 DEF Cleanup, RequestsAreLimited
  <2>6. QED BY <2>2, <2>3, <2>4, <2>5 DEF LimiterInv
<1>6. CASE UNCHANGED limiterVars
  BY <1>0, <1>6 DEF limiterVars, LimiterInv, LimiterTypeOK, WaitsAreShort, BucketsCount,
                    RequestsAreLimited, Expires
<1>7. QED BY <1>1, <1>2, <1>3, <1>4, <1>5, <1>6 DEF LimiterNext

\* The types of the limiter's state.
THEOREM LimiterTypes == LimiterSpec => []LimiterTypeOK
<1>1. LimiterInv => LimiterTypeOK
  BY DEF LimiterInv
<1>2. QED BY LimiterInitInv, LimiterStepInv, <1>1, PTL DEF LimiterSpec

\* No window lets more than Allowed requests through, whatever the cleanup deletes, and
\* nobody is refused before.
THEOREM LimitsHold == LimiterSpec => []RequestsAreLimited
<1>1. LimiterInv => RequestsAreLimited
  BY DEF LimiterInv
<1>2. QED BY LimiterInitInv, LimiterStepInv, <1>1, PTL DEF LimiterSpec

-----------------------------------------------------------------------------
(***************************************************************************)
(* The domains from which websites send emails.                            *)
(*                                                                         *)
(* Whoever writes the row of a website, or changes what the provider has,  *)
(* makes those stale that have read it; a request that isn't stale writes  *)
(* what is right still.                                                    *)
(***************************************************************************)
LEMMA DomainVariables ==
    ASSUME EmailDomainsTypeOK
    PROVE  /\ configuration \in [Websites -> Configuration]
           /\ identity \in [Domains -> {"absent", "pending", "verified"}]
           /\ pending \in [Callers -> PendingCall] /\ mail \in [Mails -> Mail]
           /\ removals \subseteq [website : Websites, domain : Domains, again : BOOLEAN]
           /\ carried \subseteq Websites /\ torn \subseteq Websites /\ overlapped \subseteq Websites
           /\ lost \subseteq Domains
BY DEF EmailDomainsTypeOK

LEMMA DomainConstants ==
    /\ NoDomain \notin Domains /\ Platform \notin Domains /\ NoDomain # Platform
    /\ NoWebsite \notin Websites
BY EmailDomainsAssumption

LEMMA NoCallIs ==
    /\ NoCall \in PendingCall /\ NoCall.op = "none" /\ NoCall.step = "none" /\ ~NoCall.touched
    /\ ~NoCall.stale /\ NoCall.website = NoWebsite /\ NoCall.target = NoDomain
    /\ NoCall.domain = NoDomain
BY DEF NoCall, PendingCall

\* A call that is done with a step, and what the others see of it.
Marked(y) ==
    /\ pending'[y].op = pending[y].op /\ pending'[y].website = pending[y].website
    /\ pending'[y].domain = pending[y].domain /\ pending'[y].verified = pending[y].verified
    /\ pending'[y].target = pending[y].target /\ pending'[y].step = pending[y].step
    /\ pending'[y].touched = pending[y].touched
    /\ ~pending'[y].stale => ~pending[y].stale

LEMMA ConcludeMarks ==
    ASSUME EmailDomainsTypeOK, NEW x \in Callers, NEW q \in PendingCall, NEW w, NEW d,
           Conclude(x, q, w, d)
    PROVE  /\ pending' \in [Callers -> PendingCall] /\ pending'[x] = q
           /\ \A y \in Callers \ {x} :
                /\ Marked(y)
                /\ ~pending'[y].stale => /\ ~(w \in Websites /\ pending[y].website = w)
                                         /\ ~(d \in Domains /\ pending[y].target = d)
<1> DEFINE A(y) == y \in Affected(x, w, d)
           N(y) == [pending[y] EXCEPT !.stale = @ \/ A(y)]
<1>1. pending' = [y \in Callers |-> IF y = x THEN q ELSE N(y)]
  BY DEF Conclude
<1>2. \A y \in Callers : pending[y] \in PendingCall /\ A(y) \in BOOLEAN
  BY DomainVariables
<1>3. \A y \in Callers \ {x} : A(y) <=> \/ w \in Websites /\ pending[y].website = w
                                        \/ d \in Domains /\ pending[y].target = d
  BY DEF Affected
<1>4. ASSUME NEW y \in Callers \ {x}
      PROVE  /\ N(y) \in PendingCall /\ N(y).op = pending[y].op
             /\ N(y).website = pending[y].website /\ N(y).domain = pending[y].domain
             /\ N(y).verified = pending[y].verified /\ N(y).target = pending[y].target
             /\ N(y).step = pending[y].step /\ N(y).touched = pending[y].touched
             /\ (~N(y).stale => ~pending[y].stale /\ ~A(y))
  <2> DEFINE p == pending[y]
             a == A(y)
  <2>1. p \in PendingCall /\ a \in BOOLEAN
    BY <1>2
  <2>2. N(y) = [p EXCEPT !.stale = @ \/ a]
    OBVIOUS
  <2>3. /\ ~p.stale <=> p.stale = FALSE
        /\ p.stale \in BOOLEAN
    BY <2>1 DEF PendingCall
  <2> HIDE DEF p, a, N, A
  <2>4. QED BY <2>1, <2>2, <2>3 DEF PendingCall, p, a
<1> HIDE DEF N, A
<1>5. \A y \in Callers \ {x} : pending'[y] = N(y)
  BY <1>1
<1>6. pending' \in [Callers -> PendingCall] /\ pending'[x] = q
  BY <1>1, <1>4
<1>7. QED BY <1>3, <1>4, <1>5, <1>6 DEF Marked

-----------------------------------------------------------------------------
(* What stays when only some of the state changes.                         *)

\* Who is in the middle of a change at the provider, and about what.
TouchesStay ==
    \A y \in Callers : /\ pending'[y].touched <=> pending[y].touched
                       /\ pending[y].touched => /\ pending'[y].website = pending[y].website
                                                /\ pending'[y].target = pending[y].target

LEMMA QuietStays ==
    ASSUME TouchesStay
    PROVE  (\A w : Quiet(w)' <=> Quiet(w)) /\ (\A d : Adding(d)' <=> Adding(d))
BY DEF TouchesStay, Quiet, Adding

LEMMA KeptStays ==
    ASSUME DomainsAreKept, UNCHANGED <<configuration, identity, carried>>,
           torn \subseteq torn', overlapped \subseteq overlapped',
           \A w \in Websites \ (torn' \cup overlapped') : Quiet(w)' => Quiet(w)
    PROVE  DomainsAreKept'
BY DEF DomainsAreKept, Exists

LEMMA SharingStays ==
    ASSUME SharingIsKnown, UNCHANGED configuration, overlapped \subseteq overlapped'
    PROVE  SharingIsKnown'
BY DEF SharingIsKnown, Exists

LEMMA LeftStays ==
    ASSUME DomainsAreNotLeft, UNCHANGED <<configuration, identity>>, lost \subseteq lost',
           removals \subseteq removals', \A d \in Domains \ lost' : Adding(d) => Adding(d)'
    PROVE  DomainsAreNotLeft'
BY DEF DomainsAreNotLeft, Having, Exists, Adding

LEMMA ReadStays ==
    ASSUME NEW y, ReadIsCurrent(y), Marked(y), UNCHANGED configuration
    PROVE  ReadIsCurrent(y)'
BY DEF ReadIsCurrent, Marked, Exists, Having

LEMMA StepStays ==
    ASSUME NEW y, StepIsSound(y), Marked(y)
    PROVE  StepIsSound(y)'
BY DEF StepIsSound, Marked

LEMMA CallStays ==
    ASSUME NEW y, CallIsKept(y), Marked(y), UNCHANGED identity,
           torn \subseteq torn', overlapped \subseteq overlapped',
           \A v : v \notin torn' \cup overlapped' => (Quiet(v)' => Quiet(v))
    PROVE  CallIsKept(y)'
<1>1. PICK w : w = pending[y].website
  OBVIOUS
<1>2. pending'[y].website = w
  BY <1>1 DEF Marked
<1>3. w \notin torn' \cup overlapped' => (Quiet(w)' => Quiet(w))
  OBVIOUS
<1>4. QED BY <1>1, <1>2, <1>3 DEF CallIsKept, Marked

LEMMA OldStays ==
    ASSUME NEW y, OldIsGone(y), Marked(y),
           pending[y].domain \in Domains \cup {NoDomain},
           \A d \in Domains : identity[d] = "absent" => identity'[d] = "absent",
           lost \subseteq lost',
           \A d \in Domains \ lost' : Adding(d) => Adding(d)'
    PROVE  OldIsGone(y)'
<1>1. PICK d : d = pending[y].domain
  OBVIOUS
<1>2. pending'[y].domain = d
  BY <1>1 DEF Marked
<1>3. d \in Domains \ lost' => (Adding(d) => Adding(d)')
  OBVIOUS
<1>4. QED BY <1>1, <1>2, <1>3 DEF OldIsGone, Marked

LEMMA RemovalStays ==
    ASSUME NEW j \in removals, RemovalIsDue(j), UNCHANGED <<configuration, identity>>,
           torn \subseteq torn', overlapped \subseteq overlapped', removals' \subseteq removals,
           \A y \in Callers : pending'[y].step = "write" /\ ~pending'[y].stale =>
             \/ pending[y].step = "write" /\ ~pending[y].stale
                /\ pending'[y].target = pending[y].target
             \/ pending'[y].target # j.domain
    PROVE  RemovalIsDue(j)'
BY DEF RemovalIsDue, Having, Exists

LEMMA MailStays ==
    ASSUME NEW m \in Mails, MailIsFromIts(m), mail'[m] = mail[m],
           \A w : Exists(w) => configuration'[w] = configuration[w]
    PROVE  MailIsFromIts(m)'
BY DEF MailIsFromIts, Exists

LEMMA Sames ==
    ASSUME NEW y, pending'[y] = pending[y]
    PROVE  Marked(y)
BY DEF Marked

-----------------------------------------------------------------------------
(* Requests that begin, and steps that change only what they know.         *)

\* What begins with which step.
Begins(op, step, domain, target) ==
    \/ op = "verify" /\ step = "ask" /\ target = domain /\ domain # NoDomain
    \/ op = "delete" /\ step = "commit" /\ target = NoDomain
    \/ op = "update" /\ step = "remove" /\ domain # NoDomain /\ target # domain
    \/ op = "update" /\ step = "add" /\ domain = NoDomain /\ target # NoDomain
    \/ op = "update" /\ step = "write" /\ target = domain

LEMMA CallInv ==
    ASSUME EmailDomainsInv, NEW x \in Callers, NEW w \in Websites,
           NEW target \in Domains \cup {NoDomain}, NEW op, NEW step, Call(x, op, w, target, step),
           Begins(op, step, configuration[w].domain, target),
           target \in Domains \ {configuration[w].domain} => Having(target) = {}
    PROVE  EmailDomainsInv'
<1>1. EmailDomainsTypeOK
  BY DEF EmailDomainsInv
<1>2. UNCHANGED <<configuration, identity, removals, mail, carried, torn, overlapped, lost>>
  BY DEF Call
<1>3. configuration[w] \in Configuration /\ Exists(w)
  BY <1>1, DomainVariables DEF Call
<1>4. PICK d \in Domains \cup {NoDomain} : d = configuration[w].domain
  BY <1>3 DEF Configuration
<1>5. op \in {"update", "verify", "delete"} /\ step \in {"ask", "commit", "remove", "add", "write"}
  BY DEF Begins
<1>6. /\ pending' \in [Callers -> PendingCall] /\ pending[x].op = "none"
      /\ pending'[x].op = op /\ pending'[x].website = w /\ pending'[x].domain = d
      /\ pending'[x].verified = configuration[w].verified /\ pending'[x].target = target
      /\ pending'[x].step = step /\ ~pending'[x].touched
      /\ \A y \in Callers \ {x} : pending'[y] = pending[y]
  <2> DEFINE q == [op |-> op, website |-> w, domain |-> configuration[w].domain,
                   verified |-> configuration[w].verified, target |-> target, step |-> step,
                   touched |-> FALSE, stale |-> FALSE]
  <2>1. pending' = [pending EXCEPT ![x] = q] /\ pending[x].op = "none"
    BY DEF Call
  <2>2. q \in PendingCall
    BY <1>3, <1>4, <1>5 DEF PendingCall, Configuration
  <2>3. /\ q.op = op /\ q.website = w /\ q.domain = d /\ q.verified = configuration[w].verified
        /\ q.target = target /\ q.step = step /\ ~q.touched
    BY <1>4
  <2> HIDE DEF q
  <2>4. pending \in [Callers -> PendingCall]
    BY <1>1, DomainVariables
  <2>5. pending'[x] = q /\ \A y \in Callers \ {x} : pending'[y] = pending[y]
    BY <2>1, <2>4
  <2>6. pending' \in [Callers -> PendingCall]
    BY <2>1, <2>2, <2>4
  <2>7. QED BY <2>1, <2>3, <2>5, <2>6
<1>7. TouchesStay
  BY <1>6 DEF TouchesStay, EmailDomainsInv, StepIsSound
<1>8. EmailDomainsTypeOK'
  BY <1>1, <1>2, <1>6 DEF EmailDomainsTypeOK
<1>9. Begins(op, step, d, target) /\ (target \in Domains \ {d} => Having(target) = {})
  BY <1>4
<1>10. ReadIsCurrent(x)'
  BY <1>2, <1>3, <1>4, <1>6, <1>9 DEF ReadIsCurrent, Exists, Having
<1>11. StepIsSound(x)'
  BY <1>5, <1>6, <1>9 DEF StepIsSound, Begins
<1>12. CallIsKept(x)' /\ OldIsGone(x)'
  BY <1>6, <1>9 DEF CallIsKept, OldIsGone, Begins
<1>13. ASSUME NEW y \in Callers \ {x}
       PROVE  ReadIsCurrent(y)' /\ StepIsSound(y)' /\ CallIsKept(y)' /\ OldIsGone(y)'
  <2>1. Marked(y)
    BY <1>6, Sames
  <2>2. ReadIsCurrent(y) /\ StepIsSound(y) /\ CallIsKept(y) /\ OldIsGone(y)
    BY DEF EmailDomainsInv
  <2>3. pending[y].domain \in Domains \cup {NoDomain}
    BY <1>1, DomainVariables DEF PendingCall
  <2>4. QED BY <1>2, <1>7, <2>1, <2>2, <2>3, QuietStays, ReadStays, StepStays, CallStays, OldStays
<1>14. ASSUME NEW j \in removals PROVE RemovalIsDue(j)'
  <2>1. RemovalIsDue(j) /\ j.domain \in Domains
    BY <1>1, DomainVariables DEF EmailDomainsInv
  <2>2. CASE Having(j.domain) = {}
    <3>1. step = "write" => target # j.domain
      BY <1>3, <1>4, <1>9, <2>1, <2>2, DomainConstants DEF Having, Begins
    <3>2. QED BY <1>2, <1>6, <2>1, <3>1, RemovalStays
  <2>3. CASE Having(j.domain) # {}
    BY <1>2, <2>1, <2>3 DEF RemovalIsDue
  <2>4. QED BY <2>2, <2>3
<1>15. SharingIsKnown' /\ DomainsAreKept' /\ DomainsAreNotLeft'
  BY <1>2, <1>7, QuietStays, SharingStays, KeptStays, LeftStays DEF EmailDomainsInv
<1>16. RowsAreBlank' /\ \A m \in Mails : MailIsFromIts(m)'
  BY <1>2, MailStays DEF EmailDomainsInv, RowsAreBlank, Exists
<1>17. \A y \in Callers : ReadIsCurrent(y)' /\ StepIsSound(y)' /\ CallIsKept(y)' /\ OldIsGone(y)'
  BY <1>10, <1>11, <1>12, <1>13
<1>18. QED BY <1>2, <1>8, <1>14, <1>15, <1>16, <1>17 DEF EmailDomainsInv

LEMMA BeginningsInv ==
    ASSUME EmailDomainsInv, NEW x \in Callers, NEW w \in Websites
    PROVE  /\ VerifyDnsConfiguration(x, w) => EmailDomainsInv'
           /\ RemoveWebsiteConfiguration(x, w) => EmailDomainsInv'
           /\ \A target \in Domains \cup {NoDomain} :
                UpdateWebsiteConfiguration(x, w, target) => EmailDomainsInv'
<1>1. configuration[w].domain \in Domains \cup {NoDomain}
  BY DomainVariables DEF EmailDomainsInv, Configuration
<1>2. ASSUME VerifyDnsConfiguration(x, w) PROVE EmailDomainsInv'
  BY <1>1, <1>2, CallInv DEF VerifyDnsConfiguration, Begins
<1>3. ASSUME RemoveWebsiteConfiguration(x, w) PROVE EmailDomainsInv'
  BY <1>1, <1>3, CallInv, DomainConstants DEF RemoveWebsiteConfiguration, Begins
<1>4. ASSUME NEW target \in Domains \cup {NoDomain}, UpdateWebsiteConfiguration(x, w, target)
      PROVE  EmailDomainsInv'
  <2> DEFINE domain == configuration[w].domain
             step   == IF domain \notin {NoDomain, target} THEN "remove"
                       ELSE IF target \notin {NoDomain, domain} THEN "add" ELSE "write"
  <2>1. Call(x, "update", w, target, step)
    BY <1>4 DEF UpdateWebsiteConfiguration
  <2>2. Begins("update", step, domain, target)
    BY DEF Begins
  <2>3. target \in Domains \ {domain} => Having(target) = {}
    <3>1. SUFFICES ASSUME target \in Domains \ {domain} PROVE Having(target) = {}
      OBVIOUS
    <3>2. Having(target) \subseteq {w}
      BY <1>4, <3>1, DomainConstants
      DEF UpdateWebsiteConfiguration, FindWebsiteConfigurationByDomain
    <3>3. QED BY <3>1, <3>2 DEF Having
  <2> HIDE DEF step
  <2>4. QED BY <2>1, <2>2, <2>3, CallInv
<1>5. QED BY <1>2, <1>3, <1>4

\* What is known of a request that isn't told otherwise.
LEMMA CallFacts ==
    ASSUME EmailDomainsInv, NEW y \in Callers
    PROVE  /\ pending[y] \in PendingCall
           /\ pending[y].domain \in Domains \cup {NoDomain}
           /\ pending[y].target \in Domains \cup {NoDomain}
           /\ pending[y].touched \in BOOLEAN /\ pending[y].stale \in BOOLEAN
           /\ pending[y].verified \in BOOLEAN
           /\ pending[y].op \in {"none", "update", "verify", "delete"}
           /\ ReadIsCurrent(y) /\ StepIsSound(y) /\ CallIsKept(y) /\ OldIsGone(y)
<1>1. pending[y] \in PendingCall
  BY DomainVariables DEF EmailDomainsInv
<1>2. QED BY <1>1 DEF EmailDomainsInv, PendingCall

LEMMA AddDomainInv ==
    ASSUME EmailDomainsInv, NEW x \in Callers, AddDomain(x)
    PROVE  EmailDomainsInv'
<1>1. EmailDomainsTypeOK
  BY DEF EmailDomainsInv
<1>2. UNCHANGED <<configuration, removals, mail, carried, torn, overlapped, lost>>
  BY DEF AddDomain
<1>3. PICK d \in Domains \cup {NoDomain} : d = pending[x].target
  BY CallFacts
<1>4. /\ pending[x].step = "add" /\ pending[x].op = "update" /\ d \in Domains
      /\ d # pending[x].domain /\ (pending[x].domain = NoDomain \/ pending[x].touched)
      /\ identity[d] = "absent"
  BY <1>3, CallFacts DEF AddDomain, StepIsSound
<1>5. /\ identity' \in [Domains -> {"absent", "pending", "verified"}]
      /\ identity'[d] = "pending" /\ \A e \in Domains \ {d} : identity'[e] = identity[e]
  BY <1>1, <1>3, <1>4, DomainVariables DEF AddDomain
<1>6. /\ pending' \in [Callers -> PendingCall]
      /\ pending'[x].op = "update" /\ pending'[x].website = pending[x].website
      /\ pending'[x].domain = pending[x].domain /\ pending'[x].verified = pending[x].verified
      /\ pending'[x].target = d /\ pending'[x].step = "write" /\ pending'[x].touched
      /\ pending'[x].stale = pending[x].stale
      /\ \A y \in Callers \ {x} : pending'[y] = pending[y]
  BY <1>1, <1>3, <1>4, DomainVariables DEF AddDomain, PendingCall
<1>7. /\ \A v : Quiet(v)' => Quiet(v)
      /\ \A e : Adding(e) => Adding(e)'
      /\ Adding(d)'
  BY <1>3, <1>6 DEF Quiet, Adding
<1>8. EmailDomainsTypeOK'
  BY <1>1, <1>2, <1>5, <1>6 DEF EmailDomainsTypeOK
<1>9. ReadIsCurrent(x)'
  BY <1>2, <1>3, <1>4, <1>6, CallFacts DEF ReadIsCurrent, Exists, Having
<1>10. StepIsSound(x)' /\ CallIsKept(x)'
  BY <1>3, <1>4, <1>5, <1>6, CallFacts, DomainConstants DEF StepIsSound, CallIsKept
<1>11. OldIsGone(x)'
  <2>1. PICK e : e = pending[x].domain
    OBVIOUS
  <2>2. pending'[x].domain = e /\ e # d /\ e \in Domains \cup {NoDomain}
    BY <1>4, <1>6, <2>1, CallFacts
  <2>3. ~pending[x].stale /\ e # NoDomain => identity[e] = "absent" \/ e \in lost \/ Adding(e)
    BY <1>4, <2>1, CallFacts DEF OldIsGone
  <2>4. QED BY <1>2, <1>5, <1>6, <1>7, <2>2, <2>3 DEF OldIsGone
<1>12. ASSUME NEW y \in Callers \ {x}
       PROVE  ReadIsCurrent(y)' /\ StepIsSound(y)' /\ CallIsKept(y)' /\ OldIsGone(y)'
  <2>1. Marked(y) /\ pending'[y] = pending[y]
    BY <1>6, Sames
  <2>2. ReadIsCurrent(y)' /\ StepIsSound(y)'
    BY <1>2, <2>1, CallFacts, ReadStays, StepStays
  <2>3. PICK v : v = pending[y].website
    OBVIOUS
  <2>4. CallIsKept(y)'
    BY <1>2, <1>4, <1>5, <1>7, <2>1, <2>3, CallFacts DEF CallIsKept, StepIsSound
  <2>5. PICK e : e = pending[y].domain
    OBVIOUS
  <2>6. OldIsGone(y)'
    BY <1>2, <1>5, <1>7, <2>1, <2>5, CallFacts DEF OldIsGone
  <2>7. QED BY <2>2, <2>4, <2>6
<1>13. ASSUME NEW j \in removals PROVE RemovalIsDue(j)'
  BY <1>1, <1>2, <1>4, <1>5, <1>6, DomainVariables
  DEF RemovalIsDue, EmailDomainsInv, Having, Exists
<1>14. DomainsAreKept'
  BY <1>1, <1>2, <1>4, <1>5, <1>7, DomainVariables
  DEF EmailDomainsInv, DomainsAreKept, Exists, Configuration
<1>15. DomainsAreNotLeft'
  BY <1>2, <1>5, <1>7 DEF EmailDomainsInv, DomainsAreNotLeft, Having, Exists, Adding
<1>16. SharingIsKnown' /\ RowsAreBlank' /\ \A m \in Mails : MailIsFromIts(m)'
  BY <1>2, SharingStays, MailStays DEF EmailDomainsInv, RowsAreBlank, Exists
<1>17. \A y \in Callers : ReadIsCurrent(y)' /\ StepIsSound(y)' /\ CallIsKept(y)' /\ OldIsGone(y)'
  BY <1>9, <1>10, <1>11, <1>12
<1>18. QED BY <1>2, <1>8, <1>13, <1>14, <1>15, <1>16, <1>17 DEF EmailDomainsInv

LEMMA RemoveDomainInv ==
    ASSUME EmailDomainsInv, NEW x \in Callers, RemoveDomain(x)
    PROVE  EmailDomainsInv'
<1>1. EmailDomainsTypeOK
  BY DEF EmailDomainsInv
<1>2. UNCHANGED <<configuration, removals, mail, carried, torn, lost>>
  BY DEF RemoveDomain
<1>3. PICK d, w : d = pending[x].domain /\ w = pending[x].website
                /\ d \in Domains \cup {NoDomain}
  BY CallFacts
<1>4. /\ pending[x].step = "remove" /\ pending[x].op = "update" /\ d \in Domains
      /\ pending[x].target # d /\ identity[d] # "absent" /\ w \in Websites
  BY <1>3, CallFacts DEF RemoveDomain, StepIsSound
<1>5. /\ identity' \in [Domains -> {"absent", "pending", "verified"}]
      /\ identity'[d] = "absent" /\ \A e \in Domains \ {d} : identity'[e] = identity[e]
  BY <1>1, <1>3, <1>4, DomainVariables DEF RemoveDomain
<1> DEFINE q == [pending[x] EXCEPT
                   !.step = IF pending[x].target = NoDomain THEN "write" ELSE "add",
                   !.touched = TRUE]
<1>0. PICK m : m = IF pending[x].stale THEN d ELSE NoDomain
  OBVIOUS
<1>6. /\ q \in PendingCall
      /\ q.op = "update" /\ q.website = w /\ q.domain = d /\ q.verified = pending[x].verified
      /\ q.target = pending[x].target /\ q.touched /\ q.stale = pending[x].stale
      /\ q.step = IF pending[x].target = NoDomain THEN "write" ELSE "add"
  BY <1>3, <1>4, CallFacts DEF PendingCall
<1>7. Conclude(x, q, NoWebsite, m)
  BY <1>3, <1>0 DEF RemoveDomain
<1> HIDE DEF q
<1>8. /\ pending' \in [Callers -> PendingCall] /\ pending'[x] = q
      /\ \A y \in Callers \ {x} :
           /\ Marked(y)
           /\ ~pending'[y].stale => ~(pending[x].stale /\ pending[y].target = d)
  <2>1. /\ pending' \in [Callers -> PendingCall] /\ pending'[x] = q
        /\ \A y \in Callers \ {x} :
             Marked(y) /\ (~pending'[y].stale => ~(m \in Domains /\ pending[y].target = m))
    BY <1>1, <1>6, <1>7, ConcludeMarks
  <2>2. QED BY <1>4, <1>0, <2>1
<1>9. /\ overlapped \subseteq overlapped' /\ overlapped' \subseteq Websites
      /\ pending[x].stale => Having(d) \subseteq overlapped' /\ Leaving(d) \subseteq overlapped'
  <2>1. Concerned(d) \subseteq Websites
    BY <1>1, DomainVariables DEF Concerned, Having, Leaving
  <2>2. overlapped' = IF pending[x].stale THEN overlapped \cup Concerned(d) \cup {w} ELSE overlapped
    BY <1>3 DEF RemoveDomain
  <2>3. QED BY <1>1, <1>4, <2>1, <2>2, DomainVariables DEF Concerned
\* If x isn't stale, w has d, and no other website without w being known to overlap.
<1>10. ~pending[x].stale =>
         /\ w \in Having(d)
         /\ \A v \in Having(d) \ {w} : v \in overlapped
         /\ \A y \in Callers : pending[y].op # "none" /\ ~pending[y].stale /\ pending[y].target = d
              => pending[y].domain = d
  BY <1>1, <1>3, <1>4, CallFacts, DomainConstants
  DEF ReadIsCurrent, EmailDomainsInv, SharingIsKnown, Having, Exists
<1>11. /\ \A v : Quiet(v)' => Quiet(v)
       /\ ~Quiet(w)'
       /\ \A e : Adding(e) => Adding(e)'
  BY <1>3, <1>6, <1>8 DEF Quiet, Adding, Marked
<1>12. EmailDomainsTypeOK'
  BY <1>1, <1>2, <1>5, <1>8, <1>9 DEF EmailDomainsTypeOK
<1>13. ReadIsCurrent(x)'
  BY <1>2, <1>3, <1>4, <1>6, <1>8, CallFacts DEF ReadIsCurrent, Exists, Having
<1>14. StepIsSound(x)' /\ CallIsKept(x)' /\ OldIsGone(x)'
  BY <1>3, <1>4, <1>5, <1>6, <1>8, CallFacts, DomainConstants
  DEF StepIsSound, CallIsKept, OldIsGone
<1>15. ASSUME NEW y \in Callers \ {x}
       PROVE  ReadIsCurrent(y)' /\ StepIsSound(y)' /\ CallIsKept(y)' /\ OldIsGone(y)'
  <2>1. Marked(y) /\ (~pending'[y].stale => ~(pending[x].stale /\ pending[y].target = d))
    BY <1>8
  <2>2. ReadIsCurrent(y)' /\ StepIsSound(y)'
    BY <1>2, <2>1, CallFacts, ReadStays, StepStays
  <2>3. PICK v, e, t : v = pending[y].website /\ e = pending[y].domain /\ t = pending[y].target
    OBVIOUS
  <2>4. pending'[y].website = v /\ pending'[y].domain = e /\ pending'[y].target = t
    BY <2>1, <2>3 DEF Marked
  <2>5. CallIsKept(y)'
    <3> SUFFICES ASSUME pending'[y].step = "write", ~pending'[y].stale PROVE CallIsKept(y)'
      BY DEF CallIsKept
    <3>1. /\ pending[y].step = "write" /\ ~pending[y].stale /\ pending[y].op # "none"
          /\ ~(pending[x].stale /\ t = d) /\ pending'[y].op = pending[y].op
          /\ pending'[y].verified = pending[y].verified
      BY <2>1, <2>3, CallFacts DEF Marked, StepIsSound
    <3>2. Exists(v) /\ configuration[v].domain = e /\ v \in Websites
      BY <2>3, <3>1, CallFacts DEF ReadIsCurrent, StepIsSound
    <3>3. pending[y].op = "update" /\ t \in Domains \ {e} => identity'[t] # "absent"
      BY <1>5, <1>10, <2>3, <3>1, CallFacts DEF CallIsKept
    <3>4. pending[y].op = "verify" /\ pending[y].verified /\ Quiet(v)'
            /\ v \notin torn' \cup overlapped' => identity'[e] = "verified"
      <4>1. SUFFICES ASSUME pending[y].op = "verify", pending[y].verified, Quiet(v)',
                            v \notin torn' \cup overlapped'
                     PROVE  identity'[e] = "verified"
        OBVIOUS
      <4>2. identity[e] = "verified" /\ e \in Domains
        BY <1>2, <1>9, <1>11, <2>3, <3>1, <4>1, CallFacts DEF CallIsKept, StepIsSound
      <4>3. e # d
        BY <1>9, <1>10, <1>11, <3>2, <4>1, <4>2 DEF Having
      <4>4. QED BY <1>5, <4>2, <4>3
    <3>5. QED BY <2>4, <3>1, <3>3, <3>4 DEF CallIsKept
  <2>6. OldIsGone(y)'
    BY <1>2, <1>5, <1>11, <2>1, CallFacts, OldStays
  <2>7. QED BY <2>2, <2>5, <2>6
<1>16. ASSUME NEW j \in removals PROVE RemovalIsDue(j)'
  <2>1. RemovalIsDue(j) /\ j.domain \in Domains
    BY <1>1, DomainVariables DEF EmailDomainsInv
  <2>2. CASE ~j.again /\ j.website \notin torn' \cup overlapped'
    <3>1. j.domain # d
      BY <1>2, <1>9, <1>10, <2>1, <2>2 DEF RemovalIsDue, Leaving
    <3>2. \A y \in Callers : pending'[y].step = "write" /\ ~pending'[y].stale =>
            pending'[y].target # j.domain
      BY <1>2, <1>6, <1>8, <1>9, <2>1, <2>2, DomainConstants DEF RemovalIsDue, Marked
    <3>3. QED BY <1>2, <1>5, <1>9, <2>1, <2>2, <3>1, <3>2 DEF RemovalIsDue, Having, Exists
  <2>3. QED BY <2>2 DEF RemovalIsDue
<1>17. DomainsAreKept'
  <2>1. SUFFICES ASSUME NEW v \in Websites \ (torn' \cup overlapped'), Exists(v)', Quiet(v)'
                 PROVE  /\ configuration[v].domain # NoDomain =>
                             identity'[configuration[v].domain] # "absent"
                        /\ configuration[v].verified =>
                             /\ configuration[v].domain # NoDomain
                             /\ v \notin carried => identity'[configuration[v].domain] = "verified"
    BY <1>2 DEF DomainsAreKept, Exists
  <2>2. Exists(v) /\ Quiet(v) /\ v \notin torn \cup overlapped
    BY <1>2, <1>9, <1>11, <2>1 DEF Exists
  <2>3. configuration[v].domain # d
    BY <1>9, <1>10, <1>11, <2>1, <2>2 DEF Having
  <2>4. configuration[v].domain \in Domains \cup {NoDomain}
    BY <1>1, DomainVariables DEF Configuration
  <2>5. QED BY <1>5, <2>2, <2>3, <2>4 DEF EmailDomainsInv, DomainsAreKept
<1>18. DomainsAreNotLeft'
  BY <1>2, <1>5, <1>11 DEF EmailDomainsInv, DomainsAreNotLeft, Having, Exists, Adding
<1>19. SharingIsKnown' /\ RowsAreBlank' /\ \A n \in Mails : MailIsFromIts(n)'
  BY <1>2, <1>9, SharingStays, MailStays DEF EmailDomainsInv, RowsAreBlank, Exists
<1>20. \A y \in Callers : ReadIsCurrent(y)' /\ StepIsSound(y)' /\ CallIsKept(y)' /\ OldIsGone(y)'
  BY <1>13, <1>14, <1>15
<1>21. QED BY <1>2, <1>12, <1>16, <1>17, <1>18, <1>19, <1>20 DEF EmailDomainsInv

LEMMA VerifyDomainInv ==
    ASSUME EmailDomainsInv, NEW x \in Callers, VerifyDomain(x)
    PROVE  EmailDomainsInv'
<1>1. EmailDomainsTypeOK
  BY DEF EmailDomainsInv
<1>2. UNCHANGED <<configuration, identity, removals, mail, carried, torn, overlapped, lost>>
  BY DEF VerifyDomain
<1>3. PICK d, w : d = pending[x].domain /\ w = pending[x].website
  OBVIOUS
<1>4. /\ pending[x].step = "ask" /\ pending[x].op = "verify" /\ d \in Domains
      /\ pending[x].target = d /\ ~pending[x].touched
  BY <1>3, CallFacts DEF VerifyDomain, StepIsSound
<1>5. /\ pending' \in [Callers -> PendingCall]
      /\ pending'[x].op = "verify" /\ pending'[x].website = w /\ pending'[x].domain = d
      /\ (pending'[x].verified => identity[d] = "verified")
      /\ pending'[x].target = d /\ pending'[x].step = "write" /\ ~pending'[x].touched
      /\ pending'[x].stale = pending[x].stale
      /\ \A y \in Callers \ {x} : pending'[y] = pending[y]
  <2> DEFINE v == identity[d] = "verified"
             q == [pending[x] EXCEPT !.step = "write", !.verified = v]
  <2>1. v \in BOOLEAN /\ pending \in [Callers -> PendingCall] /\ pending[x] \in PendingCall
    BY <1>1, DomainVariables
  <2>2. pending' = [pending EXCEPT ![x] = q]
    BY <1>3 DEF VerifyDomain
  <2> HIDE DEF v
  <2>3. /\ q \in PendingCall /\ q.op = "verify" /\ q.website = w /\ q.domain = d
        /\ q.verified = v /\ q.target = d /\ q.step = "write" /\ ~q.touched
        /\ q.stale = pending[x].stale
    BY <1>3, <1>4, <2>1 DEF PendingCall
  <2> HIDE DEF q
  <2>4. pending' \in [Callers -> PendingCall] /\ pending'[x] = q
        /\ \A y \in Callers \ {x} : pending'[y] = pending[y]
    BY <2>1, <2>2, <2>3
  <2>5. QED BY <2>3, <2>4 DEF v
<1>6. TouchesStay
  BY <1>3, <1>4, <1>5 DEF TouchesStay
<1>7. EmailDomainsTypeOK'
  BY <1>1, <1>2, <1>5 DEF EmailDomainsTypeOK
<1>8. ReadIsCurrent(x)' /\ StepIsSound(x)' /\ CallIsKept(x)' /\ OldIsGone(x)'
  BY <1>2, <1>3, <1>4, <1>5, CallFacts, DomainConstants
  DEF ReadIsCurrent, Exists, Having, StepIsSound, CallIsKept, OldIsGone
<1>9. ASSUME NEW y \in Callers \ {x}
      PROVE  ReadIsCurrent(y)' /\ StepIsSound(y)' /\ CallIsKept(y)' /\ OldIsGone(y)'
  BY <1>2, <1>5, <1>6, Sames, CallFacts, QuietStays, ReadStays, StepStays, CallStays, OldStays
<1>10. ASSUME NEW j \in removals PROVE RemovalIsDue(j)'
  <2>1. RemovalIsDue(j) /\ j.domain \in Domains
    BY <1>1, DomainVariables DEF EmailDomainsInv
  <2>2. CASE Having(j.domain) = {}
    <3>1. ~pending[x].stale => d # j.domain
      BY <1>3, <1>4, <2>2, CallFacts DEF Having, ReadIsCurrent, StepIsSound
    <3>2. \A y \in Callers : pending'[y].step = "write" /\ ~pending'[y].stale =>
             \/ pending[y].step = "write" /\ ~pending[y].stale
                /\ pending'[y].target = pending[y].target
             \/ pending'[y].target # j.domain
      BY <1>5, <3>1
    <3>3. QED BY <1>2, <2>1, <3>2, RemovalStays
  <2>3. CASE Having(j.domain) # {}
    BY <1>2, <2>1, <2>3 DEF RemovalIsDue
  <2>4. QED BY <2>2, <2>3
<1>11. SharingIsKnown' /\ DomainsAreKept' /\ DomainsAreNotLeft'
  BY <1>2, <1>6, QuietStays, SharingStays, KeptStays, LeftStays DEF EmailDomainsInv
<1>12. RowsAreBlank' /\ \A m \in Mails : MailIsFromIts(m)'
  BY <1>2, MailStays DEF EmailDomainsInv, RowsAreBlank, Exists
<1>13. \A y \in Callers : ReadIsCurrent(y)' /\ StepIsSound(y)' /\ CallIsKept(y)' /\ OldIsGone(y)'
  BY <1>8, <1>9
<1>14. QED BY <1>2, <1>7, <1>10, <1>11, <1>12, <1>13 DEF EmailDomainsInv

LEMMA ProveDomainInv ==
    ASSUME EmailDomainsInv, NEW d \in Domains, ProveDomain(d)
    PROVE  EmailDomainsInv'
<1>1. EmailDomainsTypeOK
  BY DEF EmailDomainsInv
<1>2. UNCHANGED <<configuration, pending, removals, mail, carried, torn, overlapped, lost>>
  BY DEF ProveDomain
<1>3. /\ identity' \in [Domains -> {"absent", "pending", "verified"}]
      /\ identity'[d] = "verified" /\ identity[d] = "pending"
      /\ \A e \in Domains \ {d} : identity'[e] = identity[e]
  BY <1>1, DomainVariables DEF ProveDomain
<1>4. EmailDomainsTypeOK'
  BY <1>1, <1>2, <1>3 DEF EmailDomainsTypeOK
<1>5. TouchesStay /\ \A y \in Callers : Marked(y)
  BY <1>2 DEF TouchesStay, Marked
<1>6. ASSUME NEW y \in Callers
      PROVE  ReadIsCurrent(y)' /\ StepIsSound(y)' /\ CallIsKept(y)' /\ OldIsGone(y)'
  <2>1. ReadIsCurrent(y)' /\ StepIsSound(y)'
    BY <1>2, <1>5, CallFacts, ReadStays, StepStays
  <2>2. PICK w, e : w = pending[y].website /\ e = pending[y].domain
    OBVIOUS
  <2>3. Quiet(w)' <=> Quiet(w)
    BY <1>5, QuietStays
  <2>4. CallIsKept(y)'
    BY <1>2, <1>3, <2>2, <2>3, CallFacts DEF CallIsKept, StepIsSound
  <2>5. OldIsGone(y)'
    BY <1>2, <1>3, <1>5, CallFacts, OldStays, QuietStays
  <2>6. QED BY <2>1, <2>4, <2>5
<1>7. ASSUME NEW j \in removals PROVE RemovalIsDue(j)'
  BY <1>1, <1>2, <1>3, DomainVariables DEF RemovalIsDue, EmailDomainsInv, Having, Exists
<1>8. DomainsAreKept'
  <2>1. \A w : Quiet(w)' <=> Quiet(w)
    BY <1>5, QuietStays
  <2>2. \A w \in Websites : configuration[w].domain \in Domains \cup {NoDomain}
    BY <1>1, DomainVariables DEF Configuration
  <2>3. QED BY <1>2, <1>3, <2>1, <2>2 DEF EmailDomainsInv, DomainsAreKept, Exists
<1>9. DomainsAreNotLeft'
  <2>1. \A e \in Domains : identity'[e] = "absent" <=> identity[e] = "absent"
    BY <1>3
  <2>2. QED BY <1>2, <2>1 DEF EmailDomainsInv, DomainsAreNotLeft, Having, Exists
<1>10. SharingIsKnown' /\ RowsAreBlank' /\ \A m \in Mails : MailIsFromIts(m)'
  BY <1>2, SharingStays, MailStays DEF EmailDomainsInv, RowsAreBlank, Exists
<1>11. QED BY <1>2, <1>4, <1>6, <1>7, <1>8, <1>9, <1>10 DEF EmailDomainsInv

LEMMA FailCallInv ==
    ASSUME EmailDomainsInv, NEW x \in Callers, FailCall(x)
    PROVE  EmailDomainsInv'
<1>1. EmailDomainsTypeOK
  BY DEF EmailDomainsInv
<1>2. UNCHANGED <<configuration, identity, removals, mail, carried, overlapped>>
  BY DEF FailCall
<1>3. PICK d, w : d = pending[x].target /\ w = pending[x].website
                /\ d \in Domains \cup {NoDomain}
  BY CallFacts
<1>4. w \in Websites
  BY <1>3, CallFacts DEF FailCall, StepIsSound
<1>5. /\ pending' \in [Callers -> PendingCall] /\ pending'[x] = NoCall
      /\ \A y \in Callers \ {x} : pending'[y] = pending[y]
  BY <1>1, DomainVariables, NoCallIs DEF FailCall
<1>6. /\ torn \subseteq torn' /\ torn' \subseteq Websites
      /\ lost \subseteq lost' /\ lost' \subseteq Domains
      /\ pending[x].touched => w \in torn' /\ (d \in Domains => d \in lost')
  BY <1>1, <1>3, <1>4, DomainVariables, DomainConstants DEF FailCall
<1>7. /\ \A v : v \notin torn' => (Quiet(v)' => Quiet(v))
      /\ \A e \in Domains \ lost' : Adding(e) => Adding(e)'
  BY <1>3, <1>5, <1>6 DEF Quiet, Adding
<1>8. EmailDomainsTypeOK'
  BY <1>1, <1>2, <1>5, <1>6 DEF EmailDomainsTypeOK
<1>9. ReadIsCurrent(x)' /\ StepIsSound(x)' /\ CallIsKept(x)' /\ OldIsGone(x)'
  BY <1>5, NoCallIs DEF ReadIsCurrent, StepIsSound, CallIsKept, OldIsGone
<1>10. ASSUME NEW y \in Callers \ {x}
       PROVE  ReadIsCurrent(y)' /\ StepIsSound(y)' /\ CallIsKept(y)' /\ OldIsGone(y)'
  BY <1>2, <1>5, <1>6, <1>7, Sames, CallFacts, ReadStays, StepStays, CallStays, OldStays
<1>11. ASSUME NEW j \in removals PROVE RemovalIsDue(j)'
  <2>1. RemovalIsDue(j)
    BY DEF EmailDomainsInv
  <2>2. \A y \in Callers : pending'[y].step = "write" /\ ~pending'[y].stale =>
             pending[y].step = "write" /\ ~pending[y].stale
             /\ pending'[y].target = pending[y].target
    BY <1>5, NoCallIs
  <2>3. QED BY <1>2, <1>6, <2>1, <2>2, RemovalStays
<1>12. SharingIsKnown' /\ DomainsAreKept' /\ DomainsAreNotLeft'
  BY <1>2, <1>6, <1>7, SharingStays, KeptStays, LeftStays DEF EmailDomainsInv
<1>13. RowsAreBlank' /\ \A m \in Mails : MailIsFromIts(m)'
  BY <1>2, MailStays DEF EmailDomainsInv, RowsAreBlank, Exists
<1>14. \A y \in Callers : ReadIsCurrent(y)' /\ StepIsSound(y)' /\ CallIsKept(y)' /\ OldIsGone(y)'
  BY <1>9, <1>10
<1>15. QED BY <1>2, <1>8, <1>11, <1>12, <1>13, <1>14 DEF EmailDomainsInv

LEMMA GiveUpRemovalInv ==
    ASSUME EmailDomainsInv, NEW j \in removals, GiveUpRemoval(j)
    PROVE  EmailDomainsInv'
<1>1. EmailDomainsTypeOK
  BY DEF EmailDomainsInv
<1>2. UNCHANGED <<configuration, identity, pending, mail, carried, torn, overlapped>>
  BY DEF GiveUpRemoval
<1>3. /\ removals' = removals \ {j} /\ lost' = lost \cup {j.domain} /\ j.domain \in Domains
  BY <1>1, DomainVariables DEF GiveUpRemoval
<1>4. TouchesStay /\ \A y \in Callers : Marked(y)
  BY <1>2 DEF TouchesStay, Marked
<1>5. EmailDomainsTypeOK'
  BY <1>1, <1>2, <1>3 DEF EmailDomainsTypeOK
<1>6. ASSUME NEW y \in Callers
      PROVE  ReadIsCurrent(y)' /\ StepIsSound(y)' /\ CallIsKept(y)' /\ OldIsGone(y)'
  BY <1>2, <1>3, <1>4, CallFacts, QuietStays, ReadStays, StepStays, CallStays, OldStays
<1>7. ASSUME NEW i \in removals' PROVE RemovalIsDue(i)'
  BY <1>2, <1>3, RemovalStays DEF EmailDomainsInv
<1>8. SharingIsKnown' /\ DomainsAreKept'
  BY <1>2, <1>4, QuietStays, SharingStays, KeptStays DEF EmailDomainsInv
<1>9. DomainsAreNotLeft'
  BY <1>2, <1>3 DEF EmailDomainsInv, DomainsAreNotLeft, Having, Exists
<1>10. RowsAreBlank' /\ \A m \in Mails : MailIsFromIts(m)'
  BY <1>2, MailStays DEF EmailDomainsInv, RowsAreBlank, Exists
<1>11. QED BY <1>5, <1>6, <1>7, <1>8, <1>9, <1>10 DEF EmailDomainsInv

LEMMA JobDeleteInv ==
    ASSUME EmailDomainsInv, NEW j \in removals, NEW done \in BOOLEAN,
           JobDeleteWebsiteConfigurationData(j, done)
    PROVE  EmailDomainsInv'
<1>1. EmailDomainsTypeOK /\ RemovalIsDue(j)
  BY DEF EmailDomainsInv
<1>2. UNCHANGED <<configuration, mail, carried, torn, lost>>
  BY DEF JobDeleteWebsiteConfigurationData
<1>3. PICK d \in Domains : d = j.domain
  BY <1>1, DomainVariables
<1>4. /\ identity' \in [Domains -> {"absent", "pending", "verified"}]
      /\ identity'[d] = "absent" /\ \A e \in Domains \ {d} : identity'[e] = identity[e]
  BY <1>1, <1>3, DomainVariables DEF JobDeleteWebsiteConfigurationData
<1>5. PICK late \in BOOLEAN : late <=> j.again \/ j.website \in torn \cup overlapped
  OBVIOUS
<1>6. /\ overlapped \subseteq overlapped' /\ overlapped' \subseteq Websites
      /\ late => Having(d) \subseteq overlapped' /\ Leaving(d) \subseteq overlapped'
  <2>1. Concerned(d) \subseteq Websites
    BY <1>1, DomainVariables DEF Concerned, Having, Leaving
  <2>2. overlapped' = IF late THEN overlapped \cup Concerned(d) ELSE overlapped
    BY <1>3, <1>5 DEF JobDeleteWebsiteConfigurationData
  <2>3. QED BY <1>1, <2>1, <2>2, DomainVariables DEF Concerned
<1>7. /\ pending' \in [Callers -> PendingCall]
      /\ \A y \in Callers : /\ Marked(y)
                            /\ ~pending'[y].stale => ~(late /\ pending[y].target = d)
  <2> DEFINE A(y) == late /\ pending[y].target = d
             N(y) == [pending[y] EXCEPT !.stale = @ \/ A(y)]
  <2>1. pending' = [y \in Callers |-> N(y)]
    BY <1>3, <1>5 DEF JobDeleteWebsiteConfigurationData
  <2>2. ASSUME NEW y \in Callers
        PROVE  /\ N(y) \in PendingCall /\ N(y).op = pending[y].op
               /\ N(y).website = pending[y].website /\ N(y).domain = pending[y].domain
               /\ N(y).verified = pending[y].verified
               /\ N(y).target = pending[y].target
               /\ N(y).step = pending[y].step /\ N(y).touched = pending[y].touched
               /\ (~N(y).stale => ~pending[y].stale /\ ~A(y))
    <3> DEFINE p == pending[y]
               a == A(y)
    <3>1. p \in PendingCall /\ a \in BOOLEAN
      BY <1>1, DomainVariables
    <3>2. N(y) = [p EXCEPT !.stale = @ \/ a]
      OBVIOUS
    <3>3. p.stale \in BOOLEAN
      BY <3>1 DEF PendingCall
    <3> HIDE DEF p, a, N, A
    <3>4. QED BY <3>1, <3>2, <3>3 DEF PendingCall, p, a
  <2> HIDE DEF N
  <2>3. pending' \in [Callers -> PendingCall] /\ \A y \in Callers : pending'[y] = N(y)
    BY <2>1, <2>2
  <2>4. QED BY <2>2, <2>3 DEF Marked
<1>8. TouchesStay /\ (\A w : Quiet(w)' <=> Quiet(w)) /\ (\A e : Adding(e)' <=> Adding(e))
  <2>1. TouchesStay
    BY <1>7 DEF TouchesStay, Marked
  <2>2. QED BY <2>1, QuietStays
\* If the job isn't late, nobody has d or is about to write it.
<1>9. ~late => /\ Having(d) = {}
               /\ \A y \in Callers : pending[y].step = "write" /\ ~pending[y].stale =>
                    pending[y].target # d
               /\ \A i \in removals : i.domain = d /\ ~i.again
                    /\ i.website \notin torn \cup overlapped => i = j
  BY <1>1, <1>3, <1>5 DEF RemovalIsDue
<1>10. /\ removals' \subseteq [website : Websites, domain : Domains, again : BOOLEAN]
       /\ \A i \in removals' : i.again \/ i \in removals \ {j}
       /\ \A i \in removals : i.domain = d \/ i \in removals'
  <2> DEFINE again == [j EXCEPT !.again = TRUE]
  <2>1. j \in [website : Websites, domain : Domains, again : BOOLEAN]
    BY <1>1, DomainVariables
  <2>2. again \in [website : Websites, domain : Domains, again : BOOLEAN] /\ again.again
    BY <2>1
  <2>3. removals' = (removals \ {j}) \cup (IF done THEN {} ELSE {again})
    BY DEF JobDeleteWebsiteConfigurationData
  <2> HIDE DEF again
  <2>4. QED BY <1>1, <1>3, <2>2, <2>3, DomainVariables
<1>11. EmailDomainsTypeOK'
  BY <1>1, <1>2, <1>4, <1>6, <1>7, <1>10 DEF EmailDomainsTypeOK
<1>12. ASSUME NEW y \in Callers
       PROVE  ReadIsCurrent(y)' /\ StepIsSound(y)' /\ CallIsKept(y)' /\ OldIsGone(y)'
  <2>1. Marked(y) /\ (~pending'[y].stale => ~(late /\ pending[y].target = d))
    BY <1>7
  <2>2. ReadIsCurrent(y)' /\ StepIsSound(y)'
    BY <1>2, <2>1, CallFacts, ReadStays, StepStays
  <2>3. PICK v, e, t : v = pending[y].website /\ e = pending[y].domain /\ t = pending[y].target
    OBVIOUS
  <2>4. pending'[y].website = v /\ pending'[y].domain = e /\ pending'[y].target = t
    BY <2>1, <2>3 DEF Marked
  <2>5. CallIsKept(y)'
    <3> SUFFICES ASSUME pending'[y].step = "write", ~pending'[y].stale PROVE CallIsKept(y)'
      BY DEF CallIsKept
    <3>1. /\ pending[y].step = "write" /\ ~pending[y].stale /\ pending[y].op # "none"
          /\ t # d /\ pending'[y].op = pending[y].op
          /\ pending'[y].verified = pending[y].verified
      BY <1>9, <2>1, <2>3, CallFacts DEF Marked, StepIsSound
    <3>2. pending[y].op = "update" /\ t \in Domains \ {e} => identity'[t] # "absent"
      BY <1>4, <2>3, <3>1, CallFacts DEF CallIsKept
    <3>3. pending[y].op = "verify" => e = t /\ e \in Domains
      BY <2>3, CallFacts DEF StepIsSound
    <3>4. pending[y].op = "verify" /\ pending[y].verified /\ Quiet(v)
            /\ v \notin torn' \cup overlapped' => identity'[e] = "verified"
      BY <1>2, <1>4, <1>6, <2>3, <3>1, <3>3, CallFacts DEF CallIsKept
    <3>5. Quiet(v)' <=> Quiet(v)
      BY <1>8
    <3>6. QED BY <2>4, <3>1, <3>2, <3>4, <3>5 DEF CallIsKept
  <2>6. OldIsGone(y)'
    BY <1>2, <1>4, <1>8, <2>1, CallFacts, OldStays
  <2>7. QED BY <2>2, <2>5, <2>6
<1>13. ASSUME NEW i \in removals' PROVE RemovalIsDue(i)'
  <2> SUFFICES ASSUME ~i.again, i.website \notin torn' \cup overlapped' PROVE RemovalIsDue(i)'
    BY DEF RemovalIsDue
  <2>1. i \in removals \ {j} /\ i.website \notin torn \cup overlapped /\ i.domain \in Domains
    BY <1>1, <1>2, <1>6, <1>10, DomainVariables
  <2>2. RemovalIsDue(i)
    BY <2>1 DEF EmailDomainsInv
  <2>3. i.domain # d
    BY <1>6, <1>9, <2>1 DEF Leaving
  <2>4. identity'[i.domain] # "absent" /\ Having(i.domain) = {}
    BY <1>4, <2>1, <2>2, <2>3 DEF RemovalIsDue
  <2>5. \A y \in Callers : pending'[y].step = "write" /\ ~pending'[y].stale =>
          pending'[y].target # i.domain
    BY <1>7, <2>1, <2>2 DEF RemovalIsDue, Marked
  <2>6. \A k \in removals' : k.domain = i.domain /\ ~k.again
          /\ k.website \notin torn' \cup overlapped' => k = i
    BY <1>2, <1>6, <1>10, <2>1, <2>2 DEF RemovalIsDue
  <2>7. QED BY <1>2, <2>4, <2>5, <2>6 DEF RemovalIsDue, Having, Exists
<1>14. DomainsAreKept'
  <2>1. SUFFICES ASSUME NEW v \in Websites \ (torn' \cup overlapped'), Exists(v)', Quiet(v)'
                 PROVE  /\ configuration[v].domain # NoDomain =>
                             identity'[configuration[v].domain] # "absent"
                        /\ configuration[v].verified =>
                             /\ configuration[v].domain # NoDomain
                             /\ v \notin carried => identity'[configuration[v].domain] = "verified"
    BY <1>2 DEF DomainsAreKept, Exists
  <2>2. Exists(v) /\ Quiet(v) /\ v \notin torn \cup overlapped
    BY <1>2, <1>6, <1>8, <2>1 DEF Exists
  <2>3. configuration[v].domain # d
    BY <1>6, <1>9, <2>1, <2>2 DEF Having
  <2>4. configuration[v].domain \in Domains \cup {NoDomain}
    BY <1>1, DomainVariables DEF Configuration
  <2>5. QED BY <1>4, <2>2, <2>3, <2>4 DEF EmailDomainsInv, DomainsAreKept
<1>15. DomainsAreNotLeft'
  <2>1. SUFFICES ASSUME NEW e \in Domains \ lost, e # d
                 PROVE  \/ identity'[e] = "absent" \/ Having(e) # {}
                        \/ \E i \in removals' : i.domain = e
                        \/ Adding(e)'
    BY <1>2, <1>4 DEF DomainsAreNotLeft, Having, Exists, Adding
  <2>2. \/ identity[e] = "absent" \/ Having(e) # {}
        \/ \E i \in removals : i.domain = e
        \/ Adding(e)
    BY <2>1 DEF EmailDomainsInv, DomainsAreNotLeft, Adding
  <2>3. QED BY <1>4, <1>8, <1>10, <2>1, <2>2
<1>16. SharingIsKnown' /\ RowsAreBlank' /\ \A m \in Mails : MailIsFromIts(m)'
  BY <1>2, <1>6, SharingStays, MailStays DEF EmailDomainsInv, RowsAreBlank, Exists
<1>17. QED BY <1>11, <1>12, <1>13, <1>14, <1>15, <1>16 DEF EmailDomainsInv

LEMMA InitConfigurationInv ==
    ASSUME EmailDomainsInv, NEW w \in Websites, InitWebsiteConfiguration(w)
    PROVE  EmailDomainsInv'
<1>1. EmailDomainsTypeOK
  BY DEF EmailDomainsInv
<1>2. UNCHANGED <<identity, pending, removals, mail, carried, torn, overlapped, lost>>
  BY DEF InitWebsiteConfiguration
<1>3. /\ configuration' \in [Websites -> Configuration] /\ ~Exists(w)
      /\ configuration'[w].state = "live" /\ configuration'[w].domain = NoDomain
      /\ ~configuration'[w].verified
      /\ configuration[w].domain = NoDomain /\ ~configuration[w].verified
      /\ \A v \in Websites \ {w} : configuration'[v] = configuration[v]
  BY <1>1, DomainVariables
  DEF InitWebsiteConfiguration, Configuration, EmailDomainsInv, RowsAreBlank, Exists
<1>4. TouchesStay /\ \A y \in Callers : Marked(y)
  BY <1>2 DEF TouchesStay, Marked
<1>5. (\A v : Quiet(v)' <=> Quiet(v)) /\ (\A e : Adding(e)' <=> Adding(e))
  BY <1>4, QuietStays
<1>6. \A d \in Domains : Having(d)' = Having(d)
  BY <1>3, DomainConstants DEF Having, Exists
<1>7. \A v \in Websites : Exists(v) => Exists(v)' /\ configuration'[v] = configuration[v]
  BY <1>3 DEF Exists
<1>8. EmailDomainsTypeOK'
  BY <1>1, <1>2, <1>3 DEF EmailDomainsTypeOK
<1>9. ASSUME NEW y \in Callers
      PROVE  ReadIsCurrent(y)' /\ StepIsSound(y)' /\ CallIsKept(y)' /\ OldIsGone(y)'
  <2>1. StepIsSound(y)' /\ CallIsKept(y)' /\ OldIsGone(y)'
    BY <1>2, <1>4, <1>5, CallFacts, StepStays, CallStays, OldStays
  <2>2. PICK v, t : v = pending[y].website /\ t = pending[y].target
    OBVIOUS
  <2>3. pending[y].op # "none" => v \in Websites
    BY <2>2, CallFacts DEF StepIsSound
  <2>4. ReadIsCurrent(y)'
    BY <1>2, <1>6, <1>7, <2>2, <2>3, CallFacts DEF ReadIsCurrent
  <2>5. QED BY <2>1, <2>4
<1>10. ASSUME NEW j \in removals PROVE RemovalIsDue(j)'
  <2>1. j.domain \in Domains
    BY <1>1, DomainVariables
  <2>2. PICK d : d = j.domain
    OBVIOUS
  <2>3. QED BY <1>2, <1>6, <2>1, <2>2 DEF EmailDomainsInv, RemovalIsDue
<1>11. SharingIsKnown' /\ DomainsAreKept' /\ RowsAreBlank'
  BY <1>2, <1>3, <1>5 DEF EmailDomainsInv, SharingIsKnown, DomainsAreKept, RowsAreBlank, Exists
<1>12. DomainsAreNotLeft'
  BY <1>2, <1>6 DEF EmailDomainsInv, DomainsAreNotLeft
<1>13. \A m \in Mails : MailIsFromIts(m)'
  BY <1>2, <1>3 DEF EmailDomainsInv, MailIsFromIts, Exists
<1>14. QED BY <1>2, <1>8, <1>9, <1>10, <1>11, <1>12, <1>13 DEF EmailDomainsInv

-----------------------------------------------------------------------------
(* The steps that write the row.                                           *)

\* A row that is written makes the emails of its website late.
LEMMA LateMails ==
    ASSUME EmailDomainsInv, NEW w \in Websites,
           mail' = [m \in Mails |-> [mail[m] EXCEPT !.late = @ \/ mail[m].website = w]],
           \A v \in Websites \ {w} : configuration'[v] = configuration[v]
    PROVE  mail' \in [Mails -> Mail] /\ \A m \in Mails : MailIsFromIts(m)'
<1> DEFINE A(m) == mail[m].website = w
           N(m) == [mail[m] EXCEPT !.late = @ \/ A(m)]
<1>1. ASSUME NEW m \in Mails
      PROVE  /\ N(m) \in Mail /\ N(m).kind = mail[m].kind /\ N(m).website = mail[m].website
             /\ N(m).from = mail[m].from /\ N(m).step = mail[m].step
             /\ N(m).sent = mail[m].sent /\ N(m).counted = mail[m].counted
             /\ N(m).refused = mail[m].refused /\ N(m).crashed = mail[m].crashed
             /\ (N(m).late <=> mail[m].late \/ A(m))
  <2> DEFINE p == mail[m]
             a == A(m)
  <2>1. p \in Mail /\ a \in BOOLEAN
    BY DomainVariables DEF EmailDomainsInv
  <2>2. N(m) = [p EXCEPT !.late = @ \/ a] /\ p.late \in BOOLEAN
    BY <2>1 DEF Mail
  <2> HIDE DEF p, a, N, A
  <2>3. QED BY <2>1, <2>2 DEF Mail, p, a
<1> HIDE DEF N
<1>2. \A m \in Mails : mail'[m] = N(m)
  BY DEF N
<1>3. mail' \in [Mails -> Mail]
  BY <1>1 DEF N
<1>4. ASSUME NEW m \in Mails PROVE MailIsFromIts(m)'
  <2>1. MailIsFromIts(m)
    BY DEF EmailDomainsInv
  <2>2. PICK v : v = mail[m].website
    OBVIOUS
  <2>3. /\ mail'[m].website = v /\ mail'[m].kind = mail[m].kind /\ mail'[m].from = mail[m].from
        /\ mail'[m].step = mail[m].step /\ mail'[m].sent = mail[m].sent
        /\ mail'[m].counted = mail[m].counted /\ mail'[m].crashed = mail[m].crashed
        /\ mail'[m].refused = mail[m].refused
        /\ (mail'[m].late <=> mail[m].late \/ v = w)
    BY <1>1, <1>2, <2>2
  <2>4. mail[m].step = "sending" \/ mail[m].kind = "broadcast" => v \in Websites
    BY <2>1, <2>2 DEF MailIsFromIts
  <2>5. QED BY <2>1, <2>2, <2>3, <2>4 DEF MailIsFromIts, Exists
<1>5. QED BY <1>3, <1>4

LEMMA WriteRowInv ==
    ASSUME EmailDomainsInv, NEW x \in Callers, UpdateWebsiteConfigurationRow(x)
    PROVE  EmailDomainsInv'
<1>1. EmailDomainsTypeOK
  BY DEF EmailDomainsInv
<1>2. UNCHANGED <<identity, removals, torn>>
  BY DEF UpdateWebsiteConfigurationRow
<1>0. PICK p \in PendingCall, d \in Domains \cup {NoDomain}, t \in Domains \cup {NoDomain} :
        p = pending[x] /\ d = p.domain /\ t = p.target
  BY CallFacts
<1>3. PICK w : w = p.website /\ p = pending[x] /\ d = p.domain /\ t = p.target
  BY <1>0
<1>4. /\ p.step = "write" /\ p.op \in {"update", "verify"} /\ w \in Websites
      /\ p.op = "verify" => t = d /\ ~p.touched /\ d # NoDomain
      /\ p.touched => t # d
      /\ t # d => p.touched
      /\ p.verified \in BOOLEAN /\ p.stale \in BOOLEAN
  BY <1>3, CallFacts DEF UpdateWebsiteConfigurationRow, StepIsSound
<1>5. ~p.stale => /\ Exists(w) /\ configuration[w].domain = d
                  /\ p.op = "update" => configuration[w].verified = p.verified
                  /\ t \in Domains \ {d} => Having(t) = {}
  BY <1>3, <1>4, CallFacts DEF ReadIsCurrent
<1>6. /\ ~p.stale /\ p.op = "update" /\ t \in Domains \ {d} => identity[t] # "absent"
      /\ ~p.stale /\ p.op = "verify" /\ p.verified /\ Quiet(w) /\ w \notin torn \cup overlapped =>
           identity[d] = "verified"
  <2>1. CallIsKept(x)
    BY CallFacts
  <2>2. QED BY <1>3, <1>4, <2>1 DEF CallIsKept
<1>7. /\ configuration' \in [Websites -> Configuration]
      /\ \A v \in Websites \ {w} : configuration'[v] = configuration[v]
      /\ ~Exists(w) => configuration'[w] = configuration[w]
      /\ Exists(w) => /\ configuration'[w].state = "live" /\ configuration'[w].domain = t
                      /\ (configuration'[w].verified <=> p.verified /\ t # NoDomain)
  <2>1. configuration \in [Websites -> Configuration]
    BY <1>1, DomainVariables
  <2>2. configuration' = IF Exists(w) THEN [configuration EXCEPT ![w] = NewRow(p)] ELSE configuration
    BY <1>3 DEF UpdateWebsiteConfigurationRow
  <2>3. /\ NewRow(p) \in Configuration /\ NewRow(p).state = "live" /\ NewRow(p).domain = t
        /\ (NewRow(p).verified <=> p.verified /\ t # NoDomain)
    BY <1>3, <1>4 DEF NewRow, Configuration
  <2>4. QED BY <1>4, <2>1, <2>2, <2>3
<1>8. /\ pending' \in [Callers -> PendingCall] /\ pending'[x] = NoCall
      /\ \A y \in Callers \ {x} :
           /\ Marked(y)
           /\ ~pending'[y].stale => pending[y].website # w /\ ~(t \in Domains /\ pending[y].target = t)
  <2>1. Conclude(x, NoCall, w, t)
    BY <1>3 DEF UpdateWebsiteConfigurationRow
  <2>2. QED BY <1>1, <1>4, <2>1, ConcludeMarks, NoCallIs
<1>9. /\ overlapped \subseteq overlapped' /\ overlapped' \subseteq Websites
      /\ p.stale => w \in overlapped' /\ Having(t) \subseteq overlapped'
                    /\ Leaving(t) \subseteq overlapped'
  <2>1. Concerned(t) \subseteq Websites
    BY <1>1, DomainVariables DEF Concerned, Having, Leaving
  <2>2. overlapped' = IF p.stale THEN overlapped \cup {w} \cup Concerned(t) ELSE overlapped
    BY <1>3 DEF UpdateWebsiteConfigurationRow
  <2>3. QED BY <1>1, <1>4, <2>1, <2>2, DomainVariables DEF Concerned
<1>10. /\ lost \subseteq lost' /\ lost' \subseteq Domains
       /\ p.stale => /\ t \in Domains => t \in lost'
                     /\ configuration[w].domain \in Domains => configuration[w].domain \in lost'
  <2>1. lost' = IF p.stale THEN lost \cup ({configuration[w].domain, t} \ {NoDomain}) ELSE lost
    BY <1>3 DEF UpdateWebsiteConfigurationRow
  <2>2. configuration[w].domain \in Domains \cup {NoDomain}
    BY <1>1, <1>4, DomainVariables DEF Configuration
  <2>3. QED BY <1>1, <2>1, <2>2, DomainVariables, DomainConstants
<1>11. /\ carried' \subseteq Websites /\ \A v \in Websites \ {w} : v \in carried' <=> v \in carried
       /\ p.op = "update" /\ p.verified /\ t \notin {NoDomain, d} => w \in carried'
       /\ p.op = "update" /\ t # NoDomain /\ t = d => (w \in carried' <=> w \in carried)
  <2>1. carried' = CASE p.op = "update" /\ p.verified /\ t \notin {NoDomain, d} -> carried \cup {w}
                     [] p.op = "verify" \/ t = NoDomain -> carried \ {w}
                     [] OTHER -> carried
    BY <1>3 DEF UpdateWebsiteConfigurationRow
  <2>2. CASE p.op = "update" /\ p.verified /\ t \notin {NoDomain, d}
    BY <1>1, <1>4, <2>1, <2>2, DomainVariables
  <2>3. CASE p.op = "verify" \/ t = NoDomain
    BY <1>1, <1>4, <2>1, <2>3, DomainVariables
  <2>4. CASE ~(p.op = "update" /\ p.verified /\ t \notin {NoDomain, d})
             /\ ~(p.op = "verify" \/ t = NoDomain)
    BY <1>1, <1>4, <2>1, <2>4, DomainVariables
  <2>5. QED BY <2>2, <2>3, <2>4
<1>12. mail' \in [Mails -> Mail] /\ \A m \in Mails : MailIsFromIts(m)'
  BY <1>3, <1>4, <1>7, LateMails DEF UpdateWebsiteConfigurationRow
<1>13. /\ \A v : v # w => (Quiet(v)' <=> Quiet(v))
       /\ ~p.touched => (Quiet(w)' <=> Quiet(w))
       /\ \A e : Adding(e) => Adding(e)' \/ (p.touched /\ t = e)
  BY <1>3, <1>8, NoCallIs DEF Quiet, Adding, Marked
<1>14. \A e \in Domains : Having(e)' \subseteq Having(e) \cup (IF e = t THEN {w} ELSE {})
  BY <1>7 DEF Having, Exists
<1>15. EmailDomainsTypeOK'
  BY <1>1, <1>2, <1>7, <1>8, <1>9, <1>10, <1>11, <1>12 DEF EmailDomainsTypeOK
<1>16. ReadIsCurrent(x)' /\ StepIsSound(x)' /\ CallIsKept(x)' /\ OldIsGone(x)'
  BY <1>8, NoCallIs DEF ReadIsCurrent, StepIsSound, CallIsKept, OldIsGone
<1>17. ASSUME NEW y \in Callers \ {x}
       PROVE  ReadIsCurrent(y)' /\ StepIsSound(y)' /\ CallIsKept(y)' /\ OldIsGone(y)'
  <2>1. /\ Marked(y)
        /\ ~pending'[y].stale => pending[y].website # w /\ ~(t \in Domains /\ pending[y].target = t)
    BY <1>8
  <2>2. PICK v, e, u : v = pending[y].website /\ e = pending[y].domain /\ u = pending[y].target
    OBVIOUS
  <2>3. /\ pending'[y].website = v /\ pending'[y].domain = e /\ pending'[y].target = u
        /\ pending'[y].op = pending[y].op /\ pending'[y].step = pending[y].step
        /\ pending'[y].verified = pending[y].verified /\ pending'[y].touched = pending[y].touched
        /\ ~pending'[y].stale => ~pending[y].stale /\ v # w /\ ~(t \in Domains /\ u = t)
    BY <2>1, <2>2 DEF Marked
  <2>4. e \in Domains \cup {NoDomain} /\ u \in Domains \cup {NoDomain}
        /\ (pending[y].op # "none" => v \in Websites)
    BY <2>2, CallFacts DEF StepIsSound
  <2>5. ReadIsCurrent(y)'
    <3> SUFFICES ASSUME pending[y].op # "none", ~pending'[y].stale PROVE ReadIsCurrent(y)'
      BY <2>3 DEF ReadIsCurrent
    <3>1. /\ Exists(v) /\ configuration[v].domain = e
          /\ pending[y].op = "update" => configuration[v].verified = pending[y].verified
          /\ u \in Domains \ {e} => Having(u) = {}
      BY <2>2, <2>3, CallFacts DEF ReadIsCurrent
    <3>2. Exists(v)' /\ configuration'[v] = configuration[v]
      BY <1>7, <2>3, <2>4, <3>1 DEF Exists
    <3>3. u \in Domains \ {e} => Having(u)' = {}
      BY <1>14, <2>3, <3>1
    <3>4. QED BY <2>3, <3>1, <3>2, <3>3 DEF ReadIsCurrent
  <2>6. StepIsSound(y)'
    BY <2>1, CallFacts, StepStays
  <2>7. CallIsKept(y)'
    <3> SUFFICES ASSUME pending[y].step = "write", ~pending'[y].stale PROVE CallIsKept(y)'
      BY <2>3 DEF CallIsKept
    <3>1. /\ pending[y].op = "update" /\ u \in Domains \ {e} => identity[u] # "absent"
          /\ pending[y].op = "verify" /\ pending[y].verified /\ Quiet(v)
             /\ v \notin torn \cup overlapped => identity[e] = "verified"
      BY <2>2, <2>3, CallFacts DEF CallIsKept
    <3>2. Quiet(v)' <=> Quiet(v)
      BY <1>13, <2>3
    <3>3. QED BY <1>2, <1>9, <2>3, <3>1, <3>2 DEF CallIsKept
  <2>8. OldIsGone(y)'
    <3> SUFFICES ASSUME pending[y].touched, ~pending'[y].stale, e # NoDomain, e \notin lost'
                 PROVE  identity[e] = "absent" \/ Adding(e)'
      BY <1>2, <2>3 DEF OldIsGone
    <3>1. identity[e] = "absent" \/ Adding(e)
      BY <1>10, <2>2, <2>3, CallFacts DEF OldIsGone
    <3>2. ~(p.touched /\ t = e)
      <4>1. SUFFICES ASSUME p.touched, t = e PROVE FALSE
        OBVIOUS
      <4>2. ~p.stale /\ Having(t) = {}
        BY <1>4, <1>5, <1>10, <2>4, <4>1
      <4>3. pending[y].op # "none" /\ v \in Websites
        BY <2>4, CallFacts DEF StepIsSound
      <4>4. Exists(v) /\ configuration[v].domain = e
        BY <2>2, <2>3, <4>3, CallFacts DEF ReadIsCurrent
      <4>5. QED BY <4>1, <4>2, <4>3, <4>4 DEF Having
    <3>3. QED BY <1>13, <3>1, <3>2
  <2>9. QED BY <2>5, <2>6, <2>7, <2>8
<1>18. ASSUME NEW j \in removals PROVE RemovalIsDue(j)'
  <2> SUFFICES ASSUME ~j.again, j.website \notin torn' \cup overlapped' PROVE RemovalIsDue(j)'
    BY DEF RemovalIsDue
  <2>1. PICK e \in Domains : e = j.domain
    BY <1>1, DomainVariables
  <2>2. RemovalIsDue(j) /\ j.website \notin torn \cup overlapped
    BY <1>2, <1>9 DEF EmailDomainsInv
  <2>3. e # t
    BY <1>3, <1>4, <1>9, <2>1, <2>2 DEF RemovalIsDue, Leaving
  <2>4. Having(e)' = {}
    BY <1>14, <2>1, <2>2, <2>3 DEF RemovalIsDue
  <2>5. \A y \in Callers : pending'[y].step = "write" /\ ~pending'[y].stale => pending'[y].target # e
    BY <1>8, <2>1, <2>2, NoCallIs DEF RemovalIsDue, Marked
  <2>6. QED BY <1>2, <1>9, <2>1, <2>2, <2>4, <2>5 DEF RemovalIsDue
<1>19. SharingIsKnown'
  <2>1. SUFFICES ASSUME NEW u \in Websites, NEW v \in Websites, u # v, Exists(u)', Exists(v)',
                        configuration'[u].domain = configuration'[v].domain,
                        configuration'[u].domain # NoDomain
                 PROVE  u \in overlapped'
    BY DEF SharingIsKnown
  <2>2. Exists(u) /\ Exists(v)
    BY <1>4, <1>7, <2>1 DEF Exists
  <2>3. CASE u = w
    <3>1. configuration'[w].domain = t /\ configuration[v].domain = t /\ t # NoDomain
      BY <1>7, <2>1, <2>2, <2>3
    <3>2. p.stale => u \in overlapped'
      BY <1>9, <2>3
    <3>3. ~p.stale => t = d
      BY <1>5, <2>2, <3>1 DEF Having
    <3>4. ~p.stale => u \in overlapped
      BY <1>5, <2>1, <2>2, <2>3, <3>1, <3>3 DEF EmailDomainsInv, SharingIsKnown
    <3>5. QED BY <1>9, <3>2, <3>4
  <2>4. CASE v = w
    <3>1. configuration'[w].domain = t /\ configuration[u].domain = t /\ t # NoDomain
      BY <1>7, <2>1, <2>2, <2>4
    <3>2. p.stale => u \in overlapped'
      BY <1>9, <2>2, <3>1 DEF Having
    <3>3. ~p.stale => t = d
      BY <1>5, <2>2, <3>1 DEF Having
    <3>4. ~p.stale => u \in overlapped
      BY <1>5, <2>1, <2>2, <2>4, <3>1, <3>3 DEF EmailDomainsInv, SharingIsKnown
    <3>5. QED BY <1>9, <3>2, <3>4
  <2>5. CASE u # w /\ v # w
    BY <1>7, <1>9, <2>1, <2>2, <2>5 DEF EmailDomainsInv, SharingIsKnown
  <2>6. QED BY <2>3, <2>4, <2>5
<1>20. DomainsAreKept'
  <2>1. SUFFICES ASSUME NEW v \in Websites \ (torn' \cup overlapped'), Exists(v)', Quiet(v)'
                 PROVE  /\ configuration'[v].domain # NoDomain =>
                             identity[configuration'[v].domain] # "absent"
                        /\ configuration'[v].verified =>
                             /\ configuration'[v].domain # NoDomain
                             /\ v \notin carried' => identity[configuration'[v].domain] = "verified"
    BY <1>2 DEF DomainsAreKept
  <2>2. Exists(v) /\ v \notin torn \cup overlapped
    BY <1>2, <1>4, <1>7, <1>9, <2>1 DEF Exists
  <2>3. CASE v # w
    BY <1>7, <1>11, <1>13, <2>1, <2>2, <2>3 DEF EmailDomainsInv, DomainsAreKept
  <2>4. CASE v = w
    <3>1. ~p.stale /\ configuration'[v].domain = t
          /\ (configuration'[v].verified <=> p.verified /\ t # NoDomain)
      BY <1>7, <1>9, <2>1, <2>2, <2>4
    <3>2. CASE t = d
      <4>1. Quiet(w)
        BY <1>4, <1>13, <2>1, <2>4, <3>2
      <4>2. /\ d # NoDomain => identity[d] # "absent"
            /\ configuration[w].verified => d # NoDomain
                 /\ (w \notin carried => identity[d] = "verified")
        BY <1>5, <2>2, <2>4, <3>1, <4>1 DEF EmailDomainsInv, DomainsAreKept
      <4>3. p.op = "update" => (configuration[w].verified = p.verified)
        BY <1>5, <3>1
      <4>4. t # NoDomain /\ p.verified /\ w \notin carried' => identity[t] = "verified"
        BY <1>4, <1>6, <1>11, <2>2, <2>4, <3>1, <3>2, <4>1, <4>2, <4>3
      <4>5. QED BY <2>4, <3>1, <3>2, <4>2, <4>4
    <3>3. CASE t # d
      <4>1. p.op = "update"
        BY <1>4, <3>3
      <4>2. t # NoDomain => identity[t] # "absent"
        BY <1>6, <3>1, <3>3, <4>1
      <4>3. t # NoDomain /\ p.verified => w \in carried'
        BY <1>11, <3>3, <4>1
      <4>4. QED BY <2>4, <3>1, <4>2, <4>3
    <3>4. QED BY <3>2, <3>3
  <2>5. QED BY <2>3, <2>4
<1>21. DomainsAreNotLeft'
  <2>1. SUFFICES ASSUME NEW e \in Domains \ lost', identity[e] # "absent",
                        ~ \E j \in removals : j.domain = e
                 PROVE  Having(e)' # {} \/ Adding(e)'
    BY <1>2 DEF DomainsAreNotLeft, Adding
  <2>2. Having(e) # {} \/ Adding(e)
    BY <1>10, <2>1 DEF EmailDomainsInv, DomainsAreNotLeft, Adding
  <2>3. CASE Exists(w) /\ t = e
    BY <1>4, <1>7, <2>3 DEF Having, Exists
  <2>4. CASE Exists(w) /\ t # e
    <3>1. CASE Adding(e)
      BY <1>13, <2>4, <3>1
    <3>2. CASE \E v \in Having(e) : v # w
      BY <1>7, <3>2 DEF Having, Exists
    <3>3. CASE Having(e) \subseteq {w} /\ ~Adding(e)
      <4>1. configuration[w].domain = e
        BY <2>2, <3>3 DEF Having
      <4>2. ~p.stale /\ d = e /\ p.touched
        BY <1>4, <1>5, <1>10, <2>1, <2>4, <4>1
      <4>3. OldIsGone(x)
        BY CallFacts
      <4>4. QED BY <1>3, <1>10, <2>1, <3>3, <4>2, <4>3, DomainConstants DEF OldIsGone
    <3>4. QED BY <3>1, <3>2, <3>3
  <2>5. CASE ~Exists(w)
    <3>1. p.stale
      BY <1>5, <2>5
    <3>2. Having(e) \subseteq Having(e)' 
      BY <1>7, <2>5 DEF Having, Exists
    <3>3. t # e
      BY <1>10, <2>1, <3>1
    <3>4. QED BY <1>13, <2>2, <3>2, <3>3
  <2>6. QED BY <2>3, <2>4, <2>5
<1>22. RowsAreBlank'
  BY <1>4, <1>7 DEF EmailDomainsInv, RowsAreBlank, Exists
<1>23. \A y \in Callers : ReadIsCurrent(y)' /\ StepIsSound(y)' /\ CallIsKept(y)' /\ OldIsGone(y)'
  BY <1>16, <1>17
<1>24. QED BY <1>2, <1>12, <1>15, <1>18, <1>19, <1>20, <1>21, <1>22, <1>23 DEF EmailDomainsInv

LEMMA DeleteRowInv ==
    ASSUME EmailDomainsInv, NEW x \in Callers, DeleteConfiguration(x)
    PROVE  EmailDomainsInv'
<1>1. EmailDomainsTypeOK
  BY DEF EmailDomainsInv
<1>2. UNCHANGED <<identity, carried, torn>>
  BY DEF DeleteConfiguration
<1>0. PICK p \in PendingCall, d \in Domains \cup {NoDomain} : p = pending[x] /\ d = p.domain
  BY CallFacts
<1>3. PICK w : w = p.website /\ p = pending[x] /\ d = p.domain
  BY <1>0
<1>4. p.step = "commit" /\ p.op = "delete" /\ w \in Websites /\ ~p.touched /\ Exists(w)
  BY <1>3, CallFacts DEF DeleteConfiguration, StepIsSound
<1>5. ~p.stale => configuration[w].domain = d
  BY <1>3, <1>4, CallFacts DEF ReadIsCurrent
<1>6. /\ configuration' \in [Websites -> Configuration]
      /\ \A v \in Websites \ {w} : configuration'[v] = configuration[v]
      /\ configuration'[w].state = "gone" /\ configuration'[w].domain = NoDomain
      /\ ~configuration'[w].verified
  BY <1>1, <1>3, <1>4, DomainVariables DEF DeleteConfiguration, Configuration
<1>7. /\ pending' \in [Callers -> PendingCall] /\ pending'[x] = NoCall
      /\ \A y \in Callers \ {x} :
           Marked(y) /\ (~pending'[y].stale => pending[y].website # w)
  <2>1. Conclude(x, NoCall, w, NoDomain)
    BY <1>3 DEF DeleteConfiguration
  <2>2. QED BY <1>1, <1>4, <2>1, ConcludeMarks, NoCallIs
<1>8. /\ overlapped \subseteq overlapped' /\ overlapped' \subseteq Websites
      /\ w \notin overlapped' => ~p.stale /\ Quiet(w)
  <2>1. overlapped' = IF p.stale \/ ~Quiet(w) THEN overlapped \cup {w} ELSE overlapped
    BY <1>3 DEF DeleteConfiguration
  <2>2. QED BY <1>1, <1>4, <2>1, DomainVariables
<1>9. /\ lost \subseteq lost' /\ lost' \subseteq Domains
      /\ p.stale => (configuration[w].domain \in Domains => configuration[w].domain \in lost')
  <2>1. lost' = IF p.stale THEN lost \cup ({configuration[w].domain} \ {NoDomain}) ELSE lost
    BY <1>3 DEF DeleteConfiguration
  <2>2. configuration[w].domain \in Domains \cup {NoDomain}
    BY <1>1, <1>4, DomainVariables DEF Configuration
  <2>3. QED BY <1>1, <2>1, <2>2, DomainVariables, DomainConstants
<1>10. PICK k : k = [website |-> w, domain |-> d, again |-> FALSE]
  OBVIOUS
<1>11. /\ k.website = w /\ k.domain = d /\ ~k.again
       /\ removals' = IF d = NoDomain THEN removals ELSE removals \cup {k}
       /\ d \in Domains => k \in [website : Websites, domain : Domains, again : BOOLEAN]
  BY <1>3, <1>4, <1>10 DEF DeleteConfiguration
<1>12. mail' \in [Mails -> Mail] /\ \A m \in Mails : MailIsFromIts(m)'
  BY <1>3, <1>4, <1>6, LateMails DEF DeleteConfiguration
<1>13. TouchesStay /\ (\A v : Quiet(v)' <=> Quiet(v)) /\ (\A e : Adding(e)' <=> Adding(e))
  <2>1. TouchesStay
    BY <1>3, <1>4, <1>7, NoCallIs DEF TouchesStay, Marked
  <2>2. QED BY <2>1, QuietStays
<1>14. \A e \in Domains : Having(e)' = Having(e) \ {w}
  BY <1>6, DomainConstants DEF Having, Exists
<1>15. EmailDomainsTypeOK'
  BY <1>1, <1>2, <1>6, <1>7, <1>8, <1>9, <1>11, <1>12 DEF EmailDomainsTypeOK
<1>16. ReadIsCurrent(x)' /\ StepIsSound(x)' /\ CallIsKept(x)' /\ OldIsGone(x)'
  BY <1>7, NoCallIs DEF ReadIsCurrent, StepIsSound, CallIsKept, OldIsGone
<1>17. ASSUME NEW y \in Callers \ {x}
       PROVE  ReadIsCurrent(y)' /\ StepIsSound(y)' /\ CallIsKept(y)' /\ OldIsGone(y)'
  <2>1. Marked(y) /\ (~pending'[y].stale => pending[y].website # w)
    BY <1>7
  <2>2. StepIsSound(y)' /\ CallIsKept(y)' /\ OldIsGone(y)'
    BY <1>2, <1>8, <1>9, <1>13, <2>1, CallFacts, StepStays, CallStays, OldStays
  <2>3. PICK v, u : v = pending[y].website /\ u = pending[y].target
    OBVIOUS
  <2>4. ReadIsCurrent(y)'
    <3> SUFFICES ASSUME pending[y].op # "none", ~pending'[y].stale PROVE ReadIsCurrent(y)'
      BY <2>1 DEF ReadIsCurrent, Marked
    <3>1. /\ Exists(v) /\ configuration[v].domain = pending[y].domain
          /\ pending[y].op = "update" => configuration[v].verified = pending[y].verified
          /\ u \in Domains \ {pending[y].domain} => Having(u) = {}
      BY <2>1, <2>3, CallFacts DEF ReadIsCurrent, Marked
    <3>2. Exists(v)' /\ configuration'[v] = configuration[v]
      BY <1>6, <2>1, <2>3, <3>1, CallFacts DEF Exists, StepIsSound
    <3>3. u \in Domains \ {pending[y].domain} => Having(u)' = {}
      BY <1>14, <3>1
    <3>4. QED BY <2>1, <2>3, <3>1, <3>2, <3>3 DEF ReadIsCurrent, Marked
  <2>5. QED BY <2>2, <2>4
\* If x reads what is there, in time, nobody but w has its domain, or wants it.
<1>18. w \notin torn \cup overlapped' /\ d # NoDomain =>
         /\ configuration[w].domain = d /\ identity[d] # "absent" /\ Having(d) = {w}
         /\ \A y \in Callers \ {x} : pending[y].step = "write" /\ ~pending'[y].stale =>
              pending[y].target # d
  <2>1. SUFFICES ASSUME w \notin torn \cup overlapped', d # NoDomain
                 PROVE  /\ configuration[w].domain = d /\ identity[d] # "absent"
                        /\ Having(d) = {w}
                        /\ \A y \in Callers \ {x} : pending[y].step = "write" /\ ~pending'[y].stale =>
                             pending[y].target # d
    OBVIOUS
  <2>2. configuration[w].domain = d /\ Quiet(w) /\ w \notin overlapped
    BY <1>5, <1>8, <2>1
  <2>3. identity[d] # "absent"
    BY <1>4, <2>1, <2>2 DEF EmailDomainsInv, DomainsAreKept
  <2>4. Having(d) = {w}
    BY <1>4, <2>1, <2>2 DEF EmailDomainsInv, SharingIsKnown, Having
  <2>5. ASSUME NEW y \in Callers \ {x}, pending[y].step = "write", ~pending'[y].stale,
               pending[y].target = d
        PROVE  FALSE
    <3>1. pending[y].website # w /\ ~pending[y].stale /\ pending[y].op # "none"
      BY <1>7, <2>5, CallFacts DEF Marked, StepIsSound
    <3>2. pending[y].domain = d
      BY <1>3, <2>1, <2>4, <2>5, <3>1, CallFacts DEF ReadIsCurrent
    <3>3. pending[y].website \in Having(d)
      BY <3>1, <3>2, CallFacts DEF ReadIsCurrent, StepIsSound, Having
    <3>4. QED BY <2>4, <3>1, <3>3
  <2>6. QED BY <2>2, <2>3, <2>4, <2>5
<1>19. ASSUME NEW j \in removals' PROVE RemovalIsDue(j)'
  <2> SUFFICES ASSUME ~j.again, j.website \notin torn \cup overlapped' PROVE RemovalIsDue(j)'
    BY <1>2 DEF RemovalIsDue
  <2>1. ASSUME NEW i \in removals, ~i.again, i.website \notin torn \cup overlapped'
        PROVE  RemovalIsDue(i) /\ i.website \notin overlapped /\ i.domain \in Domains
               /\ identity[i.domain] # "absent" /\ Having(i.domain) = {}
    BY <1>1, <1>8, <2>1, DomainVariables DEF EmailDomainsInv, RemovalIsDue
  <2>2. CASE j \in removals
    <3>1. RemovalIsDue(j) /\ j.website \notin overlapped /\ j.domain \in Domains
          /\ identity[j.domain] # "absent" /\ Having(j.domain) = {}
      BY <2>1, <2>2
    <3>2. PICK e : e = j.domain
      OBVIOUS
    <3>3. Having(e)' = {}
      BY <1>14, <3>1, <3>2
    <3>4. \A y \in Callers : pending'[y].step = "write" /\ ~pending'[y].stale => pending'[y].target # e
      BY <1>7, <3>1, <3>2, NoCallIs DEF RemovalIsDue, Marked
    <3>5. ASSUME NEW i \in removals', i.domain = e, ~i.again, i.website \notin torn \cup overlapped'
          PROVE  i = j
      <4>1. CASE i \in removals
        BY <1>8, <2>2, <3>1, <3>2, <3>5, <4>1 DEF RemovalIsDue
      <4>2. CASE i \notin removals
        <5>1. i.website = w /\ i.domain = d /\ d # NoDomain
          BY <1>11, <4>2
        <5>2. Having(d) = {w}
          BY <1>18, <3>5, <5>1
        <5>3. QED BY <3>1, <3>2, <3>5, <5>1, <5>2
      <4>3. QED BY <4>1, <4>2
    <3>6. QED BY <1>2, <3>1, <3>2, <3>3, <3>4, <3>5 DEF RemovalIsDue
  <2>3. CASE j \notin removals
    <3>1. j.website = w /\ j.domain = d /\ d \in Domains
      BY <1>11, <2>3
    <3>2. /\ configuration[w].domain = d /\ identity[d] # "absent" /\ Having(d) = {w}
          /\ \A y \in Callers \ {x} : pending[y].step = "write" /\ ~pending'[y].stale =>
               pending[y].target # d
      BY <1>18, <3>1, DomainConstants
    <3>3. Having(d)' = {}
      BY <1>14, <3>1, <3>2
    <3>4. \A y \in Callers : pending'[y].step = "write" /\ ~pending'[y].stale => pending'[y].target # d
      BY <1>7, <3>2, NoCallIs DEF Marked
    <3>5. ASSUME NEW i \in removals', i.domain = d, ~i.again, i.website \notin torn \cup overlapped'
          PROVE  i = j
      <4>1. i \notin removals
        BY <2>1, <3>2, <3>5
      <4>2. QED BY <1>11, <2>3, <4>1
    <3>6. QED BY <1>2, <3>1, <3>2, <3>3, <3>4, <3>5 DEF RemovalIsDue
  <2>4. QED BY <2>2, <2>3
<1>20. SharingIsKnown' /\ RowsAreBlank'
  BY <1>6, <1>8 DEF EmailDomainsInv, SharingIsKnown, RowsAreBlank, Exists
<1>21. DomainsAreKept'
  BY <1>2, <1>6, <1>8, <1>13 DEF EmailDomainsInv, DomainsAreKept, Exists
<1>22. DomainsAreNotLeft'
  <2>1. SUFFICES ASSUME NEW e \in Domains \ lost', identity[e] # "absent", ~Adding(e)
                 PROVE  Having(e)' # {} \/ \E j \in removals' : j.domain = e
    BY <1>2, <1>13 DEF DomainsAreNotLeft, Adding
  <2>2. Having(e) # {} \/ \E j \in removals : j.domain = e
    BY <1>9, <2>1 DEF EmailDomainsInv, DomainsAreNotLeft, Adding
  <2>3. CASE \E v \in Having(e) : v # w
    BY <1>14, <2>3
  <2>4. CASE Having(e) = {w}
    <3>1. configuration[w].domain = e
      BY <2>4 DEF Having
    <3>2. d = e
      BY <1>5, <1>9, <2>1, <3>1
    <3>3. QED BY <1>11, <2>1, <3>2, DomainConstants
  <2>5. CASE \E j \in removals : j.domain = e
    BY <1>11, <2>5
  <2>6. QED BY <2>2, <2>3, <2>4, <2>5
<1>23. \A y \in Callers : ReadIsCurrent(y)' /\ StepIsSound(y)' /\ CallIsKept(y)' /\ OldIsGone(y)'
  BY <1>16, <1>17
<1>24. QED BY <1>12, <1>15, <1>19, <1>20, <1>21, <1>22, <1>23 DEF EmailDomainsInv

-----------------------------------------------------------------------------
(* The emails.                                                             *)

\* All but the emails stays as it was.
LEMMA MailsOnly ==
    ASSUME EmailDomainsInv,
           UNCHANGED <<configuration, identity, pending, removals, carried, torn, overlapped, lost>>,
           mail' \in [Mails -> Mail], \A m \in Mails : MailIsFromIts(m)'
    PROVE  EmailDomainsInv'
<1>1. EmailDomainsTypeOK'
  BY DEF EmailDomainsInv, EmailDomainsTypeOK
<1>2. TouchesStay /\ \A y \in Callers : Marked(y)
  BY DEF TouchesStay, Marked
<1>3. ASSUME NEW y \in Callers
      PROVE  ReadIsCurrent(y)' /\ StepIsSound(y)' /\ CallIsKept(y)' /\ OldIsGone(y)'
  BY <1>2, CallFacts, QuietStays, ReadStays, StepStays, CallStays, OldStays
<1>4. ASSUME NEW j \in removals PROVE RemovalIsDue(j)'
  BY RemovalStays DEF EmailDomainsInv
<1>5. SharingIsKnown' /\ DomainsAreKept' /\ DomainsAreNotLeft' /\ RowsAreBlank'
  BY <1>2, QuietStays, SharingStays, KeptStays, LeftStays DEF EmailDomainsInv, RowsAreBlank, Exists
<1>6. QED BY <1>1, <1>3, <1>4, <1>5 DEF EmailDomainsInv

\* One email changes.
LEMMA OneMail ==
    ASSUME EmailDomainsInv, NEW m \in Mails, NEW q \in Mail, mail' = [mail EXCEPT ![m] = q],
           UNCHANGED <<configuration, identity, pending, removals, carried, torn, overlapped, lost>>,
           q.sent => q.counted \/ q.crashed,
           q.refused => q.late,
           q.kind # "none" /\ q.website \in Websites,
           (q.step = "sending" \/ q.kind = "broadcast") /\ ~q.late =>
             \/ q.from = Platform
             \/ /\ Exists(q.website) /\ configuration[q.website].verified
                /\ configuration[q.website].domain = q.from
    PROVE  EmailDomainsInv'
<1>1. mail \in [Mails -> Mail]
  BY DomainVariables DEF EmailDomainsInv
<1>2. mail'[m] = q /\ \A n \in Mails \ {m} : mail'[n] = mail[n]
  BY <1>1
<1>3. mail' \in [Mails -> Mail]
  BY <1>1
<1>4. \A n \in Mails \ {m} : MailIsFromIts(n)'
  BY <1>2, MailStays DEF EmailDomainsInv
<1>5. MailIsFromIts(m)'
  BY <1>2 DEF MailIsFromIts, Exists
<1>6. QED BY <1>3, <1>4, <1>5, MailsOnly

LEMMA PostInv ==
    ASSUME EmailDomainsInv, NEW m \in Mails, NEW w \in Websites, NEW kind, NEW from,
           \/ kind \in EmailJobs /\ from = NoDomain
           \/ kind = "broadcast" /\ configuration[w].verified /\ from = configuration[w].domain,
           Post(m, w, kind, from)
    PROVE  EmailDomainsInv'
<1> DEFINE late == ~Settled(w)
           q == [NoMail EXCEPT !.kind = kind, !.website = w, !.from = from,
                               !.step = "queued", !.late = late]
<1>1. mail' = [mail EXCEPT ![m] = q] /\ Exists(w)
  BY DEF Post
<1>2. UNCHANGED <<configuration, identity, pending, removals, carried, torn, overlapped, lost>>
  BY DEF Post
<1>3. late \in BOOLEAN
  OBVIOUS
<1> HIDE DEF late
<1>4. from \in Domains \cup {NoDomain, Platform}
  BY DomainVariables DEF EmailDomainsInv, Configuration
<1>5. kind \in EmailJobs \cup {"broadcast"} /\ kind # "none"
  BY DEF EmailJobs
<1>6. /\ q \in Mail /\ q.sent = FALSE /\ q.refused = FALSE /\ q.kind = kind /\ q.website = w
      /\ q.from = from /\ q.step = "queued"
  BY <1>3, <1>4, <1>5 DEF NoMail, Mail
<1> HIDE DEF q
<1>7. kind = "broadcast" => configuration[w].verified /\ from = configuration[w].domain
  BY DEF EmailJobs
<1>8. QED BY <1>1, <1>2, <1>5, <1>6, <1>7, OneMail

LEMMA AddressInv ==
    ASSUME EmailDomainsInv, NEW m \in Mails, NEW kind \in EmailJobs, Address(m, kind)
    PROVE  EmailDomainsInv'
<1> DEFINE w == mail[m].website
           late == ~Settled(w)
           from == From(w)
           q == [mail[m] EXCEPT !.from = from, !.step = "sending", !.refused = FALSE,
                                !.late = late]
<1>1. mail[m].kind = kind /\ Exists(w)
  BY DEF Address
<1>2. UNCHANGED <<configuration, identity, pending, removals, carried, torn, overlapped, lost>>
  BY DEF Address
<1>3. mail \in [Mails -> Mail] /\ MailIsFromIts(m)
  BY DomainVariables DEF EmailDomainsInv
<1>4. mail' = [mail EXCEPT ![m] = q]
  BY DEF Address
<1>5. kind # "none" /\ w \in Websites
  BY <1>1, <1>3 DEF EmailJobs, MailIsFromIts
<1>6. /\ from \in Domains \cup {NoDomain, Platform}
      /\ from = Platform \/ (configuration[w].verified /\ configuration[w].domain = from)
  BY <1>5, DomainVariables
  DEF EmailDomainsInv, From, GetDefaultFromAddressForWebsite, Configuration
<1>7. late \in BOOLEAN
  OBVIOUS
<1> HIDE DEF late, from
<1>8. /\ q \in Mail /\ q.sent = mail[m].sent /\ q.counted = mail[m].counted
      /\ q.crashed = mail[m].crashed /\ q.refused = FALSE /\ q.kind = kind /\ q.website = w
      /\ q.from = from /\ q.step = "sending"
  BY <1>1, <1>3, <1>6, <1>7 DEF Mail
<1> HIDE DEF q, w
<1>9. mail[m].sent => mail[m].counted \/ mail[m].crashed
  BY <1>3 DEF MailIsFromIts
<1>10. QED BY <1>1, <1>2, <1>4, <1>5, <1>6, <1>8, <1>9, OneMail

\* Whoever sends for a website that has settled is not refused.
LEMMA OutcomeInv ==
    ASSUME EmailDomainsInv, NEW m \in Mails, NEW isSent \in BOOLEAN, NEW isCounted \in BOOLEAN,
           NEW isCrashed \in BOOLEAN, NEW step \in {"queued", "done"},
           isSent => isCounted \/ isCrashed,
           mail[m].step = "sending" \/ (mail[m].step = "queued" /\ mail[m].kind = "broadcast"),
           Outcome(m, isSent, isCounted, isCrashed, step)
    PROVE  EmailDomainsInv'
<1> DEFINE w == mail[m].website
           from == mail[m].from
           late == ~Settled(w)
           bounced == ~IsProven(from)
           q == [mail[m] EXCEPT !.step = step, !.sent = @ \/ isSent, !.counted = @ \/ isCounted,
                                !.crashed = @ \/ isCrashed, !.refused = @ \/ bounced,
                                !.late = @ \/ late]
<1>1. UNCHANGED <<configuration, identity, pending, removals, carried, torn, overlapped, lost>>
  BY DEF Outcome
<1>2. mail \in [Mails -> Mail] /\ MailIsFromIts(m)
  BY DomainVariables DEF EmailDomainsInv
<1>3. mail' = [mail EXCEPT ![m] = q]
  BY DEF Outcome
<1>4. /\ mail[m].kind # "none" /\ w \in Websites
      /\ mail[m].sent => mail[m].counted \/ mail[m].crashed
      /\ mail[m].refused => mail[m].late
      /\ ~mail[m].late => \/ from = Platform
                          \/ Exists(w) /\ configuration[w].verified /\ configuration[w].domain = from
  BY <1>2 DEF MailIsFromIts
<1>5. ~mail[m].late /\ ~late => ~bounced
  <2>1. SUFFICES ASSUME ~mail[m].late, Settled(w), from # Platform PROVE IsProven(from)
    BY DEF IsProven
  <2>2. Exists(w) /\ configuration[w].verified /\ configuration[w].domain = from
    BY <1>4, <2>1
  <2>3. Quiet(w) /\ w \notin carried \cup torn \cup overlapped
    BY <2>1 DEF Settled
  <2>4. from # NoDomain /\ identity[from] = "verified"
    BY <1>4, <2>2, <2>3 DEF EmailDomainsInv, DomainsAreKept
  <2>5. from \in Domains
    BY <1>4, <2>2, <2>4, DomainVariables DEF EmailDomainsInv, Configuration
  <2>6. QED BY <2>4, <2>5 DEF IsProven
<1>6. late \in BOOLEAN /\ bounced \in BOOLEAN
  OBVIOUS
<1> HIDE DEF late, bounced
<1>7. PICK p \in Mail : p = mail[m]
  BY <1>2
<1>8. q = [p EXCEPT !.step = step, !.sent = @ \/ isSent, !.counted = @ \/ isCounted,
                    !.crashed = @ \/ isCrashed, !.refused = @ \/ bounced, !.late = @ \/ late]
  BY <1>7
<1> DEFINE s == p.sent \/ isSent
           c == p.counted \/ isCounted
           b == p.crashed \/ isCrashed
           r == p.refused \/ bounced
           l == p.late \/ late
<1>9. s \in BOOLEAN /\ c \in BOOLEAN /\ b \in BOOLEAN /\ r \in BOOLEAN /\ l \in BOOLEAN
  OBVIOUS
<1>10. q = [p EXCEPT !.step = step, !.sent = s, !.counted = c, !.crashed = b, !.refused = r,
                     !.late = l]
  BY <1>8
<1> HIDE DEF q, s, c, b, r, l
<1>11. /\ q \in Mail /\ q.kind = p.kind /\ q.website = p.website /\ q.from = p.from
      /\ q.step = step
      /\ q.sent = s /\ q.counted = c /\ q.crashed = b /\ q.refused = r /\ q.late = l
  <2>1. /\ q.kind = p.kind /\ q.website = p.website /\ q.from = p.from /\ q.step = step
        /\ q.sent = s /\ q.counted = c /\ q.crashed = b /\ q.refused = r /\ q.late = l
    BY <1>10 DEF Mail
  <2>2. q = [kind |-> p.kind, website |-> p.website, from |-> p.from, step |-> step, sent |-> s,
             counted |-> c, refused |-> r, late |-> l, crashed |-> b]
    BY <1>10 DEF Mail
  <2>3. q \in Mail
    BY <1>9, <2>2 DEF Mail
  <2>4. QED BY <2>1, <2>3
<1> HIDE DEF w, from
<1>12. QED BY <1>1, <1>3, <1>4, <1>5, <1>7, <1>11, OneMail DEF w, from, s, c, b, r, l

LEMMA SendInv ==
    ASSUME EmailDomainsInv, NEW m \in Mails
    PROVE  /\ SendTransactionnal(m) => EmailDomainsInv'
           /\ JobSendEmail(m) => EmailDomainsInv'
           /\ GiveUpEmail(m) => EmailDomainsInv'
<1>1. ASSUME SendTransactionnal(m) PROVE EmailDomainsInv'
  BY <1>1, OutcomeInv DEF SendTransactionnal
<1>2. ASSUME JobSendEmail(m) PROVE EmailDomainsInv'
  BY <1>2, OutcomeInv DEF JobSendEmail
<1>3. ASSUME GiveUpEmail(m) PROVE EmailDomainsInv'
  <2> DEFINE q == [mail[m] EXCEPT !.step = "done"]
  <2>1. /\ mail' = [mail EXCEPT ![m] = q] /\ mail[m].step = "queued"
        /\ UNCHANGED <<configuration, identity, pending, removals, carried, torn, overlapped, lost>>
    BY <1>3 DEF GiveUpEmail
  <2>2. mail[m] \in Mail /\ MailIsFromIts(m)
    BY DomainVariables DEF EmailDomainsInv
  <2>3. /\ q \in Mail /\ q.kind = mail[m].kind /\ q.website = mail[m].website
        /\ q.from = mail[m].from /\ q.step = "done" /\ q.sent = mail[m].sent
        /\ q.counted = mail[m].counted /\ q.crashed = mail[m].crashed
        /\ q.refused = mail[m].refused /\ q.late = mail[m].late
    BY <2>2 DEF Mail
  <2> HIDE DEF q
  <2>4. PICK w : w = mail[m].website
    OBVIOUS
  <2>5. QED BY <2>1, <2>2, <2>3, <2>4, OneMail DEF MailIsFromIts
<1>4. QED BY <1>1, <1>2, <1>3

LEMMA MailStepsInv ==
    ASSUME EmailDomainsInv, NEW m \in Mails
    PROVE  /\ JobSendLoginEmail(m) => EmailDomainsInv'
           /\ JobSendSubscribeEmail(m) => EmailDomainsInv'
           /\ JobSendVerifyEmailEmail(m) => EmailDomainsInv'
           /\ \A w \in Websites :
                /\ PushEmail(m, w) => EmailDomainsInv'
                /\ \A kind \in EmailJobs : PushEmailJob(m, w, kind) => EmailDomainsInv'
<1>1. "login" \in EmailJobs /\ "subscribe" \in EmailJobs /\ "verify email" \in EmailJobs
  BY DEF EmailJobs
<1>2. /\ JobSendLoginEmail(m) => EmailDomainsInv'
      /\ JobSendSubscribeEmail(m) => EmailDomainsInv'
      /\ JobSendVerifyEmailEmail(m) => EmailDomainsInv'
  BY <1>1, AddressInv DEF JobSendLoginEmail, JobSendSubscribeEmail, JobSendVerifyEmailEmail
<1>3. ASSUME NEW w \in Websites, NEW kind \in EmailJobs, PushEmailJob(m, w, kind)
      PROVE  EmailDomainsInv'
  BY <1>3, PostInv DEF PushEmailJob, EmailJobs
<1>4. ASSUME NEW w \in Websites, PushEmail(m, w) PROVE EmailDomainsInv'
  BY <1>4, PostInv DEF PushEmail
<1>5. QED BY <1>2, <1>3, <1>4

-----------------------------------------------------------------------------
LEMMA EmailDomainsInitInv == EmailDomainsInit => EmailDomainsInv
<1> SUFFICES ASSUME EmailDomainsInit PROVE EmailDomainsInv
  OBVIOUS
<1>1. NoMail \in Mail /\ NoMail.sent = FALSE /\ NoMail.refused = FALSE /\ NoMail.kind = "none"
      /\ NoMail.step = "none"
  BY DEF NoMail, Mail
<1>2. [state |-> "new", domain |-> NoDomain, verified |-> FALSE] \in Configuration
  BY DEF Configuration
<1>3. EmailDomainsTypeOK
  BY <1>1, <1>2, NoCallIs DEF EmailDomainsInit, EmailDomainsTypeOK
<1>4. \A y \in Callers : ReadIsCurrent(y) /\ StepIsSound(y) /\ CallIsKept(y) /\ OldIsGone(y)
  BY NoCallIs DEF EmailDomainsInit, ReadIsCurrent, StepIsSound, CallIsKept, OldIsGone
<1>5. RowsAreBlank /\ SharingIsKnown /\ DomainsAreKept /\ DomainsAreNotLeft
  BY DEF EmailDomainsInit, RowsAreBlank, SharingIsKnown, DomainsAreKept, DomainsAreNotLeft, Exists
<1>6. \A m \in Mails : MailIsFromIts(m)
  BY <1>1 DEF EmailDomainsInit, MailIsFromIts
<1>7. removals = {}
  BY DEF EmailDomainsInit
<1>8. QED BY <1>3, <1>4, <1>5, <1>6, <1>7 DEF EmailDomainsInv

LEMMA EmailDomainsStepInv ==
    EmailDomainsInv /\ [EmailDomainsNext]_emailDomainsVars => EmailDomainsInv'
<1> SUFFICES ASSUME EmailDomainsInv, [EmailDomainsNext]_emailDomainsVars PROVE EmailDomainsInv'
  OBVIOUS
<1>1. CASE UNCHANGED emailDomainsVars
  BY <1>1, MailsOnly, MailStays, DomainVariables DEF emailDomainsVars, EmailDomainsInv
<1>2. ASSUME NEW w \in Websites,
             \/ InitWebsiteConfiguration(w)
             \/ \E m \in Mails : PushEmail(m, w) \/ \E kind \in EmailJobs : PushEmailJob(m, w, kind)
      PROVE  EmailDomainsInv'
  BY <1>2, InitConfigurationInv, MailStepsInv
<1>3. ASSUME NEW x \in Callers, NEW w \in Websites,
             \/ VerifyDnsConfiguration(x, w) \/ RemoveWebsiteConfiguration(x, w)
             \/ \E target \in Domains \cup {NoDomain} : UpdateWebsiteConfiguration(x, w, target)
      PROVE  EmailDomainsInv'
  BY <1>3, BeginningsInv
<1>4. ASSUME NEW x \in Callers,
             \/ RemoveDomain(x) \/ AddDomain(x) \/ VerifyDomain(x)
             \/ UpdateWebsiteConfigurationRow(x) \/ DeleteConfiguration(x) \/ FailCall(x)
      PROVE  EmailDomainsInv'
  BY <1>4, RemoveDomainInv, AddDomainInv, VerifyDomainInv, WriteRowInv, DeleteRowInv, FailCallInv
<1>5. ASSUME NEW d \in Domains, ProveDomain(d) PROVE EmailDomainsInv'
  BY <1>5, ProveDomainInv
<1>6. ASSUME NEW j \in removals,
             GiveUpRemoval(j) \/ \E done \in BOOLEAN : JobDeleteWebsiteConfigurationData(j, done)
      PROVE  EmailDomainsInv'
  BY <1>6, GiveUpRemovalInv, JobDeleteInv
<1>7. ASSUME NEW m \in Mails,
             \/ JobSendLoginEmail(m) \/ JobSendSubscribeEmail(m) \/ JobSendVerifyEmailEmail(m)
             \/ SendTransactionnal(m) \/ JobSendEmail(m) \/ GiveUpEmail(m)
      PROVE  EmailDomainsInv'
  BY <1>7, MailStepsInv, SendInv
<1>8. QED BY <1>1, <1>2, <1>3, <1>4, <1>5, <1>6, <1>7 DEF EmailDomainsNext

(***************************************************************************)
(* The rows of configurations, the provider's identities, the calls, jobs  *)
(* and emails are always what the code makes of them.                      *)
(***************************************************************************)
THEOREM EmailDomainsTypes == EmailDomainsSpec => []EmailDomainsTypeOK
<1>1. EmailDomainsInv => EmailDomainsTypeOK
  BY DEF EmailDomainsInv
<1>2. QED BY <1>1, EmailDomainsInitInv, EmailDomainsStepInv, PTL DEF EmailDomainsSpec

(***************************************************************************)
(* A website that sends from its own domain has it at the provider, where  *)
(* it is proven if the website says so; no two websites have the same, and *)
(* none is left there; an email is refused only if the domain changed once *)
(* it was made.  Unless a request failed half way, or wrote what another   *)
(* had changed since it had read it (update_website_configuration.go reads *)
(* and writes the row without a lock, with calls to the provider between). *)
(***************************************************************************)
THEOREM DomainsKept == EmailDomainsSpec => []MailDomainsAreKept
<1>1. EmailDomainsInv => MailDomainsAreKept
  <2>1. EmailDomainsInv => DomainsAreNotShared
    BY DomainConstants DEF EmailDomainsInv, SharingIsKnown, DomainsAreNotShared, Having, Exists
  <2>2. EmailDomainsInv => MailsAreSentAndCounted
    BY DEF EmailDomainsInv, MailIsFromIts, MailsAreSentAndCounted
  <2>3. QED BY <2>1, <2>2 DEF EmailDomainsInv, MailDomainsAreKept
<1>2. QED BY <1>1, EmailDomainsInitInv, EmailDomainsStepInv, PTL DEF EmailDomainsSpec

-----------------------------------------------------------------------------
(* What the run checks of several of them.                                 *)

\* A behavior of the run is one of each of them.
LEMMA EachOfPeople == MCSpec => ContactsSpec /\ LimiterSpec /\ OrganizationsSpec /\ EmailDomainsSpec
<1>1. MCInit => ContactsInit /\ LimiterInit /\ OrganizationsInit /\ EmailDomainsInit
  BY DEF MCInit
<1> DEFINE all == <<contactsVars, limiterVars, organizationsVars, emailDomainsVars, instance>>
<1>2. [MCNext]_all => [ContactsNext]_contactsVars
  BY DEF MCNext
<1>3. [MCNext]_all => [LimiterNext]_limiterVars
  BY DEF MCNext
<1>4. [MCNext]_all => [OrganizationsNext]_organizationsVars
  BY DEF MCNext
<1>5. [MCNext]_all => [EmailDomainsNext]_emailDomainsVars
  BY DEF MCNext
<1> QED
  BY <1>1, <1>2, <1>3, <1>4, <1>5, PTL
     DEF MCSpec, ContactsSpec, LimiterSpec, OrganizationsSpec, EmailDomainsSpec

(***************************************************************************)
(* What is counted in rows and what is counted in memory limit together    *)
(* how often a code is tried and a form is sent.                           *)
(***************************************************************************)
THEOREM LimitsAreOnAttempts == ContactsSpec /\ LimiterSpec => []AttemptsAreLimited
<1>1. TriesAreCounted /\ RequestsAreLimited => AttemptsAreLimited
  BY DEF AttemptsAreLimited
<1>2. QED BY <1>1, TriesCount, LimitsHold, PTL

(***************************************************************************)
(* All rows and requests of contacts, visitors, organizations and email    *)
(* domains are what the code makes of them, in every behavior of the run.  *)
(***************************************************************************)
THEOREM PeopleTypes == MCSpec => []PeopleTypeOK
<1>1. ContactsTypeOK /\ LimiterTypeOK /\ OrganizationsTypeOK /\ EmailDomainsTypeOK => PeopleTypeOK
  BY DEF PeopleTypeOK
<1> QED
  BY <1>1, EachOfPeople, ContactsTypes, LimiterTypes, OrganizationsTypes, EmailDomainsTypes, PTL
=============================================================================
