------------------------------ MODULE Billing ------------------------------
(***************************************************************************)
(* The subscription of an organization: pkg/services/organizations.  Its   *)
(* row says which subscription it has at Stripe, on which plan it is, and  *)
(* up to when its usage, the emails it sent, was invoiced.  Three kinds of *)
(* processes read the row and later write it back whole:                   *)
(*                                                                         *)
(*  - requests, that change or cancel the subscription at Stripe;          *)
(*  - synchronisations, for an event of Stripe or because the staff asks,  *)
(*    that bring the row up to what Stripe has;                            *)
(*  - workers, that invoice the usage of the last months.                  *)
(*                                                                         *)
(* The first two lock the row.  The third one reads and writes it outside  *)
(* of the transaction that it opens, so that its lock ends with the read.  *)
(*                                                                         *)
(* Organizations have nothing in common here: there is one.  Left out: its *)
(* creation, deletion, name and address; the plan that nobody can buy; the *)
(* limits of a plan, that only refuse a request.                           *)
(***************************************************************************)
EXTENDS Naturals

CONSTANTS
    Requests,     \* runs of UpdateSubscription
    Syncs,        \* runs of syncOrganizationWithStripeCustomer
    Workers,      \* workers that run JobInvoiceMonthlyUsage
    Subs,         \* subscriptions that Stripe may make
    Jobs,         \* jobs that may be pushed, each with an idempotency key
    Slots,        \* numbers of extra slots to choose from
    WithGifts,    \* administrators give plans away
    MonthLength,  \* instants in a month
    MaxTime,      \* bound: the last instant
    None          \* no subscription, no job, no process, never

ASSUME BillingAssumption ==
    /\ Requests \cap Syncs = {} /\ Requests \cap Workers = {}
    /\ Syncs \cap Workers = {}
    /\ Subs \cap Jobs = {}
    /\ None \notin Requests \cup Syncs \cup Workers \cup Subs \cup Jobs \cup Nat
    /\ 0 \in Slots /\ Slots \subseteq Nat
    /\ WithGifts \in BOOLEAN
    /\ MonthLength \in Nat \ {0} /\ MaxTime \in Nat

VARIABLES
    row,        \* the organization
    lock,       \* who has locked the row
    subs,       \* subs[k]: a subscription at Stripe
    card,       \* the customer has a valid payment method
    checkouts,  \* open checkout sessions: the slots they are for
    news,       \* Stripe has an event that was not handled
    now,        \* the instant
    month,      \* the first instant of its month
    jobs,       \* jobs[j]: whether it is "new", "queued" or "over"
    items,      \* the invoice items at Stripe
    pc,         \* pc[x]: what the process x does next
    copy,       \* copy[x]: the row it is going to write
    task,       \* task[x]: the job that the worker x runs
    from,       \* from[x]: the start of the period it invoices
    disturbed   \* the row was given away, or overwritten by a stale one

stripeVars  == <<subs, card, checkouts>>
timeVars    == <<now, month>>
processVars == <<pc, copy, task, from>>
vars == <<row, lock, stripeVars, news, timeVars, jobs, items, processVars,
          disturbed>>

Processes == Requests \cup Syncs \cup Workers
Plans     == {"free", "pro"}
Status    == {"none", "incomplete", "active", "past_due", "canceled"}

Organization ==
    [customer : BOOLEAN, sub : Subs \cup {None}, plan : Plans, slots : Slots,
     usage : Nat \cup {None}, due : BOOLEAN]

Blank == [customer |-> FALSE, sub |-> None, plan |-> "free", slots |-> 0,
          usage |-> None, due |-> FALSE]

\* The subscriptions that are not canceled.
Open == {k \in Subs : subs[k].status \notin {"none", "canceled"}}

\* The organization is created, maybe with a checkout session for a plan.
Init ==
    /\ \/ row = Blank /\ checkouts = {}
       \/ row = [Blank EXCEPT !.customer = TRUE] /\ checkouts = {0}
    /\ lock = None
    /\ subs = [k \in Subs |-> [status |-> "none", slots |-> 0]]
    /\ card = FALSE /\ news = FALSE
    /\ now = MonthLength /\ month = MonthLength
    /\ jobs = [j \in Jobs |-> "new"] /\ items = {}
    /\ pc = [x \in Processes |-> "idle"]
    /\ copy = [x \in Processes |-> Blank]
    /\ task = [x \in Workers |-> None]
    /\ from = [x \in Workers |-> 0]
    /\ disturbed = FALSE

-----------------------------------------------------------------------------
(* Steps that several operations have in common.                           *)

\* x locks the row, to write r in the end.
Acquire(x, r, step) ==
    /\ pc[x] = "idle" /\ lock = None
    /\ lock' = x
    /\ pc' = [pc EXCEPT ![x] = step]
    /\ copy' = [copy EXCEPT ![x] = r]

\* The transaction of x ends.
Release(x) ==
    /\ lock' = None
    /\ pc' = [pc EXCEPT ![x] = "idle"]
    /\ copy' = [copy EXCEPT ![x] = Blank]

Goto(x, step) == pc' = [pc EXCEPT ![x] = step]

\* The organization r without a subscription.
Free(r) == [Blank EXCEPT !.customer = r.customer]

-----------------------------------------------------------------------------
(* What is invoiced.  A period is given by the emails' times, both ends    *)
(* included.  The date of the subscription, which should bound it, is not  *)
(* a column that is written: it is never there.                            *)

\* Fault: one month too early.
FirstDayOfMonthBefore == month - 2 * MonthLength

FirstDayOfLastMonth == month - MonthLength
LastHourOfLastMonth == month - 1

PeriodStart == IF row.usage = None THEN FirstDayOfLastMonth ELSE row.usage

\* Stripe makes one item for an idempotency key.  It refuses the key for
\* another period, and may forget it when time passes.
CreateItem(key, start, end) ==
    LET made == {i \in items : i.key = key}
        new  == [key |-> key, start |-> start, end |-> end, at |-> now]
    IN  \/ /\ \E i \in made : i.start = start /\ i.end = end
           /\ UNCHANGED items
        \/ /\ \A i \in made : i.at < now
           /\ items' = items \cup {new}

-----------------------------------------------------------------------------
(* UpdateSubscription.                                                     *)

Unchanged(plan, slots) == plan = row.plan /\ slots = row.slots

\* Fault: the date up to which the usage is invoiced is not reset.
CancelKeepingUsage(x) ==
    /\ ~Unchanged("free", 0) /\ ~row.due
    /\ Acquire(x, [Free(row) EXCEPT !.usage = now],
               IF row.sub = None THEN "commit" ELSE "invoice")
    /\ UNCHANGED <<row, stripeVars, news, timeVars, jobs, items, task, from,
                   disturbed>>

\* To the free plan: with no subscription there is nothing to do at Stripe.
CancelSubscription(x) ==
    /\ ~Unchanged("free", 0) /\ ~row.due
    /\ Acquire(x, Free(row), IF row.sub = None THEN "commit" ELSE "invoice")
    /\ UNCHANGED <<row, stripeVars, news, timeVars, jobs, items, task, from,
                   disturbed>>

\* The usage up to now is invoiced, if there is enough of it,
InvoiceCancellation(x) ==
    /\ pc[x] = "invoice"
    /\ \/ Goto(x, "cancel") /\ UNCHANGED items
       \/ Goto(x, "pay") /\ CreateItem(row.sub, PeriodStart, now)
    /\ UNCHANGED <<row, lock, stripeVars, news, timeVars, jobs, copy, task,
                   from, disturbed>>

\* and paid at once.
PayInvoice(x) ==
    /\ pc[x] = "pay" /\ card
    /\ Goto(x, "cancel")
    /\ UNCHANGED <<row, lock, stripeVars, news, timeVars, jobs, items, copy,
                   task, from, disturbed>>

\* Canceling what is canceled is an error.
CancelAtStripe(x) ==
    /\ pc[x] = "cancel" /\ row.sub \in Open
    /\ subs' = [subs EXCEPT ![row.sub].status = "canceled"]
    /\ news' = TRUE
    /\ Goto(x, "commit")
    /\ UNCHANGED <<row, lock, card, checkouts, timeVars, jobs, items, copy,
                   task, from, disturbed>>

\* To a paid plan, or to other slots.  The row gets the slots and, if it had
\* none, the customer, but the plan only when it is synchronised.
ChangeSubscription(x, slots) ==
    /\ ~Unchanged("pro", slots)
    /\ Acquire(x, [row EXCEPT !.slots = slots, !.customer = TRUE], "subscribe")
    /\ UNCHANGED <<row, stripeVars, news, timeVars, jobs, items, task, from,
                   disturbed>>

\* Without a subscription in the row, one is made and charged,
CreateSubscription(x, k) ==
    /\ pc[x] = "subscribe" /\ row.sub = None
    /\ card /\ subs[k].status = "none"
    /\ \E status \in {"active", "incomplete"} :
         subs' = [subs EXCEPT ![k] = [status |-> status, slots |-> copy[x].slots]]
    /\ news' = TRUE
    /\ Goto(x, "commit")
    /\ UNCHANGED <<row, lock, card, checkouts, timeVars, jobs, items, copy,
                   task, from, disturbed>>

\* or the customer is sent to a checkout session, also when the payment method
\* could not be looked up;
CreateCheckout(x) ==
    /\ pc[x] = "subscribe" /\ row.sub = None
    /\ Goto(x, "checkout")
    /\ UNCHANGED <<row, lock, stripeVars, news, timeVars, jobs, items, copy,
                   task, from, disturbed>>

\* with one, its items are replaced.
UpdateAtStripe(x) ==
    /\ pc[x] = "subscribe" /\ row.sub \in Open
    /\ subs' = [subs EXCEPT ![row.sub].slots = copy[x].slots]
    /\ news' = TRUE
    /\ Goto(x, "commit")
    /\ UNCHANGED <<row, lock, card, checkouts, timeVars, jobs, items, copy,
                   task, from, disturbed>>

\* The row is written and the transaction committed.  The customer gets the
\* address of the checkout session after that.
Commit(x) ==
    /\ pc[x] \in {"commit", "checkout"}
    /\ row' = copy[x]
    /\ checkouts' = IF pc[x] = "checkout" THEN checkouts \cup {copy[x].slots}
                                          ELSE checkouts
    /\ Release(x)
    /\ UNCHANGED <<subs, card, news, timeVars, jobs, items, task, from,
                   disturbed>>

-----------------------------------------------------------------------------
(* syncOrganizationWithStripeCustomer.                                     *)

\* The subscription listed last in S, when the one listed last of all is k.
LastListed(S, k) == IF k \in S THEN {k} ELSE S

WithSlots == {k \in Open : subs[k].slots # 0}
Decided   == {k \in Open : subs[k].status \in {"active", "past_due"}}

\* Fault: a subscription whose first payment is under way is ignored.
SyncedPaid(r) ==
    IF Decided = {} THEN {Free(r)}
    ELSE {[r EXCEPT !.sub = k, !.plan = "pro",
                    !.due = (subs[k].status = "past_due")] : k \in Decided}

\* What the row r becomes.  The loop goes through the open subscriptions, and
\* each sets what it has: slots if it has some, and whether a payment is due.
Synced(r) ==
    IF Open = {} THEN {Free(r)}
    ELSE {s \in [customer : {r.customer}, sub : Open, plan : {"pro"},
                 slots : {r.slots} \cup {subs[k].slots : k \in WithSlots},
                 usage : {r.usage}, due : BOOLEAN] :
            /\ IF WithSlots = {} THEN s.slots = r.slots
               ELSE \E k \in LastListed(WithSlots, s.sub) : s.slots = subs[k].slots
            /\ IF Decided = {} THEN s.due = r.due
               ELSE \E k \in LastListed(Decided, s.sub) :
                        s.due = (subs[k].status = "past_due")}

\* The row is locked and Stripe is asked.  Without a customer there is nothing
\* to do, and no event.
Synchronise(x, step) ==
    /\ row.customer
    /\ \E r \in Synced(row) : Acquire(x, r, step)
    /\ UNCHANGED <<row, stripeVars, timeVars, jobs, items, task, from,
                   disturbed>>

\* SyncStripe, or one more event.
SyncStripe(x) == Synchronise(x, "sync") /\ UNCHANGED news

\* Fault: only the first subscription of the organization is of interest.
HandleFirstEvent(x) ==
    IF row.sub = None
    THEN news /\ Synchronise(x, "event") /\ news' = FALSE
    ELSE /\ news /\ news' = FALSE
         /\ UNCHANGED <<row, lock, stripeVars, timeVars, jobs, items,
                        processVars, disturbed>>

\* All events have the same effect: the ones that wait are taken together.
HandleStripeEvent(x) == news /\ Synchronise(x, "event") /\ news' = FALSE

FinishSync(x) ==
    /\ pc[x] \in {"sync", "event"}
    /\ row' = copy[x]
    /\ disturbed' = FALSE
    /\ Release(x)
    /\ UNCHANGED <<stripeVars, news, timeVars, jobs, items, task, from>>

\* Fault: an event is acknowledged in any case.
FailForGood(x) ==
    /\ x \in Requests \cup Syncs /\ pc[x] # "idle"
    /\ Release(x)
    /\ UNCHANGED <<row, stripeVars, news, timeVars, jobs, items, task, from,
                   disturbed>>

\* A request or a synchronisation fails or dies.  Stripe sends an event again
\* that was not acknowledged.
Fail(x) ==
    /\ x \in Requests \cup Syncs /\ pc[x] # "idle"
    /\ Release(x)
    /\ news' = (news \/ pc[x] = "event")
    /\ UNCHANGED <<row, stripeVars, timeVars, jobs, items, task, from,
                   disturbed>>

-----------------------------------------------------------------------------
(* JobDispatchInvoiceMonthlyUsage and JobInvoiceMonthlyUsage.              *)

\* On the second day of the month.  It may run again, then with new keys.
DispatchInvoice(j) ==
    /\ now = month + 1
    /\ row.plan = "pro" /\ row.customer /\ row.sub # None
    /\ jobs[j] = "new"
    /\ jobs' = [jobs EXCEPT ![j] = "queued"]
    /\ UNCHANGED <<row, lock, stripeVars, news, timeVars, items, processVars,
                   disturbed>>

\* A worker takes the job and reads the row once nobody has locked it.
StartInvoice(x, j) ==
    /\ pc[x] = "idle" /\ lock = None
    /\ jobs[j] = "queued" /\ \A y \in Workers : task[y] # j
    /\ task' = [task EXCEPT ![x] = j]
    /\ IF row.sub = None
       THEN /\ copy' = [copy EXCEPT ![x] = row]
            /\ Goto(x, "write")
            /\ UNCHANGED from
       ELSE /\ copy' = [copy EXCEPT ![x] =
                           [row EXCEPT !.usage = LastHourOfLastMonth]]
            /\ from' = [from EXCEPT ![x] = PeriodStart]
            /\ Goto(x, "item") \/ Goto(x, "write")
    /\ UNCHANGED <<row, lock, stripeVars, news, timeVars, jobs, items,
                   disturbed>>

\* The item is made, and an invoice with it.
InvoiceUsage(x) ==
    /\ pc[x] = "item"
    /\ CreateItem(task[x], from[x], copy[x].usage)
    /\ Goto(x, "write")
    /\ UNCHANGED <<row, lock, stripeVars, news, timeVars, jobs, copy, task,
                   from, disturbed>>

\* The row is written back, as it was read but for the date.
WriteUsage(x) ==
    /\ pc[x] = "write" /\ lock = None
    /\ row' = copy[x]
    /\ disturbed' = (disturbed \/ copy[x] # [row EXCEPT !.usage = copy[x].usage])
    /\ jobs' = [jobs EXCEPT ![task[x]] = "over"]
    /\ Goto(x, "idle")
    /\ copy' = [copy EXCEPT ![x] = Blank]
    /\ task' = [task EXCEPT ![x] = None]
    /\ from' = [from EXCEPT ![x] = 0]
    /\ UNCHANGED <<lock, stripeVars, news, timeVars, items>>

\* The job fails, at any step.  The queue runs it again, a number of times.
FailJob(x) ==
    /\ x \in Workers /\ pc[x] # "idle"
    /\ \/ UNCHANGED jobs
       \/ jobs' = [jobs EXCEPT ![task[x]] = "over"]
    /\ Goto(x, "idle")
    /\ copy' = [copy EXCEPT ![x] = Blank]
    /\ task' = [task EXCEPT ![x] = None]
    /\ from' = [from EXCEPT ![x] = 0]
    /\ UNCHANGED <<row, lock, stripeVars, news, timeVars, items, disturbed>>

-----------------------------------------------------------------------------
(* UpdateOrganization by an administrator of the program, who may set the  *)
(* plan, the slots, or both.                                               *)

GivePlan(plan, slots) ==
    /\ WithGifts /\ lock = None
    /\ slots = row.slots \/ plan = "pro" \/ slots = 0
    /\ row' = [row EXCEPT !.plan = plan, !.slots = slots]
    /\ disturbed' = TRUE
    /\ UNCHANGED <<lock, stripeVars, news, timeVars, jobs, items, processVars>>

-----------------------------------------------------------------------------
(* Stripe, the customer, and time.                                         *)

PayCheckout(s, k) ==
    /\ s \in checkouts /\ subs[k].status = "none"
    /\ checkouts' = checkouts \ {s}
    /\ subs' = [subs EXCEPT ![k] = [status |-> "active", slots |-> s]]
    /\ card' = TRUE /\ news' = TRUE
    /\ UNCHANGED <<row, lock, timeVars, jobs, items, processVars, disturbed>>

\* A payment succeeds or fails; a subscription ends.
Moves == {<<"incomplete", "active">>, <<"incomplete", "canceled">>,
          <<"active", "past_due">>, <<"past_due", "active">>,
          <<"active", "canceled">>, <<"past_due", "canceled">>}

Renew(k, status) ==
    /\ <<subs[k].status, status>> \in Moves
    /\ subs' = [subs EXCEPT ![k].status = status]
    /\ news' = TRUE
    /\ UNCHANGED <<row, lock, card, checkouts, timeVars, jobs, items,
                   processVars, disturbed>>

ChangeCard ==
    /\ row.customer
    /\ card' = ~card
    /\ UNCHANGED <<row, lock, subs, checkouts, news, timeVars, jobs, items,
                   processVars, disturbed>>

Tick ==
    /\ now < MaxTime
    /\ now' = now + 1
    /\ month' = IF now' = month + MonthLength THEN now' ELSE month
    /\ UNCHANGED <<row, lock, stripeVars, news, jobs, items, processVars,
                   disturbed>>

-----------------------------------------------------------------------------

RequestStep(x) ==
    \/ InvoiceCancellation(x) \/ PayInvoice(x) \/ CancelAtStripe(x)
    \/ \E k \in Subs : CreateSubscription(x, k)
    \/ CreateCheckout(x) \/ UpdateAtStripe(x) \/ Commit(x)

RequestNext(x) ==
    \/ CancelSubscription(x)
    \/ \E slots \in Slots : ChangeSubscription(x, slots)
    \/ RequestStep(x)

SyncNext(x) == SyncStripe(x) \/ HandleStripeEvent(x) \/ FinishSync(x)

WorkerNext(x) ==
    \/ \E j \in Jobs : StartInvoice(x, j)
    \/ InvoiceUsage(x) \/ WriteUsage(x) \/ FailJob(x)

Outside ==
    \/ \E s \in Slots, k \in Subs : PayCheckout(s, k)
    \/ \E k \in Subs, status \in Status : Renew(k, status)
    \/ \E plan \in Plans, slots \in Slots : GivePlan(plan, slots)
    \/ ChangeCard \/ Tick

Next ==
    \/ \E x \in Requests : RequestNext(x)
    \/ \E x \in Syncs : SyncNext(x)
    \/ \E x \in Workers : WorkerNext(x)
    \/ \E j \in Jobs : DispatchInvoice(j)
    \/ \E x \in Requests \cup Syncs : Fail(x)
    \/ Outside

Spec == Init /\ [][Next]_vars

\* What was started ends, in one way or another.  Stripe sends an event until
\* it is acknowledged, and what is tried again and again works in the end.
Fairness ==
    /\ \A x \in Requests : WF_vars(RequestStep(x) \/ Fail(x))
    /\ \A x \in Syncs : SF_vars(FinishSync(x))
    /\ SF_vars(\E x \in Syncs : HandleStripeEvent(x))

FairSpec == Spec /\ Fairness

-----------------------------------------------------------------------------
(* Properties.                                                             *)

\* The values of the variables, and what goes with the places of a process.
TypeOK ==
    /\ row \in Organization
    /\ lock \in Requests \cup Syncs \cup {None}
    /\ subs \in [Subs -> [status : Status, slots : Slots]]
    /\ card \in BOOLEAN /\ checkouts \subseteq Slots /\ news \in BOOLEAN
    /\ now \in Nat /\ month \in Nat /\ MonthLength <= month /\ month <= now
    /\ jobs \in [Jobs -> {"new", "queued", "over"}]
    /\ items \subseteq [key : Subs \cup Jobs, start : Nat, end : Nat, at : Nat]
    /\ pc \in [Processes -> {"idle", "invoice", "pay", "cancel", "subscribe",
                             "commit", "checkout", "sync", "event", "item",
                             "write"}]
    /\ copy \in [Processes -> Organization]
    /\ task \in [Workers -> Jobs \cup {None}]
    /\ from \in [Workers -> Nat]
    /\ disturbed \in BOOLEAN

\* The row r says what Stripe has.
Agrees(r) ==
    IF r.sub = None THEN Open = {} /\ r.plan = "free" /\ ~r.due
    ELSE /\ r.sub \in Open /\ r.plan = "pro"
         /\ subs[r.sub].status = "active" => ~r.due
         /\ subs[r.sub].status = "past_due" => r.due

\* The row differs from what Stripe has only while an event is on its way, or
\* after a gift or the stale row of a worker: whatever requests and
\* synchronisations do, in any order, and wherever they fail.
RowFollowsStripe ==
    \/ Agrees(row) \/ news \/ disturbed
    \/ \E x \in Syncs : pc[x] = "event"

\* No period is invoiced backwards, although the usage is invoiced up to now by
\* a cancellation and up to the end of the last month otherwise.
PeriodsAreForward == \A i \in items : i.start <= i.end

\* The row is locked by the one that works on it, a worker apart.
LockIsHeld == \A x \in Requests \cup Syncs : pc[x] # "idle" <=> lock = x

\* Each process is at one of its own places.
PlacesAreOwn ==
    /\ \A x \in Requests : pc[x] \notin {"sync", "event", "item", "write"}
    /\ \A x \in Syncs : pc[x] \in {"idle", "sync", "event"}
    /\ \A x \in Workers : /\ pc[x] \in {"idle", "item", "write"}
                          /\ pc[x] # "idle" => task[x] \in Jobs

\* What is about to be written is still right, or an event is on its way.
CopiesFollowStripe ==
    /\ \A x \in Syncs : pc[x] # "idle" => (news \/ Agrees(copy[x]))
    /\ \A x \in Requests :
         /\ pc[x] \in {"invoice", "pay", "cancel"} => row.sub # None
         /\ pc[x] = "subscribe" =>
              copy[x] = [row EXCEPT !.slots = copy[x].slots, !.customer = TRUE]
         /\ pc[x] \in {"commit", "checkout"} =>
              (news \/ disturbed \/ Agrees(copy[x]))

\* The usage of this month was never invoiced for what the row r says.
IsPast(r) == r.usage = None \/ r.usage < month

MarksArePast ==
    /\ IsPast(row)
    /\ \A x \in Processes : IsPast(copy[x])
    /\ \A x \in Workers : pc[x] = "item" =>
         copy[x].usage # None /\ from[x] <= copy[x].usage

\* The inductive invariant.
Inductive ==
    /\ TypeOK
    /\ LockIsHeld
    /\ PlacesAreOwn
    /\ CopiesFollowStripe
    /\ MarksArePast
    /\ RowFollowsStripe
    /\ PeriodsAreForward

\* A request makes a second subscription only when the row has yet to hear of
\* the first.
SecondIsUnseen ==
    [][\A k \in Subs :
          (subs[k].status = "none" /\ k \in Open' /\ checkouts' = checkouts)
              => (Open = {} \/ news \/ disturbed)]_vars

\* The row gets the subscription that Stripe has, or loses the one that ended,
\* unless it was disturbed.
SubscriptionIsFollowed ==
    []<>(disturbed \/ IF Open = {} THEN row.sub = None ELSE row.sub \in Open)

\* "If this customer has already been invoiced for usage data, we continue
\* where we left": two items have no more than a moment in common.
InvoicedOnce ==
    \A i, j \in items : i = j \/ i.end <= j.start \/ j.end <= i.start
=============================================================================
