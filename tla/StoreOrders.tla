---------------------------- MODULE StoreOrders ----------------------------
(***************************************************************************)
(* The orders of a website's store: pkg/services/store and its webhook     *)
(* endpoint in pkg/server.  A visitor places an order, pays it at Stripe   *)
(* and comes back; Stripe tells the server about it with webhook events    *)
(* that arrive late, more than once and in any order; every event, and the *)
(* page the customer comes back to, runs completeOrder, which reads the    *)
(* order under a row lock, asks Stripe how the payment stands, and then    *)
(* completes the order, cancels it or leaves it alone.                     *)
(*                                                                         *)
(* A handler is one execution of completeOrder.  Its steps are the points  *)
(* where other transactions can come in between: after the row is locked,  *)
(* after Stripe has answered, after the contact row is updated (which      *)
(* locks it) and the access rows are looked up, and after the commit.  Any *)
(* step can fail, or its server die: before the commit that undoes the     *)
(* transaction, after it that loses what was still to be done.             *)
(*                                                                         *)
(* Left out: amounts, quantities, currencies and countries; the analytics  *)
(* events except the one that counts a sale; the contact's row except its  *)
(* Verified mark and its lock.                                             *)
(***************************************************************************)
EXTENDS Naturals

CONSTANTS
    Orders,      \* the orders that may be placed
    Contacts,    \* the contacts of the website
    Products,    \* its products
    Handlers,    \* executions of completeOrder that may run at a time
    Buyer,       \* Buyer[o]: the contact who places o
    Items,       \* Items[o]: the products ordered by o
    NoOrder      \* what an idle handler works on

ASSUME StoreAssumption ==
    /\ Buyer \in [Orders -> Contacts]
    /\ Items \in [Orders -> SUBSET Products]
    /\ \A o \in Orders : Items[o] # {}
    /\ NoOrder \notin Orders

VARIABLES
    \* The products and DeleteProduct, which checks before its transaction.
    product,     \* product[p]: the status of p, or "deleted"
    doomed,      \* products whose deletion has passed its check
    \* PlaceOrder, and the rows of the table orders.
    placement,   \* placement[o]: how far PlaceOrder got for o
    status,      \* status[o]: status of the row of o, "none" without a row
    invoice,     \* orders whose row has its Stripe invoice
    \* Stripe.
    stripe,      \* stripe[o]: the checkout session of o and its payment
    invoiced,    \* orders for whose payment Stripe has made the invoice
    emitted,     \* <<o, k>>: Stripe has an event of kind k about o
    acked,       \* the events the server has answered with success
    \* Access to products, and the history of what the staff did about it.
    access,      \* rows <<c, p>> of contact_product_access
    granted,
    revoked,
    verified,    \* contacts marked as verified
    \* The executions of completeOrder.
    pc,          \* pc[h]: what h has done last
    ord,         \* ord[h]: its order
    via,         \* via[h]: the kind of event that h handles, or "api"
    row,         \* row[h]: the order's row as h read it
    seen,        \* seen[h]: the payment as h got it from Stripe
    missing,     \* missing[h]: the access rows h found missing
    \* What follows a completion.
    outbox,      \* outbox[o]: goroutines about to push the confirmation job
    queue,       \* queue[o]: confirmation jobs in the queue
    emailed,     \* orders whose confirmation was mailed at least once
    sales        \* sales[o]: how often the sale was counted in the analytics

productVars == <<product, doomed>>
orderVars   == <<placement, status, invoice>>
stripeVars  == <<stripe, invoiced, emitted>>
accessVars  == <<access, granted, revoked, verified>>
handlerVars == <<pc, ord, via, row, seen, missing>>
mailVars    == <<outbox, queue, emailed>>
vars == <<productVars, orderVars, stripeVars, acked, accessVars, handlerVars,
          mailVars, sales>>

ProductStatus == {"active", "draft", "deleted"}
OrderStatus   == {"none", "pending", "completed", "canceled"}
PaymentStatus == {"none", "open", "processing", "succeeded", "nothing_due",
                  "canceled", "expired"}
EventKinds    == {"session.completed", "session.expired", "invoice.paid"}
InTransaction == {"locked", "fetched", "writing"}

\* The access that the order o sells.
Bought(o) == {<<Buyer[o], p>> : p \in Items[o]}

Placed == {o \in Orders : status[o] # "none"}
Completed == {o \in Orders : status[o] = "completed"}
Paid == {o \in Orders : stripe[o] = "succeeded"}

NoRow == [status |-> "none", invoice |-> FALSE]
NotSeen == [pay |-> "none", invoice |-> FALSE]

Init ==
    /\ product \in [Products -> {"active", "draft"}]
    /\ doomed = {}
    /\ placement = [o \in Orders |-> "none"]
    /\ status = [o \in Orders |-> "none"]
    /\ invoice = {}
    /\ stripe = [o \in Orders |-> "none"]
    /\ invoiced = {} /\ emitted = {} /\ acked = {}
    /\ access = {} /\ granted = {} /\ revoked = {}
    /\ verified \in SUBSET Contacts
    /\ pc = [h \in Handlers |-> "idle"]
    /\ ord = [h \in Handlers |-> NoOrder]
    /\ via = [h \in Handlers |-> "api"]
    /\ row = [h \in Handlers |-> NoRow]
    /\ seen = [h \in Handlers |-> NotSeen]
    /\ missing = [h \in Handlers |-> {}]
    /\ outbox = [o \in Orders |-> 0]
    /\ queue = [o \in Orders |-> 0]
    /\ emailed = {}
    /\ sales = [o \in Orders |-> 0]

-----------------------------------------------------------------------------
(* PlaceOrder.  The Stripe session is created before the order's row, and  *)
(* the customer is given its URL only after the row.                       *)

OpenSession(o) ==
    /\ placement[o] = "none"
    /\ \A p \in Items[o] : product[p] = "active"
    /\ placement' = [placement EXCEPT ![o] = "session"]
    /\ stripe' = [stripe EXCEPT ![o] = "open"]
    /\ UNCHANGED <<productVars, status, invoice, invoiced, emitted, acked,
                   accessVars, handlerVars, mailVars, sales>>

\* A line item references its product, so the row of a deleted product is
\* missed here, and the insertion fails.
InsertOrder(o) ==
    /\ placement[o] = "session"
    /\ \A p \in Items[o] : product[p] # "deleted"
    /\ placement' = [placement EXCEPT ![o] = "placed"]
    /\ status' = [status EXCEPT ![o] = "pending"]
    /\ UNCHANGED <<productVars, invoice, stripeVars, acked, accessVars,
                   handlerVars, mailVars, sales>>

\* The insertion fails or the server dies: the session stays, without a row.
AbandonOrder(o) ==
    /\ placement[o] = "session"
    /\ placement' = [placement EXCEPT ![o] = "failed"]
    /\ UNCHANGED <<productVars, status, invoice, stripeVars, acked, accessVars,
                   handlerVars, mailVars, sales>>

-----------------------------------------------------------------------------
(* Stripe and the customer, external to the repository.                    *)

\* The payment of o moves from one status to the next, which raises the
\* events `kinds'.
Move(o, from, to, kinds) ==
    /\ stripe[o] = from
    /\ stripe' = [stripe EXCEPT ![o] = to]
    /\ emitted' = emitted \cup {<<o, k>> : k \in kinds}
    /\ UNCHANGED <<productVars, orderVars, invoiced, acked, accessVars,
                   handlerVars, mailVars, sales>>

\* Only a customer who was given the URL can pay: at once, with a method that
\* settles later, or nothing, when all the products are free (a session of
\* amount zero completes without a payment intent).
Checkout(o) ==
    /\ placement[o] = "placed"
    /\ \E to \in {"succeeded", "processing", "nothing_due"} :
         Move(o, "open", to, {"session.completed"})

\* The outcome of a payment that settles later; the server handles no event
\* that Stripe has for it, except that of the invoice.
Settle(o) ==
    \/ Move(o, "processing", "succeeded", {})
    \/ Move(o, "processing", "canceled", {})

Expire(o) == Move(o, "open", "expired", {"session.expired"})

MakeInvoice(o) ==
    /\ stripe[o] = "succeeded"
    /\ o \notin invoiced
    /\ invoiced' = invoiced \cup {o}
    /\ emitted' = emitted \cup {<<o, "invoice.paid">>}
    /\ UNCHANGED <<productVars, orderVars, stripe, acked, accessVars,
                   handlerVars, mailVars, sales>>

-----------------------------------------------------------------------------
(* completeOrder.                                                          *)

\* Fault: the order is read without FOR UPDATE.
RowUnlocked(o) == FALSE

\* SELECT ... FOR UPDATE: one transaction at a time holds the order's row.
RowLocked(o) == \E h \in Handlers : pc[h] \in InTransaction /\ ord[h] = o

\* UPDATE contacts: the contact's row is locked until the commit.
ContactLocked(c) ==
    \E h \in Handlers : pc[h] = "writing" /\ Buyer[ord[h]] = c

\* The handler returns; what it knew is gone.
Release(h) ==
    /\ pc' = [pc EXCEPT ![h] = "idle"]
    /\ ord' = [ord EXCEPT ![h] = NoOrder]
    /\ via' = [via EXCEPT ![h] = "api"]
    /\ row' = [row EXCEPT ![h] = NoRow]
    /\ seen' = [seen EXCEPT ![h] = NotSeen]
    /\ missing' = [missing EXCEPT ![h] = {}]

\* Fault: whatever was handled is recorded as an event, calls of the API too.
AcknowledgeAnything(h) == acked' = acked \cup {<<ord[h], via[h]>>}

\* An event handled without an error is answered with 200 and not sent again,
\* at least not on purpose.
Acknowledge(h) == acked' = acked \cup ({<<ord[h], via[h]>>} \cap emitted)

\* A call for an order without a row fails, and changes nothing.
Begin(h, o, src) ==
    /\ pc[h] = "idle"
    /\ status[o] # "none" /\ ~RowLocked(o)
    /\ pc' = [pc EXCEPT ![h] = "locked"]
    /\ ord' = [ord EXCEPT ![h] = o]
    /\ via' = [via EXCEPT ![h] = src]
    /\ row' = [row EXCEPT ![h] = [status |-> status[o], invoice |-> o \in invoice]]
    /\ UNCHANGED <<productVars, orderVars, stripeVars, acked, accessVars, seen,
                   missing, mailVars, sales>>

\* Stripe delivers any event it ever raised: one the server has acknowledged
\* too, and several deliveries of it at the same time.
Deliver(h, o, k) == <<o, k>> \in emitted /\ Begin(h, o, k)

\* The customer comes back to the website: the API CompleteOrder.
CompleteOrder(h, o) == Begin(h, o, "api")

\* Fault: the session is looked up by customer instead of by its ID.
FetchByCustomer(h) ==
    /\ pc[h] = "locked"
    /\ pc' = [pc EXCEPT ![h] = "fetched"]
    /\ \E o \in Orders :
         /\ Buyer[o] = Buyer[ord[h]]
         /\ seen' = [seen EXCEPT ![h] = [pay |-> stripe[o], invoice |-> o \in invoiced]]
    /\ UNCHANGED <<productVars, orderVars, stripeVars, acked, accessVars, ord,
                   via, row, missing, mailVars, sales>>

Fetch(h) ==
    /\ pc[h] = "locked"
    /\ pc' = [pc EXCEPT ![h] = "fetched"]
    /\ seen' = [seen EXCEPT ![h] = [pay |-> stripe[ord[h]],
                                    invoice |-> ord[h] \in invoiced]]
    /\ UNCHANGED <<productVars, orderVars, stripeVars, acked, accessVars, ord,
                   via, row, missing, mailVars, sales>>

\* The order can't be paid any more.
Dead(pay) == pay \in {"expired", "canceled"}

\* Fault: the invoice is saved only when the order is completed.
SaveNoInvoice(h) == FALSE

\* The order is already completed, but its invoice is not saved yet.
SaveInvoice(h) ==
    /\ pc[h] = "fetched"
    /\ row[h].status = "completed"
    /\ ~row[h].invoice /\ seen[h].invoice
    /\ invoice' = invoice \cup {ord[h]}
    /\ Acknowledge(h) /\ Release(h)
    /\ UNCHANGED <<productVars, placement, status, stripeVars, accessVars,
                   mailVars, sales>>

\* Fault: an expired session is ignored like one that is still open.
CancelDeclined(h) ==
    /\ pc[h] = "fetched"
    /\ row[h].status = "pending" /\ seen[h].pay = "canceled"
    /\ status' = [status EXCEPT ![ord[h]] = "canceled"]
    /\ Acknowledge(h) /\ Release(h)
    /\ UNCHANGED <<productVars, placement, invoice, stripeVars, accessVars,
                   mailVars, sales>>

CancelUnpaid(h) ==
    /\ pc[h] = "fetched"
    /\ row[h].status = "pending" /\ Dead(seen[h].pay)
    /\ status' = [status EXCEPT ![ord[h]] = "canceled"]
    /\ Acknowledge(h) /\ Release(h)
    /\ UNCHANGED <<productVars, placement, invoice, stripeVars, accessVars,
                   mailVars, sales>>

\* Nothing to do: nil is returned, also for a payment in progress.
NothingToDo(h) ==
    \/ row[h].status = "completed" /\ (row[h].invoice \/ ~seen[h].invoice)
    \/ row[h].status = "canceled" /\ Dead(seen[h].pay)
    \/ /\ row[h].status # "completed"
       /\ ~Dead(seen[h].pay) /\ seen[h].pay # "succeeded"

Ignore(h) ==
    /\ pc[h] = "fetched"
    /\ NothingToDo(h)
    /\ Acknowledge(h) /\ Release(h)
    /\ UNCHANGED <<productVars, orderVars, stripeVars, accessVars, mailVars,
                   sales>>

\* Fault: a canceled order is over.
MustCompletePending(h) == row[h].status = "pending" /\ seen[h].pay = "succeeded"

\* Fault: the status of the session is taken for that of the payment.
MustCompleteCheckout(h) ==
    row[h].status # "completed" /\ seen[h].pay \in {"succeeded", "processing"}

\* A pending order was paid; or a canceled one, since canceling an order does
\* not expire its session.
MustComplete(h) == row[h].status # "completed" /\ seen[h].pay = "succeeded"

\* Fault: the confirmation job is pushed before the commit.
WriteAndPush(h) ==
    /\ pc[h] = "fetched"
    /\ MustComplete(h)
    /\ ~ContactLocked(Buyer[ord[h]])
    /\ pc' = [pc EXCEPT ![h] = "writing"]
    /\ missing' = [missing EXCEPT ![h] = Bought(ord[h]) \ access]
    /\ outbox' = [outbox EXCEPT ![ord[h]] = @ + 1]
    /\ UNCHANGED <<productVars, orderVars, stripeVars, acked, accessVars, ord,
                   via, row, seen, queue, emailed, sales>>

\* Fault: what another order of the contact contains is left to that order.
WriteDistinct(h) ==
    /\ pc[h] = "fetched"
    /\ MustComplete(h)
    /\ ~ContactLocked(Buyer[ord[h]])
    /\ pc' = [pc EXCEPT ![h] = "writing"]
    /\ missing' = [missing EXCEPT ![h] =
           Bought(ord[h]) \ (access \cup UNION {Bought(o) : o \in Placed \ {ord[h]}})]
    /\ UNCHANGED <<productVars, orderVars, stripeVars, acked, accessVars, ord,
                   via, row, seen, mailVars, sales>>

\* The contact and the order are updated, the missing access rows looked up.
Write(h) ==
    /\ pc[h] = "fetched"
    /\ MustComplete(h)
    /\ ~ContactLocked(Buyer[ord[h]])
    /\ pc' = [pc EXCEPT ![h] = "writing"]
    /\ missing' = [missing EXCEPT ![h] = Bought(ord[h]) \ access]
    /\ UNCHANGED <<productVars, orderVars, stripeVars, acked, accessVars, ord,
                   via, row, seen, mailVars, sales>>

\* The missing access rows are inserted and the transaction committed, after
\* which a goroutine is started to push the confirmation job.
Commit(h) ==
    /\ pc[h] = "writing"
    /\ missing[h] \cap access = {}
    /\ pc' = [pc EXCEPT ![h] = "committed"]
    /\ status' = [status EXCEPT ![ord[h]] = "completed"]
    /\ invoice' = IF seen[h].invoice THEN invoice \cup {ord[h]} ELSE invoice
    /\ access' = access \cup missing[h]
    /\ verified' = verified \cup {Buyer[ord[h]]}
    /\ outbox' = [outbox EXCEPT ![ord[h]] = @ + 1]
    /\ UNCHANGED <<productVars, placement, stripeVars, acked, granted, revoked,
                   ord, via, row, seen, missing, queue, emailed, sales>>

\* TrackOrderCompleted, then the return.
Return(h) ==
    /\ pc[h] = "committed"
    /\ sales' = [sales EXCEPT ![ord[h]] = @ + 1]
    /\ Acknowledge(h) /\ Release(h)
    /\ UNCHANGED <<productVars, orderVars, stripeVars, accessVars, mailVars>>

\* The call returns an error, which makes Stripe send the event again: what
\* the transaction wrote is undone.
GiveUp(h) ==
    /\ Release(h)
    /\ UNCHANGED <<productVars, orderVars, stripeVars, acked, accessVars,
                   mailVars, sales>>

\* A row inserted meanwhile by GiveContactsAccessToProduct violates the unique
\* index.  The code goes on, but PostgreSQL has aborted the transaction: its
\* commit fails.
Conflict(h) == pc[h] = "writing" /\ missing[h] \cap access # {} /\ GiveUp(h)

\* A query, the commit or Stripe fails, or the server dies.
Fail(h) == pc[h] # "idle" /\ GiveUp(h)

-----------------------------------------------------------------------------
(* The confirmation email.                                                 *)

PushConfirmation(o) ==
    /\ outbox[o] > 0
    /\ outbox' = [outbox EXCEPT ![o] = @ - 1]
    /\ queue' = [queue EXCEPT ![o] = @ + 1]
    /\ UNCHANGED <<productVars, orderVars, stripeVars, acked, accessVars,
                   handlerVars, emailed, sales>>

\* The error is only logged; and a goroutine dies with its server.
LosePush(o) ==
    /\ outbox[o] > 0
    /\ outbox' = [outbox EXCEPT ![o] = @ - 1]
    /\ UNCHANGED <<productVars, orderVars, stripeVars, acked, accessVars,
                   handlerVars, queue, emailed, sales>>

\* JobSendOrderConfirmationEmail: `sent' tells whether the email left, `done'
\* whether the job is over (it succeeded or its retries are spent).  An email
\* may have left although the job is to run again.
RunConfirmation(o, sent, done) ==
    /\ queue[o] > 0
    /\ queue' = IF done THEN [queue EXCEPT ![o] = @ - 1] ELSE queue
    /\ emailed' = IF sent THEN emailed \cup {o} ELSE emailed
    /\ UNCHANGED <<productVars, orderVars, stripeVars, acked, accessVars,
                   handlerVars, outbox, sales>>

-----------------------------------------------------------------------------
(* Transactions without a call in their middle: one action each.           *)

\* Fault: an order is canceled whatever its status.
CancelableAlways(o) == status[o] # "none"

\* What CancelOrder refuses is a completed order.
Cancelable(o) == status[o] \in {"pending", "canceled"}

\* The customer comes back from Stripe without paying.  The session stays
\* open.
CancelOrder(o) ==
    /\ Cancelable(o) /\ ~RowLocked(o)
    /\ status' = [status EXCEPT ![o] = "canceled"]
    /\ UNCHANGED <<productVars, placement, invoice, stripeVars, acked,
                   accessVars, handlerVars, mailVars, sales>>

\* A contact who is not verified yet is updated, which waits for its row.
GiveContactsAccessToProduct(C, p) ==
    /\ product[p] # "deleted"
    /\ \A c \in C \ verified : ~ContactLocked(c)
    /\ access' = access \cup (C \X {p})
    /\ granted' = granted \cup (C \X {p})
    /\ verified' = verified \cup C
    /\ UNCHANGED <<productVars, orderVars, stripeVars, acked, revoked,
                   handlerVars, mailVars, sales>>

\* All or nothing: an error for one contact rolls the others back.
RemoveAccessToProduct(C, p) ==
    /\ C \X {p} \subseteq access
    /\ access' = access \ (C \X {p})
    /\ revoked' = revoked \cup (C \X {p})
    /\ UNCHANGED <<productVars, orderVars, stripeVars, acked, granted, verified,
                   handlerVars, mailVars, sales>>

UpdateProduct(p) ==
    /\ product[p] # "deleted"
    /\ \E s \in {"active", "draft"} : product' = [product EXCEPT ![p] = s]
    /\ UNCHANGED <<doomed, orderVars, stripeVars, acked, accessVars,
                   handlerVars, mailVars, sales>>

\* Some line item references the product.
Ordered(p) == \E o \in Placed : p \in Items[o]

\* DeleteProduct looks for orders of the product, and later deletes it.
CheckProduct(p) ==
    /\ product[p] # "deleted"
    /\ ~Ordered(p)
    /\ doomed' = doomed \cup {p}
    /\ UNCHANGED <<product, orderVars, stripeVars, acked, accessVars,
                   handlerVars, mailVars, sales>>

\* Fault: the line items are deleted with their product.
DeleteProductCascading(p) ==
    /\ p \in doomed
    /\ doomed' = doomed \ {p}
    /\ product' = [product EXCEPT ![p] = "deleted"]
    /\ access' = {a \in access : a[2] # p}
    /\ UNCHANGED <<orderVars, stripeVars, acked, granted, revoked, verified,
                   handlerVars, mailVars, sales>>

\* The foreign key of the line items refuses the deletion of a product that
\* was ordered since; the access rows of a deleted product go with it.
DeleteProduct(p) ==
    /\ p \in doomed
    /\ doomed' = doomed \ {p}
    /\ \/ /\ Ordered(p)
          /\ UNCHANGED <<product, access>>
       \/ /\ ~Ordered(p)
          /\ product' = [product EXCEPT ![p] = "deleted"]
          /\ access' = {a \in access : a[2] # p}
    /\ UNCHANGED <<orderVars, stripeVars, acked, granted, revoked, verified,
                   handlerVars, mailVars, sales>>

-----------------------------------------------------------------------------

\* What a handler does once it runs, short of failing.
Advance(h) ==
    \/ Fetch(h) \/ SaveInvoice(h) \/ CancelUnpaid(h) \/ Ignore(h)
    \/ Write(h) \/ Commit(h) \/ Conflict(h) \/ Return(h)

HandlerStep(h) ==
    \/ \E o \in Orders, k \in EventKinds : Deliver(h, o, k)
    \/ \E o \in Orders : CompleteOrder(h, o)
    \/ Advance(h) \/ Fail(h)

OrderStep(o) ==
    \/ OpenSession(o) \/ InsertOrder(o) \/ AbandonOrder(o) \/ CancelOrder(o)
    \/ Checkout(o) \/ Settle(o) \/ Expire(o) \/ MakeInvoice(o)
    \/ PushConfirmation(o) \/ LosePush(o)
    \/ \E sent, done \in BOOLEAN : RunConfirmation(o, sent, done)

StaffStep(p) ==
    \/ \E C \in SUBSET Contacts :
         GiveContactsAccessToProduct(C, p) \/ RemoveAccessToProduct(C, p)
    \/ UpdateProduct(p) \/ CheckProduct(p) \/ DeleteProduct(p)

Next ==
    \/ \E h \in Handlers : HandlerStep(h)
    \/ \E o \in Orders : OrderStep(o)
    \/ \E p \in Products : StaffStep(p)

Spec == Init /\ [][Next]_vars

(* Fairness.  A server runs what it started.  Stripe sends an event again  *)
(* until it is acknowledged, and makes the invoice of every payment.  A    *)
(* query, a call to Stripe or a commit that is tried again and again works *)
(* in the end: this is what the retries of the webhooks count on.          *)

Deliveries(o, k) == <<o, k>> \notin acked /\ \E h \in Handlers : Deliver(h, o, k)

For(o, A(_)) == \E h \in Handlers : ord[h] = o /\ A(h)

Fairness ==
    /\ \A h \in Handlers : WF_vars(Advance(h))
    /\ \A o \in Orders :
         /\ \A k \in EventKinds : SF_vars(Deliveries(o, k))
         /\ SF_vars(For(o, Fetch)) /\ SF_vars(For(o, SaveInvoice))
         /\ SF_vars(For(o, CancelUnpaid)) /\ SF_vars(For(o, Write))
         /\ SF_vars(For(o, Commit))
         /\ WF_vars(MakeInvoice(o))

FairSpec == Spec /\ Fairness

-----------------------------------------------------------------------------
(* Properties.                                                             *)

TypeOK ==
    /\ product \in [Products -> ProductStatus] /\ doomed \subseteq Products
    /\ placement \in [Orders -> {"none", "session", "placed", "failed"}]
    /\ status \in [Orders -> OrderStatus] /\ invoice \subseteq Orders
    /\ stripe \in [Orders -> PaymentStatus] /\ invoiced \subseteq Orders
    /\ emitted \subseteq Orders \X EventKinds /\ acked \subseteq emitted
    /\ access \subseteq Contacts \X Products
    /\ granted \subseteq Contacts \X Products
    /\ revoked \subseteq Contacts \X Products
    /\ verified \subseteq Contacts
    /\ pc \in [Handlers -> {"idle", "committed"} \cup InTransaction]
    /\ ord \in [Handlers -> Orders \cup {NoOrder}]
    /\ \A h \in Handlers : pc[h] # "idle" => ord[h] \in Orders
    /\ via \in [Handlers -> EventKinds \cup {"api"}]
    /\ row \in [Handlers -> [status : OrderStatus, invoice : BOOLEAN]]
    /\ seen \in [Handlers -> [pay : PaymentStatus, invoice : BOOLEAN]]
    /\ missing \in [Handlers -> SUBSET (Contacts \X Products)]
    /\ outbox \in [Orders -> Nat] /\ queue \in [Orders -> Nat]
    /\ emailed \subseteq Orders /\ sales \in [Orders -> Nat]

\* Nobody has access to a product without having paid an order of it or been
\* given it by the staff, whatever the events say and when they come.
AccessIsEarned ==
    access \subseteq granted \cup UNION {Bought(o) : o \in Paid}

\* The buyer of a completed order has everything that was ordered, except what
\* the staff took away: no race with the staff, with another order or with the
\* deletion of a product makes a completed order deliver less.
CompletedIsDelivered ==
    \A o \in Completed : Bought(o) \subseteq access \cup revoked

\* The confirmation jobs and the counts of the sale that o has led to, those
\* on their way included.
Returning(o) == {h \in Handlers : pc[h] = "committed" /\ ord[h] = o}

\* However many webhooks and customers run completeOrder for an order, at the
\* same time and later, one of them completes it: the sale is counted once and
\* there is one confirmation job.
CompletedOnce ==
    \A o \in Orders :
        /\ sales[o] <= 1 /\ outbox[o] + queue[o] <= 1
        /\ Returning(o) # {} => sales[o] = 0
        /\ \A g, h \in Returning(o) : g = h

\* A confirmation is not sent, nor a sale counted, of an order that is not
\* completed; so neither can follow a transaction that was rolled back.
ConfirmedIsCompleted ==
    \A o \in Orders :
        sales[o] > 0 \/ outbox[o] > 0 \/ queue[o] > 0 \/ o \in emailed
            => status[o] = "completed"

\* What makes the invariants inductive.  An order has a row from the moment
\* PlaceOrder inserts it, and no payment before PlaceOrder opens its session.
RowsArePlaced ==
    \A o \in Orders :
        /\ status[o] # "none" <=> placement[o] = "placed"
        /\ placement[o] = "none" => stripe[o] = "none"

\* The lock makes what a transaction has
\* read of its order true until its end, and keeps others out;
LockIsHeld ==
    \A h \in Handlers : pc[h] \in InTransaction =>
        /\ status[ord[h]] # "none"
        /\ row[h].status = status[ord[h]]
        /\ row[h].invoice <=> ord[h] \in invoice
        /\ \A g \in Handlers :
             pc[g] \in InTransaction /\ ord[g] = ord[h] => g = h

\* a payment that succeeded stays so, unlike any other answer of Stripe;
PaymentsAreSeen ==
    /\ \A h \in Handlers :
         pc[h] \in {"fetched", "writing"} /\ seen[h].pay = "succeeded"
             => ord[h] \in Paid
    /\ Completed \subseteq Paid

\* and about to commit, a handler has accounted for all that was bought: what
\* it doesn't insert was there, and can only have been taken away since.
WritesAreComplete ==
    \A h \in Handlers : pc[h] = "writing" =>
        /\ ord[h] \in Paid \ Completed
        /\ missing[h] \subseteq Bought(ord[h])
        /\ Bought(ord[h]) \subseteq access \cup missing[h] \cup revoked

CommittedIsCompleted ==
    \A h \in Handlers : pc[h] = "committed" => ord[h] \in Completed

Inductive ==
    /\ TypeOK
    /\ RowsArePlaced /\ LockIsHeld /\ PaymentsAreSeen /\ WritesAreComplete
    /\ AccessIsEarned /\ CompletedIsDelivered
    /\ CommittedIsCompleted /\ ConfirmedIsCompleted /\ CompletedOnce

\* A completed order stays completed and keeps its invoice.
CompletionIsFinal ==
    [][/\ Completed \subseteq Completed'
       /\ (invoice \cap Completed) \subseteq invoice']_vars

\* Whoever pays is served: with what Stripe sends again and again, and although
\* a payment may settle late and a canceled order may still be paid.
PaidIsCompleted == \A o \in Orders : (o \in Paid) ~> (o \in Completed)

\* The invoice ends up in the order, whichever of the two comes first.
InvoiceIsSaved == \A o \in Orders : (o \in Paid) ~> (o \in invoice)

\* An order whose session expired doesn't stay pending.
ExpiredIsCanceled ==
    \A o \in Orders :
        (stripe[o] = "expired" /\ status[o] = "pending") ~> (status[o] = "canceled")

\* A comment of completeOrder on the unique violation: "nothing has to be done
\* if contact already has access to product".  So the order should be completed
\* all the same; it is not, since PostgreSQL has aborted the transaction.
ConflictIsHarmless ==
    [][\A h \in Handlers : Conflict(h) => ord[h] \in Completed']_vars

\* The promise to merchants and customers.
Promise == INSTANCE Purchase WITH paid <- Paid, fulfilled <- Completed

Implements == Promise!Spec
=============================================================================
