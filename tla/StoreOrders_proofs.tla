------------------------- MODULE StoreOrders_proofs -------------------------
(***************************************************************************)
(* Proofs about StoreOrders, for any sets of orders, contacts, products    *)
(* and handlers.                                                           *)
(***************************************************************************)
EXTENDS StoreOrders, TLAPS

USE DEF productVars, orderVars, stripeVars, accessVars, handlerVars, mailVars

LEMMA TypeInit == Init => TypeOK
<1> SUFFICES ASSUME Init PROVE TypeOK
  OBVIOUS
<1> USE StoreAssumption
<1>1. /\ product \in [Products -> ProductStatus] /\ doomed \subseteq Products
      /\ placement \in [Orders -> {"none", "session", "placed", "failed"}]
      /\ status \in [Orders -> OrderStatus] /\ invoice \subseteq Orders
  BY DEF Init, ProductStatus, OrderStatus
<1>2. /\ stripe \in [Orders -> PaymentStatus] /\ invoiced \subseteq Orders
      /\ emitted \subseteq Orders \X EventKinds /\ acked \subseteq emitted
      /\ access \subseteq Contacts \X Products
      /\ granted \subseteq Contacts \X Products
      /\ revoked \subseteq Contacts \X Products
      /\ verified \subseteq Contacts
  BY DEF Init, PaymentStatus
<1>3. /\ pc \in [Handlers -> {"idle", "committed"} \cup InTransaction]
      /\ ord \in [Handlers -> Orders \cup {NoOrder}]
      /\ \A h \in Handlers : pc[h] # "idle" => ord[h] \in Orders
      /\ via \in [Handlers -> EventKinds \cup {"api"}]
      /\ row \in [Handlers -> [status : OrderStatus, invoice : BOOLEAN]]
      /\ seen \in [Handlers -> [pay : PaymentStatus, invoice : BOOLEAN]]
      /\ missing \in [Handlers -> SUBSET (Contacts \X Products)]
  BY DEF Init, InTransaction, NoRow, NotSeen, OrderStatus, PaymentStatus
<1>4. /\ outbox \in [Orders -> Nat] /\ queue \in [Orders -> Nat]
      /\ emailed \subseteq Orders /\ sales \in [Orders -> Nat]
  BY DEF Init
<1> QED
  BY <1>1, <1>2, <1>3, <1>4 DEF TypeOK

LEMMA ReleaseType ==
    ASSUME TypeOK, NEW h \in Handlers, Release(h)
    PROVE  /\ pc' \in [Handlers -> {"idle", "committed"} \cup InTransaction]
           /\ ord' \in [Handlers -> Orders \cup {NoOrder}]
           /\ \A g \in Handlers : pc'[g] # "idle" => ord'[g] \in Orders
           /\ via' \in [Handlers -> EventKinds \cup {"api"}]
           /\ row' \in [Handlers -> [status : OrderStatus, invoice : BOOLEAN]]
           /\ seen' \in [Handlers -> [pay : PaymentStatus, invoice : BOOLEAN]]
           /\ missing' \in [Handlers -> SUBSET (Contacts \X Products)]
<1>1. NoRow \in [status : OrderStatus, invoice : BOOLEAN]
  BY DEF NoRow, OrderStatus
<1>2. NotSeen \in [pay : PaymentStatus, invoice : BOOLEAN]
  BY DEF NotSeen, PaymentStatus
<1> QED
  BY <1>1, <1>2 DEF Release, TypeOK

LEMMA AcknowledgeType ==
    ASSUME TypeOK, NEW h \in Handlers, Acknowledge(h), UNCHANGED emitted
    PROVE  acked' \subseteq emitted'
  BY DEF TypeOK, Acknowledge

LEMMA TypeStep == TypeOK /\ [Next]_vars => TypeOK'
<1> SUFFICES ASSUME TypeOK, [Next]_vars PROVE TypeOK'
  OBVIOUS
<1> USE StoreAssumption DEF TypeOK, ProductStatus, OrderStatus, PaymentStatus, EventKinds, InTransaction
<1>1. ASSUME NEW o \in Orders, OrderStep(o) PROVE TypeOK'
  <2>1. CASE OpenSession(o)
    BY <2>1 DEF OpenSession
  <2>2. CASE InsertOrder(o)
    BY <2>2 DEF InsertOrder
  <2>3. CASE AbandonOrder(o)
    BY <2>3 DEF AbandonOrder
  <2>4. CASE CancelOrder(o)
    BY <2>4 DEF CancelOrder, Cancelable
  <2>5. CASE Checkout(o)
    BY <2>5 DEF Checkout, Move
  <2>6. CASE Settle(o)
    <3>1. CASE Move(o, "processing", "succeeded", {})
      BY <3>1 DEF Move
    <3>2. CASE Move(o, "processing", "canceled", {})
      BY <3>2 DEF Move
    <3> QED
      BY <2>6, <3>1, <3>2 DEF Settle
  <2>7. CASE Expire(o)
    BY <2>7 DEF Expire, Move
  <2>8. CASE MakeInvoice(o)
    BY <2>8 DEF MakeInvoice
  <2>9. CASE PushConfirmation(o)
    BY <2>9 DEF PushConfirmation
  <2>10. CASE LosePush(o)
    BY <2>10 DEF LosePush
  <2>11. CASE \E sent, done \in BOOLEAN : RunConfirmation(o, sent, done)
    BY <2>11 DEF RunConfirmation
  <2> QED
    BY <1>1, <2>1, <2>2, <2>3, <2>4, <2>5, <2>6, <2>7, <2>8, <2>9, <2>10, <2>11 DEF OrderStep
<1>2. ASSUME NEW p \in Products, StaffStep(p) PROVE TypeOK'
  <2>1. ASSUME NEW C \in SUBSET Contacts, GiveContactsAccessToProduct(C, p) PROVE TypeOK'
    BY <2>1 DEF GiveContactsAccessToProduct
  <2>2. ASSUME NEW C \in SUBSET Contacts, RemoveAccessToProduct(C, p) PROVE TypeOK'
    BY <2>2 DEF RemoveAccessToProduct
  <2>3. CASE UpdateProduct(p)
    BY <2>3 DEF UpdateProduct
  <2>4. CASE CheckProduct(p)
    BY <2>4 DEF CheckProduct
  <2>5. CASE DeleteProduct(p)
    BY <2>5 DEF DeleteProduct
  <2> QED
    BY <1>2, <2>1, <2>2, <2>3, <2>4, <2>5 DEF StaffStep
<1>3. ASSUME NEW h \in Handlers, HandlerStep(h) PROVE TypeOK'
  <2>1. ASSUME NEW o \in Orders, NEW src \in EventKinds \cup {"api"}, Begin(h, o, src) PROVE TypeOK'
    BY <2>1 DEF Begin
  <2>2. CASE Fetch(h)
    <3>1. [pay |-> stripe[ord[h]], invoice |-> ord[h] \in invoiced]
             \in [pay : PaymentStatus, invoice : BOOLEAN]
      BY <2>2 DEF Fetch
    <3>2. seen' \in [Handlers -> [pay : PaymentStatus, invoice : BOOLEAN]]
      BY <2>2, <3>1 DEF Fetch
    <3> QED
      BY <2>2, <3>2 DEF Fetch
  <2>3. CASE SaveInvoice(h)
    BY <2>3, ReleaseType, AcknowledgeType DEF SaveInvoice
  <2>4. CASE CancelUnpaid(h)
    BY <2>4, ReleaseType, AcknowledgeType DEF CancelUnpaid
  <2>5. CASE Ignore(h)
    BY <2>5, ReleaseType, AcknowledgeType DEF Ignore
  <2>6. CASE Write(h)
    <3>1. Bought(ord[h]) \in SUBSET (Contacts \X Products)
      BY <2>6 DEF Write, Bought
    <3>2. missing' \in [Handlers -> SUBSET (Contacts \X Products)]
      BY <2>6, <3>1 DEF Write
    <3> QED
      BY <2>6, <3>2 DEF Write
  <2>7. CASE Commit(h)
    <3>1. ord[h] \in Orders /\ Buyer[ord[h]] \in Contacts
      BY <2>7 DEF Commit
    <3>2. status' \in [Orders -> OrderStatus] /\ outbox' \in [Orders -> Nat]
      BY <2>7, <3>1 DEF Commit
    <3>3. access' \subseteq Contacts \X Products /\ verified' \subseteq Contacts
      BY <2>7, <3>1 DEF Commit
    <3>4. pc' \in [Handlers -> {"idle", "committed"} \cup InTransaction]
      BY <2>7 DEF Commit
    <3>5. \A g \in Handlers : pc'[g] # "idle" => ord'[g] \in Orders
      BY <2>7, <3>1 DEF Commit
    <3>6. invoice' \subseteq Orders
      BY <2>7, <3>1 DEF Commit
    <3> QED
      BY <2>7, <3>2, <3>3, <3>4, <3>5, <3>6 DEF Commit
  <2>8. CASE Conflict(h)
    BY <2>8, ReleaseType DEF Conflict, GiveUp
  <2>9. CASE Return(h)
    BY <2>9, ReleaseType, AcknowledgeType DEF Return
  <2>10. CASE Fail(h)
    BY <2>10, ReleaseType DEF Fail, GiveUp
  <2> QED
    BY <1>3, <2>1, <2>2, <2>3, <2>4, <2>5, <2>6, <2>7, <2>8, <2>9, <2>10 DEF HandlerStep, Advance, Deliver, CompleteOrder
<1>4. CASE UNCHANGED vars
  BY <1>4 DEF vars
<1> QED
  BY <1>1, <1>2, <1>3, <1>4 DEF Next

-----------------------------------------------------------------------------
(* The lock.  A transaction of completeOrder ends by releasing its handler *)
(* or by committing; what others do to a row, they do without its lock.    *)

\* Ending one transaction leaves the others what they have.
LEMMA ReleaseKeepsLocks ==
    ASSUME TypeOK, LockIsHeld, NEW h \in Handlers, pc[h] # "idle", Release(h),
           \A o \in Orders \ {ord[h]} :
               status'[o] = status[o] /\ (o \in invoice' <=> o \in invoice),
           pc[h] = "committed" =>
               UNCHANGED <<status, invoice>>
    PROVE  LockIsHeld'
<1> SUFFICES ASSUME NEW g \in Handlers, pc'[g] \in InTransaction
             PROVE  /\ status'[ord'[g]] # "none"
                    /\ row'[g].status = status'[ord'[g]]
                    /\ row'[g].invoice <=> ord'[g] \in invoice'
                    /\ \A k \in Handlers :
                         pc'[k] \in InTransaction /\ ord'[k] = ord'[g] => k = g
  BY DEF LockIsHeld
<1>1. g # h /\ pc'[g] = pc[g] /\ ord'[g] = ord[g] /\ row'[g] = row[g]
  BY DEF Release, TypeOK, InTransaction
<1>2. ord[g] \in Orders
  BY <1>1 DEF TypeOK, InTransaction
<1>3. status'[ord[g]] = status[ord[g]] /\ (ord[g] \in invoice' <=> ord[g] \in invoice)
  <2>1. CASE pc[h] = "committed"
    BY <2>1
  <2>2. CASE pc[h] \in InTransaction
    BY <1>1, <1>2, <2>2 DEF LockIsHeld
  <2> QED
    BY <2>1, <2>2 DEF TypeOK, InTransaction
<1>4. \A k \in Handlers : pc'[k] \in InTransaction => k # h /\ pc'[k] = pc[k] /\ ord'[k] = ord[k]
  BY DEF Release, TypeOK, InTransaction
<1> QED
  BY <1>1, <1>3, <1>4 DEF LockIsHeld

LEMMA PlacedStep ==
    TypeOK /\ RowsArePlaced /\ LockIsHeld /\ [Next]_vars => RowsArePlaced'
<1> SUFFICES ASSUME TypeOK, RowsArePlaced, LockIsHeld, [Next]_vars PROVE RowsArePlaced'
  OBVIOUS
<1>0. CASE UNCHANGED <<placement, status, stripe>>
  BY <1>0 DEF RowsArePlaced
<1>1. ASSUME NEW o \in Orders, OrderStep(o) PROVE RowsArePlaced'
  <2>1. CASE OpenSession(o) \/ InsertOrder(o) \/ AbandonOrder(o)
    BY <2>1 DEF OpenSession, InsertOrder, AbandonOrder, RowsArePlaced, TypeOK
  <2>2. CASE CancelOrder(o)
    BY <2>2 DEF CancelOrder, Cancelable, RowsArePlaced, TypeOK
  <2>3. CASE Checkout(o) \/ Settle(o) \/ Expire(o)
    <3>1. stripe[o] # "none" /\ UNCHANGED <<placement, status>>
      BY <2>3 DEF Checkout, Settle, Expire, Move
    <3>2. \A x \in Orders \ {o} : stripe'[x] = stripe[x]
      BY <2>3 DEF Checkout, Settle, Expire, Move, TypeOK
    <3> QED
      BY <3>1, <3>2 DEF RowsArePlaced
  <2>4. CASE MakeInvoice(o) \/ PushConfirmation(o) \/ LosePush(o)
    BY <1>0, <2>4 DEF MakeInvoice, PushConfirmation, LosePush
  <2>5. CASE \E sent, done \in BOOLEAN : RunConfirmation(o, sent, done)
    BY <1>0, <2>5 DEF RunConfirmation
  <2> QED
    BY <1>1, <2>1, <2>2, <2>3, <2>4, <2>5 DEF OrderStep
<1>2. ASSUME NEW p \in Products, StaffStep(p) PROVE RowsArePlaced'
  BY <1>0, <1>2 DEF StaffStep, GiveContactsAccessToProduct, RemoveAccessToProduct,
     UpdateProduct, CheckProduct, DeleteProduct
<1>3. ASSUME NEW h \in Handlers, HandlerStep(h) PROVE RowsArePlaced'
  <2>1. CASE CancelUnpaid(h) \/ Commit(h)
    <3>1. ord[h] \in Orders /\ status[ord[h]] # "none"
      BY <2>1 DEF CancelUnpaid, Commit, LockIsHeld, TypeOK, InTransaction
    <3> QED
      BY <2>1, <3>1 DEF CancelUnpaid, Commit, RowsArePlaced, TypeOK
  <2>2. CASE ~(CancelUnpaid(h) \/ Commit(h))
    BY <1>0, <1>3, <2>2 DEF HandlerStep, Deliver, CompleteOrder, Begin, Advance,
       Fetch, SaveInvoice, Ignore, Write, Conflict, Return, Fail, GiveUp
  <2> QED
    BY <2>1, <2>2
<1>4. CASE UNCHANGED vars
  BY <1>0, <1>4 DEF vars
<1> QED
  BY <1>1, <1>2, <1>3, <1>4 DEF Next

LEMMA LockStep ==
    TypeOK /\ RowsArePlaced /\ LockIsHeld /\ [Next]_vars => LockIsHeld'
<1> SUFFICES ASSUME TypeOK, RowsArePlaced, LockIsHeld, [Next]_vars PROVE LockIsHeld'
  OBVIOUS
<1>0. CASE UNCHANGED <<pc, ord, row, status, invoice>>
  BY <1>0 DEF LockIsHeld
<1>1. ASSUME NEW o \in Orders, OrderStep(o) PROVE LockIsHeld'
  <2>1. CASE InsertOrder(o)
    <3>1. \A h \in Handlers : pc[h] \in InTransaction => ord[h] \in Orders \ {o}
      BY <2>1 DEF InsertOrder, RowsArePlaced, LockIsHeld, TypeOK, InTransaction
    <3> QED
      BY <2>1, <3>1 DEF InsertOrder, LockIsHeld, TypeOK
  <2>2. CASE CancelOrder(o)
    <3>1. \A h \in Handlers : pc[h] \in InTransaction => ord[h] \in Orders \ {o}
      BY <2>2 DEF CancelOrder, RowLocked, TypeOK, InTransaction
    <3> QED
      BY <2>2, <3>1 DEF CancelOrder, LockIsHeld, TypeOK
  <2>3. CASE OpenSession(o) \/ AbandonOrder(o) \/ Checkout(o) \/ Settle(o) \/ Expire(o)
    BY <1>0, <2>3 DEF OpenSession, AbandonOrder, Checkout, Settle, Expire, Move
  <2>4. CASE MakeInvoice(o) \/ PushConfirmation(o) \/ LosePush(o)
    BY <1>0, <2>4 DEF MakeInvoice, PushConfirmation, LosePush
  <2>5. CASE \E sent, done \in BOOLEAN : RunConfirmation(o, sent, done)
    BY <1>0, <2>5 DEF RunConfirmation
  <2> QED
    BY <1>1, <2>1, <2>2, <2>3, <2>4, <2>5 DEF OrderStep
<1>2. ASSUME NEW p \in Products, StaffStep(p) PROVE LockIsHeld'
  BY <1>0, <1>2 DEF StaffStep, GiveContactsAccessToProduct, RemoveAccessToProduct,
     UpdateProduct, CheckProduct, DeleteProduct
<1>3. ASSUME NEW h \in Handlers, HandlerStep(h) PROVE LockIsHeld'
  <2>1. ASSUME NEW o \in Orders, NEW src, Begin(h, o, src) PROVE LockIsHeld'
    <3>1. \A g \in Handlers : pc[g] \in InTransaction => ord[g] # o /\ g # h
      BY <2>1 DEF Begin, RowLocked, InTransaction
    <3>2. \A g \in Handlers \ {h} : pc'[g] = pc[g] /\ ord'[g] = ord[g] /\ row'[g] = row[g]
      BY <2>1 DEF Begin, TypeOK
    <3>3. /\ ord'[h] = o /\ UNCHANGED <<status, invoice>> /\ status[o] # "none"
          /\ row'[h].status = status[o] /\ (row'[h].invoice <=> o \in invoice)
      BY <2>1 DEF Begin, TypeOK
    <3> QED
      BY <3>1, <3>2, <3>3 DEF LockIsHeld
  <2>2. CASE Fetch(h) \/ Write(h)
    <3>1. \A g \in Handlers : pc'[g] \in InTransaction <=> pc[g] \in InTransaction
      BY <2>2 DEF Fetch, Write, TypeOK, InTransaction
    <3>2. UNCHANGED <<ord, row, status, invoice>>
      BY <2>2 DEF Fetch, Write
    <3> QED
      BY <3>1, <3>2 DEF LockIsHeld
  <2>3. CASE SaveInvoice(h)
    BY <2>3, ReleaseKeepsLocks DEF SaveInvoice
  <2>4. CASE CancelUnpaid(h)
    BY <2>4, ReleaseKeepsLocks DEF CancelUnpaid, TypeOK
  <2>5. CASE Ignore(h) \/ Conflict(h) \/ Return(h) \/ Fail(h)
    BY <2>5, ReleaseKeepsLocks DEF Ignore, Conflict, Return, Fail, GiveUp
  <2>6. CASE Commit(h)
    <3>1. \A g \in Handlers : pc'[g] \in InTransaction => g # h /\ pc[g] \in InTransaction
      BY <2>6 DEF Commit, TypeOK, InTransaction
    <3>2. \A g \in Handlers : pc'[g] \in InTransaction => ord[g] \in Orders /\ ord[g] # ord[h]
      BY <2>6, <3>1 DEF Commit, LockIsHeld, TypeOK, InTransaction
    <3>3. /\ UNCHANGED <<ord, row>>
          /\ \A o \in Orders \ {ord[h]} :
               status'[o] = status[o] /\ (o \in invoice' <=> o \in invoice)
      BY <2>6 DEF Commit, TypeOK
    <3> QED
      BY <3>1, <3>2, <3>3 DEF LockIsHeld
  <2> QED
    BY <1>3, <2>1, <2>2, <2>3, <2>4, <2>5, <2>6
    DEF HandlerStep, Advance, Deliver, CompleteOrder
<1>4. CASE UNCHANGED vars
  BY <1>0, <1>4 DEF vars
<1> QED
  BY <1>1, <1>2, <1>3, <1>4 DEF Next

-----------------------------------------------------------------------------
(* Payments and access.                                                    *)

\* Nothing undoes a payment.
LEMMA PaidGrows == TypeOK /\ RowsArePlaced /\ [Next]_vars => Paid \subseteq Paid'
<1> SUFFICES ASSUME TypeOK, RowsArePlaced, [Next]_vars PROVE Paid \subseteq Paid'
  OBVIOUS
<1>0. CASE UNCHANGED stripe
  BY <1>0 DEF Paid
<1>1. ASSUME NEW o \in Orders, OrderStep(o) PROVE Paid \subseteq Paid'
  <2>1. ASSUME NEW from \in PaymentStatus \ {"succeeded"}, NEW to, NEW kinds,
               Move(o, from, to, kinds)
        PROVE  Paid \subseteq Paid'
    BY <2>1 DEF Move, Paid, TypeOK
  <2>2. CASE Checkout(o) \/ Settle(o) \/ Expire(o)
    BY <2>1, <2>2 DEF Checkout, Settle, Expire, PaymentStatus
  <2>3. CASE OpenSession(o)
    BY <2>3 DEF OpenSession, RowsArePlaced, Paid, TypeOK
  <2>4. CASE InsertOrder(o) \/ AbandonOrder(o) \/ CancelOrder(o) \/ MakeInvoice(o)
    BY <2>4, <1>0 DEF InsertOrder, AbandonOrder, CancelOrder, MakeInvoice
  <2>5. CASE PushConfirmation(o) \/ LosePush(o)
    BY <2>5, <1>0 DEF PushConfirmation, LosePush
  <2>6. CASE \E sent, done \in BOOLEAN : RunConfirmation(o, sent, done)
    BY <2>6, <1>0 DEF RunConfirmation
  <2> QED
    BY <1>1, <2>2, <2>3, <2>4, <2>5, <2>6 DEF OrderStep
<1>2. ASSUME NEW p \in Products, StaffStep(p) PROVE Paid \subseteq Paid'
  BY <1>0, <1>2 DEF StaffStep, GiveContactsAccessToProduct, RemoveAccessToProduct,
     UpdateProduct, CheckProduct, DeleteProduct
<1>3. ASSUME NEW h \in Handlers, HandlerStep(h) PROVE Paid \subseteq Paid'
  BY <1>0, <1>3 DEF HandlerStep, Deliver, CompleteOrder, Begin, Advance, Fetch,
     SaveInvoice, CancelUnpaid, Ignore, Write, Commit, Conflict, Return, Fail, GiveUp
<1>4. CASE UNCHANGED vars
  BY <1>0, <1>4 DEF vars
<1> QED
  BY <1>1, <1>2, <1>3, <1>4 DEF Next

\* An order is completed by the commit of its handler only.
LEMMA CompletedBy ==
    ASSUME TypeOK, [Next]_vars
    PROVE  \/ Completed' \subseteq Completed
           \/ \E h \in Handlers : Commit(h) /\ Completed' = Completed \cup {ord[h]}
<1> DEFINE Goal == \/ Completed' \subseteq Completed
                  \/ \E h \in Handlers : Commit(h) /\ Completed' = Completed \cup {ord[h]}
<1>0. CASE UNCHANGED status
  BY <1>0 DEF Completed
<1>1. ASSUME NEW o \in Orders, OrderStep(o) PROVE Goal
  <2>1. CASE InsertOrder(o) \/ CancelOrder(o)
    BY <2>1 DEF InsertOrder, CancelOrder, Completed, TypeOK
  <2>2. CASE ~(InsertOrder(o) \/ CancelOrder(o))
    BY <1>0, <1>1, <2>2 DEF OrderStep, OpenSession, AbandonOrder, Checkout, Settle,
       Expire, Move, MakeInvoice, PushConfirmation, LosePush, RunConfirmation
  <2> QED
    BY <2>1, <2>2
<1>2. ASSUME NEW p \in Products, StaffStep(p) PROVE Goal
  BY <1>0, <1>2 DEF StaffStep, GiveContactsAccessToProduct, RemoveAccessToProduct,
     UpdateProduct, CheckProduct, DeleteProduct
<1>3. ASSUME NEW h \in Handlers, HandlerStep(h) PROVE Goal
  <2>1. CASE Commit(h)
    <3>1. ord[h] \in Orders
      BY <2>1 DEF Commit, TypeOK
    <3>2. \A o \in Orders : o \in Completed' <=> o \in Completed \/ o = ord[h]
      BY <2>1, <3>1 DEF Commit, Completed, TypeOK
    <3>3. Completed' \subseteq Orders /\ Completed \subseteq Orders
      BY DEF Completed
    <3> QED
      BY <2>1, <3>1, <3>2, <3>3
  <2>2. CASE CancelUnpaid(h)
    BY <2>2 DEF CancelUnpaid, Completed, TypeOK
  <2>3. CASE ~(Commit(h) \/ CancelUnpaid(h))
    BY <1>0, <1>3, <2>3 DEF HandlerStep, Deliver, CompleteOrder, Begin, Advance,
       Fetch, SaveInvoice, Ignore, Write, Conflict, Return, Fail, GiveUp
  <2> QED
    BY <2>1, <2>2, <2>3
<1>4. CASE UNCHANGED vars
  BY <1>0, <1>4 DEF vars
<1> QED
  BY <1>1, <1>2, <1>3, <1>4 DEF Next

LEMMA PaymentStep ==
    TypeOK /\ RowsArePlaced /\ PaymentsAreSeen /\ WritesAreComplete /\ [Next]_vars
        => PaymentsAreSeen'
<1> SUFFICES ASSUME TypeOK, RowsArePlaced, PaymentsAreSeen, WritesAreComplete, [Next]_vars
             PROVE  PaymentsAreSeen'
  OBVIOUS
<1>a. Paid \subseteq Paid'
  BY PaidGrows
<1>b. Completed' \subseteq Paid'
  BY <1>a, CompletedBy DEF PaymentsAreSeen, WritesAreComplete, Commit
<1> DEFINE Seen(g) == pc[g] \in {"fetched", "writing"} /\ seen[g].pay = "succeeded"
                         => ord[g] \in Paid
<1>c. SUFFICES ASSUME NEW g \in Handlers PROVE Seen(g)'
  BY <1>b DEF PaymentsAreSeen
<1>d. Seen(g)
  BY DEF PaymentsAreSeen
<1>0. CASE UNCHANGED <<pc, ord, seen>>
  BY <1>0, <1>a, <1>d
<1>1. ASSUME NEW o \in Orders, OrderStep(o) PROVE Seen(g)'
  BY <1>0, <1>1 DEF OrderStep, OpenSession, InsertOrder, AbandonOrder, CancelOrder,
     Checkout, Settle, Expire, Move, MakeInvoice, PushConfirmation, LosePush, RunConfirmation
<1>2. ASSUME NEW p \in Products, StaffStep(p) PROVE Seen(g)'
  BY <1>0, <1>2 DEF StaffStep, GiveContactsAccessToProduct, RemoveAccessToProduct,
     UpdateProduct, CheckProduct, DeleteProduct
<1>3. ASSUME NEW h \in Handlers, HandlerStep(h) PROVE Seen(g)'
  <2>1. ASSUME NEW o \in Orders, NEW src, Begin(h, o, src) PROVE Seen(g)'
    BY <2>1, <1>a, <1>d DEF Begin, TypeOK
  <2>2. CASE Fetch(h)
    <3>1. CASE g = h
      BY <2>2, <3>1, <1>a DEF Fetch, Paid, TypeOK
    <3>2. CASE g # h
      BY <2>2, <3>2, <1>a, <1>d DEF Fetch, TypeOK
    <3> QED
      BY <3>1, <3>2
  <2>3. CASE Write(h) \/ Commit(h)
    BY <2>3, <1>a, <1>d DEF Write, Commit, TypeOK
  <2>4. CASE Release(h)
    BY <2>4, <1>a, <1>d DEF Release, TypeOK
  <2> QED
    BY <1>3, <2>1, <2>2, <2>3, <2>4 DEF HandlerStep, Deliver, CompleteOrder, Advance,
       SaveInvoice, CancelUnpaid, Ignore, Conflict, Return, Fail, GiveUp
<1>4. CASE UNCHANGED vars
  BY <1>0, <1>4 DEF vars
<1> QED
  BY <1>1, <1>2, <1>3, <1>4 DEF Next

\* Of what was ordered, only the staff takes access away: a product with an
\* order is not deleted.
LEMMA OnlyRevoked ==
    ASSUME TypeOK, [Next]_vars
    PROVE  /\ revoked \subseteq revoked'
           /\ \A o \in Placed : Bought(o) \cap access \subseteq access' \cup revoked'
<1> DEFINE Goal == /\ revoked \subseteq revoked'
                  /\ \A o \in Placed : Bought(o) \cap access \subseteq access' \cup revoked'
<1>0. CASE UNCHANGED <<access, revoked>>
  BY <1>0
<1>1. ASSUME NEW o \in Orders, OrderStep(o) PROVE Goal
  BY <1>0, <1>1 DEF OrderStep, OpenSession, InsertOrder, AbandonOrder, CancelOrder,
     Checkout, Settle, Expire, Move, MakeInvoice, PushConfirmation, LosePush, RunConfirmation
<1>2. ASSUME NEW p \in Products, StaffStep(p) PROVE Goal
  <2>1. ASSUME NEW C \in SUBSET Contacts,
               GiveContactsAccessToProduct(C, p) \/ RemoveAccessToProduct(C, p)
        PROVE  Goal
    BY <2>1 DEF GiveContactsAccessToProduct, RemoveAccessToProduct
  <2>2. CASE UpdateProduct(p) \/ CheckProduct(p)
    BY <2>2, <1>0 DEF UpdateProduct, CheckProduct
  <2>3. CASE DeleteProduct(p)
    <3>1. CASE Ordered(p)
      BY <2>3, <3>1, <1>0 DEF DeleteProduct
    <3>2. CASE ~Ordered(p)
      <4>1. access' = {a \in access : a[2] # p} /\ revoked' = revoked
        BY <2>3, <3>2 DEF DeleteProduct
      <4>2. ASSUME NEW o \in Placed, NEW x \in Bought(o) PROVE x[2] # p
        BY <3>2, <4>2 DEF Ordered, Bought
      <4> QED
        BY <4>1, <4>2
    <3> QED
      BY <3>1, <3>2
  <2> QED
    BY <1>2, <2>1, <2>2, <2>3 DEF StaffStep
<1>3. ASSUME NEW h \in Handlers, HandlerStep(h) PROVE Goal
  <2>1. CASE Commit(h)
    BY <2>1 DEF Commit
  <2>2. CASE ~Commit(h)
    BY <1>0, <1>3, <2>2 DEF HandlerStep, Deliver, CompleteOrder, Begin, Advance,
       Fetch, SaveInvoice, CancelUnpaid, Ignore, Write, Conflict, Return, Fail, GiveUp
  <2> QED
    BY <2>1, <2>2
<1>4. CASE UNCHANGED vars
  BY <1>0, <1>4 DEF vars
<1> QED
  BY <1>1, <1>2, <1>3, <1>4 DEF Next

\* A handler that is writing stays so, with what it has found, or stops.
LEMMA WritingBy ==
    ASSUME TypeOK, [Next]_vars, NEW g \in Handlers, pc'[g] = "writing"
    PROVE  \/ Write(g)
           \/ /\ pc[g] = "writing" /\ ord'[g] = ord[g] /\ missing'[g] = missing[g]
<1> DEFINE Goal == \/ Write(g)
                  \/ /\ pc[g] = "writing" /\ ord'[g] = ord[g] /\ missing'[g] = missing[g]
<1>0. CASE UNCHANGED <<pc, ord, missing>>
  BY <1>0
<1>1. ASSUME NEW o \in Orders, OrderStep(o) PROVE Goal
  BY <1>0, <1>1 DEF OrderStep, OpenSession, InsertOrder, AbandonOrder, CancelOrder,
     Checkout, Settle, Expire, Move, MakeInvoice, PushConfirmation, LosePush, RunConfirmation
<1>2. ASSUME NEW p \in Products, StaffStep(p) PROVE Goal
  BY <1>0, <1>2 DEF StaffStep, GiveContactsAccessToProduct, RemoveAccessToProduct,
     UpdateProduct, CheckProduct, DeleteProduct
<1>3. ASSUME NEW h \in Handlers, HandlerStep(h) PROVE Goal
  <2>1. ASSUME NEW o \in Orders, NEW src, Begin(h, o, src) PROVE Goal
    BY <2>1 DEF Begin, TypeOK
  <2>2. CASE Fetch(h) \/ Commit(h)
    BY <2>2 DEF Fetch, Commit, TypeOK
  <2>3. CASE Write(h)
    BY <2>3 DEF Write, TypeOK
  <2>4. CASE Release(h)
    BY <2>4 DEF Release, TypeOK
  <2> QED
    BY <1>3, <2>1, <2>2, <2>3, <2>4 DEF HandlerStep, Deliver, CompleteOrder, Advance,
       SaveInvoice, CancelUnpaid, Ignore, Conflict, Return, Fail, GiveUp
<1>4. CASE UNCHANGED vars
  BY <1>0, <1>4 DEF vars
<1> QED
  BY <1>1, <1>2, <1>3, <1>4 DEF Next

\* The orders being written are not completed by anybody else.
LEMMA WritesStep ==
    TypeOK /\ RowsArePlaced /\ LockIsHeld /\ PaymentsAreSeen /\ WritesAreComplete
        /\ [Next]_vars => WritesAreComplete'
<1> SUFFICES ASSUME TypeOK, RowsArePlaced, LockIsHeld, PaymentsAreSeen,
                    WritesAreComplete, [Next]_vars,
                    NEW g \in Handlers, pc'[g] = "writing"
             PROVE  /\ ord'[g] \in Paid' /\ ord'[g] \notin Completed'
                    /\ missing'[g] \subseteq Bought(ord'[g])
                    /\ Bought(ord'[g]) \subseteq access' \cup missing'[g] \cup revoked'
  BY DEF WritesAreComplete, Bought
<1>a. Paid \subseteq Paid'
  BY PaidGrows
<1>1. CASE Write(g)
  <2>1. /\ ord' = ord /\ ord[g] \in Orders /\ UNCHANGED <<status, access, revoked>>
        /\ missing'[g] = Bought(ord[g]) \ access
    BY <1>1 DEF Write, TypeOK
  <2>2. ord[g] \in Paid
    BY <1>1 DEF Write, MustComplete, PaymentsAreSeen
  <2>3. status[ord[g]] # "completed"
    <3>1. pc[g] \in InTransaction
      BY <1>1 DEF Write, InTransaction
    <3>2. row[g].status = status[ord[g]]
      BY <3>1 DEF LockIsHeld
    <3> QED
      BY <1>1, <3>2 DEF Write, MustComplete
  <2> QED
    BY <1>a, <2>1, <2>2, <2>3 DEF Completed
<1>2. CASE /\ pc[g] = "writing" /\ ord'[g] = ord[g] /\ missing'[g] = missing[g]
  <2>1. /\ ord[g] \in Paid \ Completed /\ missing[g] \subseteq Bought(ord[g])
        /\ Bought(ord[g]) \subseteq access \cup missing[g] \cup revoked
    BY <1>2 DEF WritesAreComplete
  <2>2. ord[g] \in Placed
    BY <1>2, <2>1 DEF LockIsHeld, InTransaction, Placed, Paid
  <2>3. Bought(ord[g]) \subseteq access' \cup missing[g] \cup revoked'
    BY <2>1, <2>2, OnlyRevoked
  <2>4. ord[g] \notin Completed'
    <3>1. ASSUME NEW h \in Handlers, Commit(h) PROVE ord[g] # ord[h]
      <4>1. g # h
        BY <3>1 DEF Commit, TypeOK
      <4> QED
        BY <1>2, <3>1, <4>1 DEF Commit, LockIsHeld, InTransaction
    <3> QED
      BY <2>1, <3>1, CompletedBy
  <2> QED
    BY <1>2, <1>a, <2>1, <2>3, <2>4
<1> QED
  BY <1>1, <1>2, WritingBy

\* The buyers of completed orders keep what they have, and the commit that
\* completes an order gives its buyer the rest.
LEMMA DeliveredStep ==
    TypeOK /\ WritesAreComplete /\ CompletedIsDelivered /\ [Next]_vars
        => CompletedIsDelivered'
<1> SUFFICES ASSUME TypeOK, WritesAreComplete, CompletedIsDelivered, [Next]_vars,
                    NEW o \in Completed'
             PROVE  Bought(o) \subseteq access' \cup revoked'
  BY DEF CompletedIsDelivered, Bought
<1>1. CASE o \in Completed
  <2>1. o \in Placed /\ Bought(o) \subseteq access \cup revoked
    BY <1>1 DEF Completed, Placed, CompletedIsDelivered
  <2> QED
    BY <2>1, OnlyRevoked
<1>2. CASE \E h \in Handlers : Commit(h) /\ o = ord[h]
  BY <1>2 DEF Commit, WritesAreComplete
<1> QED
  BY <1>1, <1>2, CompletedBy

\* New access comes from the staff or from the commit of a paid order.
LEMMA EarnedStep ==
    TypeOK /\ RowsArePlaced /\ WritesAreComplete /\ AccessIsEarned /\ [Next]_vars
        => AccessIsEarned'
<1> SUFFICES ASSUME TypeOK, RowsArePlaced, WritesAreComplete, AccessIsEarned, [Next]_vars
             PROVE  AccessIsEarned'
  OBVIOUS
<1> DEFINE Sold == UNION {Bought(o) : o \in Paid}
<1>a. Sold \subseteq Sold'
  BY PaidGrows DEF Bought
<1>0. CASE access' \subseteq access /\ granted \subseteq granted'
  BY <1>0, <1>a DEF AccessIsEarned
<1>1. ASSUME NEW o \in Orders, OrderStep(o) PROVE AccessIsEarned'
  BY <1>0, <1>1 DEF OrderStep, OpenSession, InsertOrder, AbandonOrder, CancelOrder,
     Checkout, Settle, Expire, Move, MakeInvoice, PushConfirmation, LosePush, RunConfirmation
<1>2. ASSUME NEW p \in Products, StaffStep(p) PROVE AccessIsEarned'
  <2>1. ASSUME NEW C \in SUBSET Contacts, GiveContactsAccessToProduct(C, p)
        PROVE  AccessIsEarned'
    BY <2>1, <1>a DEF GiveContactsAccessToProduct, AccessIsEarned
  <2>2. ASSUME NEW C \in SUBSET Contacts, RemoveAccessToProduct(C, p)
        PROVE  AccessIsEarned'
    BY <2>2, <1>0 DEF RemoveAccessToProduct
  <2>3. CASE UpdateProduct(p) \/ CheckProduct(p) \/ DeleteProduct(p)
    BY <2>3, <1>0 DEF UpdateProduct, CheckProduct, DeleteProduct
  <2> QED
    BY <1>2, <2>1, <2>2, <2>3 DEF StaffStep
<1>3. ASSUME NEW h \in Handlers, HandlerStep(h) PROVE AccessIsEarned'
  <2>1. CASE Commit(h)
    <3>1. missing[h] \subseteq Sold
      BY <2>1 DEF Commit, WritesAreComplete
    <3> QED
      BY <2>1, <3>1, <1>a DEF Commit, AccessIsEarned
  <2>2. CASE ~Commit(h)
    BY <1>0, <1>3, <2>2 DEF HandlerStep, Deliver, CompleteOrder, Begin, Advance,
       Fetch, SaveInvoice, CancelUnpaid, Ignore, Write, Conflict, Return, Fail, GiveUp
  <2> QED
    BY <2>1, <2>2
<1>4. CASE UNCHANGED vars
  BY <1>0, <1>4 DEF vars
<1> QED
  BY <1>1, <1>2, <1>3, <1>4 DEF Next

-----------------------------------------------------------------------------
(* Completion: it is final, and happens once.                              *)

LEMMA CompletedStays ==
    ASSUME TypeOK, RowsArePlaced, LockIsHeld, [Next]_vars
    PROVE  /\ Completed \subseteq Completed'
           /\ invoice \subseteq invoice'
<1> DEFINE Goal == Completed \subseteq Completed' /\ invoice \subseteq invoice'
<1>0. CASE UNCHANGED <<status, invoice>>
  BY <1>0 DEF Completed
<1>1. ASSUME NEW o \in Orders, OrderStep(o) PROVE Goal
  <2>1. CASE InsertOrder(o)
    BY <2>1 DEF InsertOrder, RowsArePlaced, Completed, TypeOK
  <2>2. CASE CancelOrder(o)
    BY <2>2 DEF CancelOrder, Cancelable, Completed, TypeOK
  <2>3. CASE ~(InsertOrder(o) \/ CancelOrder(o))
    BY <1>0, <1>1, <2>3 DEF OrderStep, OpenSession, AbandonOrder, Checkout, Settle,
       Expire, Move, MakeInvoice, PushConfirmation, LosePush, RunConfirmation
  <2> QED
    BY <2>1, <2>2, <2>3
<1>2. ASSUME NEW p \in Products, StaffStep(p) PROVE Goal
  BY <1>0, <1>2 DEF StaffStep, GiveContactsAccessToProduct, RemoveAccessToProduct,
     UpdateProduct, CheckProduct, DeleteProduct
<1>3. ASSUME NEW h \in Handlers, HandlerStep(h) PROVE Goal
  <2>1. CASE Commit(h)
    BY <2>1 DEF Commit, Completed, TypeOK
  <2>2. CASE CancelUnpaid(h)
    <3>1. status[ord[h]] = "pending"
      BY <2>2 DEF CancelUnpaid, LockIsHeld, InTransaction
    <3> QED
      BY <2>2, <3>1 DEF CancelUnpaid, Completed, TypeOK
  <2>3. CASE SaveInvoice(h)
    BY <2>3 DEF SaveInvoice, Completed
  <2>4. CASE ~(Commit(h) \/ CancelUnpaid(h) \/ SaveInvoice(h))
    BY <1>0, <1>3, <2>4 DEF HandlerStep, Deliver, CompleteOrder, Begin, Advance,
       Fetch, Ignore, Write, Conflict, Return, Fail, GiveUp
  <2> QED
    BY <2>1, <2>2, <2>3, <2>4
<1>4. CASE UNCHANGED vars
  BY <1>0, <1>4 DEF vars
<1> QED
  BY <1>1, <1>2, <1>3, <1>4 DEF Next

\* A handler has committed, or commits now.
LEMMA CommittedBy ==
    ASSUME TypeOK, [Next]_vars, NEW g \in Handlers, pc'[g] = "committed"
    PROVE  ord'[g] = ord[g] /\ (pc[g] = "committed" \/ Commit(g))
<1> DEFINE Goal == ord'[g] = ord[g] /\ (pc[g] = "committed" \/ Commit(g))
<1>0. CASE UNCHANGED <<pc, ord>>
  BY <1>0
<1>1. ASSUME NEW o \in Orders, OrderStep(o) PROVE Goal
  BY <1>0, <1>1 DEF OrderStep, OpenSession, InsertOrder, AbandonOrder, CancelOrder,
     Checkout, Settle, Expire, Move, MakeInvoice, PushConfirmation, LosePush, RunConfirmation
<1>2. ASSUME NEW p \in Products, StaffStep(p) PROVE Goal
  BY <1>0, <1>2 DEF StaffStep, GiveContactsAccessToProduct, RemoveAccessToProduct,
     UpdateProduct, CheckProduct, DeleteProduct
<1>3. ASSUME NEW h \in Handlers, HandlerStep(h) PROVE Goal
  <2>1. ASSUME NEW o \in Orders, NEW src, Begin(h, o, src) PROVE Goal
    BY <2>1 DEF Begin, TypeOK
  <2>2. CASE Fetch(h) \/ Write(h) \/ Commit(h)
    BY <2>2 DEF Fetch, Write, Commit, TypeOK
  <2>3. CASE Release(h)
    BY <2>3 DEF Release, TypeOK
  <2> QED
    BY <1>3, <2>1, <2>2, <2>3 DEF HandlerStep, Deliver, CompleteOrder, Advance,
       SaveInvoice, CancelUnpaid, Ignore, Conflict, Return, Fail, GiveUp
<1>4. CASE UNCHANGED vars
  BY <1>0, <1>4 DEF vars
<1> QED
  BY <1>1, <1>2, <1>3, <1>4 DEF Next

LEMMA CommittedStep ==
    TypeOK /\ RowsArePlaced /\ LockIsHeld /\ CommittedIsCompleted /\ [Next]_vars
        => CommittedIsCompleted'
<1> SUFFICES ASSUME TypeOK, RowsArePlaced, LockIsHeld, CommittedIsCompleted, [Next]_vars,
                    NEW g \in Handlers, pc'[g] = "committed"
             PROVE  ord'[g] \in Completed'
  BY DEF CommittedIsCompleted
<1>1. CASE pc[g] = "committed"
  BY <1>1, CommittedBy, CompletedStays DEF CommittedIsCompleted
<1>2. CASE Commit(g)
  BY <1>2 DEF Commit, Completed, TypeOK
<1> QED
  BY <1>1, <1>2, CommittedBy

\* What an order's completion has led to, for one order.
Once(o) ==
    /\ sales[o] <= 1 /\ outbox[o] + queue[o] <= 1
    /\ Returning(o) # {} => sales[o] = 0
    /\ \A g, h \in Returning(o) : g = h
    /\ sales[o] > 0 \/ outbox[o] > 0 \/ queue[o] > 0 \/ o \in emailed
           => o \in Completed

LEMMA OnceIsBoth == TypeOK => ((\A o \in Orders : Once(o)) <=> CompletedOnce /\ ConfirmedIsCompleted)
  BY DEF Once, CompletedOnce, ConfirmedIsCompleted, Completed

LEMMA OnceStep ==
    ASSUME TypeOK, RowsArePlaced, LockIsHeld, WritesAreComplete, CommittedIsCompleted,
           \A o \in Orders : Once(o), [Next]_vars
    PROVE  \A o \in Orders : Once(o)'
<1> TAKE o \in Orders
<1>a. /\ Once(o) /\ (o \in Completed => o \in Completed')
      /\ sales[o] \in Nat /\ outbox[o] \in Nat /\ queue[o] \in Nat
  BY CompletedStays DEF TypeOK
<1>0. CASE UNCHANGED <<sales, outbox, queue, emailed, pc, ord>>
  <2>1. Returning(o)' = Returning(o)
    BY <1>0 DEF Returning
  <2> QED
    BY <1>0, <1>a, <2>1 DEF Once
<1>1. ASSUME NEW x \in Orders, OrderStep(x) PROVE Once(o)'
  <2>1. CASE PushConfirmation(x) \/ LosePush(x)
             \/ \E sent, done \in BOOLEAN : RunConfirmation(x, sent, done)
    <3>1. Returning(o)' = Returning(o) /\ sales'[o] = sales[o]
      BY <2>1 DEF PushConfirmation, LosePush, RunConfirmation, Returning
    <3>2. /\ outbox'[o] \in Nat /\ queue'[o] \in Nat
          /\ outbox'[o] + queue'[o] <= outbox[o] + queue[o]
          /\ outbox'[o] > 0 \/ queue'[o] > 0 \/ o \in emailed'
                => outbox[o] > 0 \/ queue[o] > 0 \/ o \in emailed
      BY <2>1, <1>a DEF PushConfirmation, LosePush, RunConfirmation, TypeOK
    <3> QED
      BY <1>a, <3>1, <3>2 DEF Once
  <2>2. CASE ~(PushConfirmation(x) \/ LosePush(x)
               \/ \E sent, done \in BOOLEAN : RunConfirmation(x, sent, done))
    BY <1>0, <1>1, <2>2 DEF OrderStep, OpenSession, InsertOrder, AbandonOrder,
       CancelOrder, Checkout, Settle, Expire, Move, MakeInvoice
  <2> QED
    BY <2>1, <2>2
<1>2. ASSUME NEW p \in Products, StaffStep(p) PROVE Once(o)'
  BY <1>0, <1>2 DEF StaffStep, GiveContactsAccessToProduct, RemoveAccessToProduct,
     UpdateProduct, CheckProduct, DeleteProduct
<1>3. ASSUME NEW h \in Handlers, HandlerStep(h) PROVE Once(o)'
  <2>1. CASE Commit(h)
    <3>1. ord[h] \in Orders /\ ord[h] \notin Completed /\ UNCHANGED <<ord, sales, queue, emailed>>
      BY <2>1 DEF Commit, WritesAreComplete, TypeOK
    <3>2. CASE o = ord[h]
      <4>1. sales[o] = 0 /\ outbox[o] = 0 /\ queue[o] = 0 /\ o \notin emailed
        BY <1>a, <3>1, <3>2 DEF Once
      <4>2. Returning(o) = {}
        BY <3>1, <3>2 DEF Returning, CommittedIsCompleted
      <4>3. \A g \in Returning(o)' : g = h
        BY <2>1, <4>2 DEF Commit, Returning, TypeOK
      <4>4. outbox'[o] = 1 /\ o \in Completed'
        BY <2>1, <3>1, <3>2, <4>1 DEF Commit, Completed, TypeOK
      <4> QED
        BY <3>1, <4>1, <4>3, <4>4 DEF Once
    <3>3. CASE o # ord[h]
      <4>1. Returning(o)' = Returning(o) /\ outbox'[o] = outbox[o]
        BY <2>1, <3>3 DEF Commit, Returning, TypeOK
      <4> QED
        BY <1>a, <3>1, <4>1 DEF Once
    <3> QED
      BY <3>2, <3>3
  <2>2. CASE Return(h)
    <3>1. /\ ord[h] \in Orders /\ h \in Returning(ord[h]) /\ ord[h] \in Completed
          /\ UNCHANGED <<outbox, queue, emailed>>
      BY <2>2 DEF Return, Returning, CommittedIsCompleted, TypeOK
    <3>2. Returning(o)' = Returning(o) \ {h}
      BY <2>2 DEF Return, Release, Returning, TypeOK
    <3>3. CASE o = ord[h]
      <4>1. sales[o] = 0 /\ Returning(o) = {h}
        BY <1>a, <3>1, <3>3 DEF Once
      <4>2. sales'[o] = 1
        BY <2>2, <3>1, <3>3, <4>1 DEF Return, TypeOK
      <4> QED
        BY <1>a, <3>1, <3>2, <3>3, <4>1, <4>2 DEF Once
    <3>4. CASE o # ord[h]
      <4>1. sales'[o] = sales[o]
        BY <2>2, <3>4 DEF Return, TypeOK
      <4> QED
        BY <1>a, <3>1, <3>2, <4>1 DEF Once
    <3> QED
      BY <3>3, <3>4
  <2>3. ASSUME Returning(o)' \subseteq Returning(o), UNCHANGED <<sales, outbox, queue, emailed>>
        PROVE  Once(o)'
    BY <1>a, <2>3 DEF Once
  <2>4. ASSUME NEW x \in Orders, NEW src, Begin(h, x, src) PROVE Once(o)'
    <3>1. Returning(o)' \subseteq Returning(o)
      BY <2>4 DEF Begin, Returning, TypeOK
    <3> QED
      BY <2>3, <2>4, <3>1 DEF Begin
  <2>5. CASE Fetch(h) \/ Write(h)
    <3>1. Returning(o)' \subseteq Returning(o)
      BY <2>5 DEF Fetch, Write, Returning, TypeOK
    <3> QED
      BY <2>3, <2>5, <3>1 DEF Fetch, Write
  <2>6. CASE Release(h) /\ UNCHANGED <<sales, outbox, queue, emailed>>
    <3>1. Returning(o)' \subseteq Returning(o)
      BY <2>6 DEF Release, Returning, TypeOK
    <3> QED
      BY <2>3, <2>6, <3>1
  <2> QED
    BY <1>3, <2>1, <2>2, <2>4, <2>5, <2>6 DEF HandlerStep, Deliver, CompleteOrder,
       Advance, SaveInvoice, CancelUnpaid, Ignore, Conflict, Fail, GiveUp
<1>4. CASE UNCHANGED vars
  BY <1>0, <1>4 DEF vars
<1> QED
  BY <1>1, <1>2, <1>3, <1>4 DEF Next

-----------------------------------------------------------------------------
(* The theorems.                                                           *)

LEMMA InductiveInit == Init => Inductive
<1> SUFFICES ASSUME Init PROVE Inductive
  OBVIOUS
<1>1. RowsArePlaced /\ LockIsHeld /\ WritesAreComplete
  BY DEF Init, RowsArePlaced, LockIsHeld, WritesAreComplete, InTransaction
<1>2. PaymentsAreSeen /\ AccessIsEarned /\ CompletedIsDelivered /\ CommittedIsCompleted
  BY DEF Init, PaymentsAreSeen, AccessIsEarned, CompletedIsDelivered,
     CommittedIsCompleted, Completed
<1>3. ConfirmedIsCompleted /\ CompletedOnce
  BY DEF Init, ConfirmedIsCompleted, CompletedOnce, Returning
<1> QED
  BY TypeInit, <1>1, <1>2, <1>3 DEF Inductive

LEMMA InductiveStep == Inductive /\ [Next]_vars => Inductive'
<1> SUFFICES ASSUME Inductive, [Next]_vars PROVE Inductive'
  OBVIOUS
<1>1. TypeOK' /\ RowsArePlaced' /\ LockIsHeld'
  BY TypeStep, PlacedStep, LockStep DEF Inductive
<1>2. PaymentsAreSeen' /\ WritesAreComplete' /\ CommittedIsCompleted'
  BY PaymentStep, WritesStep, CommittedStep DEF Inductive
<1>3. AccessIsEarned' /\ CompletedIsDelivered'
  BY EarnedStep, DeliveredStep DEF Inductive
<1>4. ConfirmedIsCompleted' /\ CompletedOnce'
  <2>1. \A o \in Orders : Once(o)'
    BY OnceIsBoth, OnceStep DEF Inductive
  <2>2. (\A o \in Orders : Once(o)') <=> CompletedOnce' /\ ConfirmedIsCompleted'
    BY <1>1 DEF TypeOK, Once, CompletedOnce, ConfirmedIsCompleted, Completed
  <2> QED
    BY <2>1, <2>2
<1> QED
  BY <1>1, <1>2, <1>3, <1>4 DEF Inductive

\* In every reachable state a handler that holds the lock of an order knows its
\* row, what Stripe said of a payment that succeeded still holds, and so on:
\* the invariant that the others follow from (completeOrder).
THEOREM Invariance == Spec => []Inductive
  BY InductiveInit, InductiveStep, PTL DEF Spec

\* The variables keep their types, whatever the interleaving.
THEOREM TypeCorrectness == Spec => []TypeOK
<1>1. Inductive => TypeOK
  BY DEF Inductive
<1> QED
  BY Invariance, <1>1, PTL

\* Access is only had by who paid for it or was given it by the staff
\* (completeOrder, GiveContactsAccessToProduct).
THEOREM AccessEarned == Spec => []AccessIsEarned
<1>1. Inductive => AccessIsEarned
  BY DEF Inductive
<1> QED
  BY Invariance, <1>1, PTL

\* A completed order has given its buyer all it contains, but for what the
\* staff took away (completeOrder against RemoveAccessToProduct, DeleteProduct
\* and other orders).
THEOREM CompletedDelivered == Spec => []CompletedIsDelivered
<1>1. Inductive => CompletedIsDelivered
  BY DEF Inductive
<1> QED
  BY Invariance, <1>1, PTL

\* However often an order's events come, it is completed once: one confirmation
\* job and one counted sale at most, and none before its commit (completeOrder).
THEOREM CompletedAtMostOnce == Spec => [](CompletedOnce /\ ConfirmedIsCompleted)
<1>1. Inductive => CompletedOnce /\ ConfirmedIsCompleted
  BY DEF Inductive
<1> QED
  BY Invariance, <1>1, PTL

\* Nobody gets the confirmation of an order, and no sale is counted, whose
\* completion was not committed (completeOrder pushes the job in its transaction,
\* the sale is recorded after it).
THEOREM ConfirmedAfterCommit == Spec => []ConfirmedIsCompleted
  BY CompletedAtMostOnce, PTL

\* Neither a cancelation nor a late event takes a completed order back, or its
\* invoice (CancelOrder, completeOrder).
THEOREM CompletionFinal == Spec => CompletionIsFinal
<1>1. Inductive /\ [Next]_vars =>
        [/\ Completed \subseteq Completed'
         /\ (invoice \cap Completed) \subseteq invoice']_vars
  BY CompletedStays DEF Inductive
<1> QED
  BY Invariance, <1>1, PTL DEF Spec, CompletionIsFinal

-----------------------------------------------------------------------------
(* The refinement of Purchase.                                             *)

LEMMA PromiseInit == Init => Promise!Init
  BY DEF Init, Promise!Init, Paid, Completed

\* A step of the store that touches neither the payments nor the access rows
\* nor a completed order is none of Purchase.
LEMMA PromiseStutter ==
    ASSUME Paid' = Paid, Completed' = Completed, UNCHANGED <<access, granted, revoked>>
    PROVE  [Promise!Next]_(Promise!vars)
  BY DEF Promise!vars

LEMMA PromiseOrder ==
    ASSUME Inductive, NEW o \in Orders, OrderStep(o)
    PROVE  [Promise!Next]_(Promise!vars)
<1> USE DEF Inductive
<1>0. CASE UNCHANGED <<stripe, status, access, granted, revoked>>
  BY <1>0, PromiseStutter DEF Paid, Completed
<1>1. ASSUME NEW from \in PaymentStatus \ {"succeeded"}, NEW to, NEW kinds,
             Move(o, from, to, kinds)
      PROVE  [Promise!Next]_(Promise!vars)
  <2>1. UNCHANGED <<access, granted, revoked>> /\ Completed' = Completed
    BY <1>1 DEF Move, Completed
  <2>2. CASE to = "succeeded"
    <3>1. o \notin Paid
      BY <1>1 DEF Move, Paid
    <3>2. \A x \in Orders : x \in Paid' <=> x \in Paid \/ x = o
      BY <1>1, <2>2 DEF Move, Paid, TypeOK
    <3>3. Paid' = Paid \cup {o}
      BY <3>2 DEF Paid
    <3> QED
      BY <2>1, <3>1, <3>3 DEF Promise!Next, Promise!Pay
  <2>3. CASE to # "succeeded"
    <3>1. Paid' = Paid
      BY <1>1, <2>3 DEF Move, Paid, TypeOK
    <3> QED
      BY <2>1, <3>1, PromiseStutter
  <2> QED
    BY <2>2, <2>3
<1>2. CASE Checkout(o) \/ Settle(o) \/ Expire(o)
  BY <1>1, <1>2 DEF Checkout, Settle, Expire, PaymentStatus
<1>3. CASE OpenSession(o)
  <2>1. Paid' = Paid
    BY <1>3 DEF OpenSession, RowsArePlaced, Paid, TypeOK
  <2> QED
    BY <1>3, <2>1, PromiseStutter DEF OpenSession, Completed
<1>4. CASE InsertOrder(o)
  <2>1. Completed' = Completed
    BY <1>4 DEF InsertOrder, RowsArePlaced, Completed, TypeOK
  <2> QED
    BY <1>4, <2>1, PromiseStutter DEF InsertOrder, Paid
<1>5. CASE CancelOrder(o)
  <2>1. Completed' = Completed
    BY <1>5 DEF CancelOrder, Cancelable, Completed, TypeOK
  <2> QED
    BY <1>5, <2>1, PromiseStutter DEF CancelOrder, Paid
<1>6. CASE AbandonOrder(o) \/ MakeInvoice(o) \/ PushConfirmation(o) \/ LosePush(o)
  BY <1>0, <1>6 DEF AbandonOrder, MakeInvoice, PushConfirmation, LosePush
<1>7. CASE \E sent, done \in BOOLEAN : RunConfirmation(o, sent, done)
  BY <1>0, <1>7 DEF RunConfirmation
<1> QED
  BY <1>2, <1>3, <1>4, <1>5, <1>6, <1>7 DEF OrderStep

LEMMA PromiseStaff ==
    ASSUME Inductive, NEW p \in Products, StaffStep(p)
    PROVE  [Promise!Next]_(Promise!vars)
<1>1. UNCHANGED <<stripe, status>> /\ Paid' = Paid /\ Completed' = Completed
  BY DEF StaffStep, GiveContactsAccessToProduct, RemoveAccessToProduct,
     UpdateProduct, CheckProduct, DeleteProduct, Paid, Completed
<1>2. ASSUME NEW C \in SUBSET Contacts, GiveContactsAccessToProduct(C, p)
      PROVE  [Promise!Next]_(Promise!vars)
  BY <1>1, <1>2 DEF GiveContactsAccessToProduct, Promise!Next, Promise!Grant
<1>3. ASSUME NEW C \in SUBSET Contacts, RemoveAccessToProduct(C, p)
      PROVE  [Promise!Next]_(Promise!vars)
  BY <1>1, <1>3 DEF RemoveAccessToProduct, Promise!Next, Promise!Revoke
<1>4. CASE UpdateProduct(p) \/ CheckProduct(p)
  BY <1>1, <1>4, PromiseStutter DEF UpdateProduct, CheckProduct
<1>5. CASE DeleteProduct(p)
  <2>1. CASE UNCHANGED <<product, access>>
    BY <1>1, <1>5, <2>1, PromiseStutter DEF DeleteProduct
  <2>2. CASE ~Ordered(p) /\ access' = {a \in access : a[2] # p}
    <3>1. \A o \in Completed : p \notin Items[o]
      BY <2>2 DEF Ordered, Placed, Completed
    <3> QED
      BY <1>1, <1>5, <2>2, <3>1 DEF DeleteProduct, Promise!Next, Promise!Discontinue
  <2> QED
    BY <1>5, <2>1, <2>2 DEF DeleteProduct
<1> QED
  BY <1>2, <1>3, <1>4, <1>5 DEF StaffStep

LEMMA PromiseHandler ==
    ASSUME Inductive, NEW h \in Handlers, HandlerStep(h)
    PROVE  [Promise!Next]_(Promise!vars)
<1> USE DEF Inductive
<1>1. CASE Commit(h)
  <2>1. /\ ord[h] \in Orders /\ ord[h] \in Paid \ Completed
        /\ missing[h] \in SUBSET Bought(ord[h])
        /\ Bought(ord[h]) \subseteq access \cup missing[h] \cup revoked
    BY <1>1 DEF Commit, WritesAreComplete, TypeOK
  <2>2. \A x \in Orders : x \in Completed' <=> x \in Completed \/ x = ord[h]
    BY <1>1, <2>1 DEF Commit, Completed, TypeOK
  <2>3. Completed' = Completed \cup {ord[h]}
    BY <2>1, <2>2 DEF Completed
  <2>4. Paid' = Paid /\ access' = access \cup missing[h] /\ UNCHANGED <<granted, revoked>>
    BY <1>1 DEF Commit, Paid
  <2>5. Promise!Bought(ord[h]) = Bought(ord[h])
    BY DEF Bought, Promise!Bought
  <2>6. Promise!Fulfil(ord[h])
    BY <2>1, <2>3, <2>4, <2>5 DEF Promise!Fulfil
  <2> QED
    BY <2>1, <2>6 DEF Promise!Next
<1>2. CASE CancelUnpaid(h)
  <2>1. status[ord[h]] = "pending"
    BY <1>2 DEF CancelUnpaid, LockIsHeld, InTransaction
  <2>2. Completed' = Completed
    BY <1>2, <2>1 DEF CancelUnpaid, Completed, TypeOK
  <2> QED
    BY <1>2, <2>2, PromiseStutter DEF CancelUnpaid, Paid
<1>3. CASE ~(Commit(h) \/ CancelUnpaid(h))
  <2>1. UNCHANGED <<stripe, status, access, granted, revoked>>
    BY <1>3 DEF HandlerStep, Deliver, CompleteOrder, Begin, Advance,
       Fetch, SaveInvoice, Ignore, Write, Conflict, Return, Fail, GiveUp
  <2> QED
    BY <2>1, PromiseStutter DEF Paid, Completed
<1> QED
  BY <1>1, <1>2, <1>3

\* The store keeps its promise: access is what paid and completed orders and
\* the staff have made it, and every paid order is fulfilled at most once
\* (PlaceOrder, completeOrder, CancelOrder and the staff's operations).
THEOREM Refinement == Spec => Implements
<1>1. Inductive /\ [Next]_vars => [Promise!Next]_(Promise!vars)
  <2> SUFFICES ASSUME Inductive, [Next]_vars PROVE [Promise!Next]_(Promise!vars)
    OBVIOUS
  <2>1. CASE UNCHANGED vars
    BY <2>1, PromiseStutter DEF vars, Paid, Completed
  <2> QED
    BY <2>1, PromiseOrder, PromiseStaff, PromiseHandler DEF Next
<1> QED
  BY PromiseInit, Invariance, <1>1, PTL DEF Spec, Implements, Promise!Spec
=============================================================================
