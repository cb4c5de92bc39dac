--------------------------- MODULE Billing_proofs ---------------------------
(***************************************************************************)
(* Proofs about Billing, for any sets of processes, subscriptions, jobs    *)
(* and slots, any length of the month and any bound on time.               *)
(***************************************************************************)
EXTENDS Billing, TLAPS

USE DEF stripeVars, timeVars, processVars

-----------------------------------------------------------------------------
(* What the helpers return.                                                *)

Steps == {"idle", "invoice", "pay", "cancel", "subscribe", "commit",
          "checkout", "sync", "event", "item", "write"}

LEMMA FreeType ==
    /\ Blank \in Organization
    /\ \A r \in Organization : Free(r) \in Organization
  BY BillingAssumption DEF Blank, Free, Organization, Plans

\* Whoever locks the row gets a place and a copy.
LEMMA AcquireType ==
    ASSUME TypeOK, NEW x \in Requests \cup Syncs, NEW r \in Organization,
           NEW step \in Steps, Acquire(x, r, step)
    PROVE  /\ lock' \in Requests \cup Syncs \cup {None}
           /\ pc' \in [Processes -> Steps]
           /\ copy' \in [Processes -> Organization]
  BY DEF Acquire, TypeOK, Processes, Steps

LEMMA ReleaseType ==
    ASSUME TypeOK, NEW x \in Requests \cup Syncs, Release(x)
    PROVE  /\ lock' \in Requests \cup Syncs \cup {None}
           /\ pc' \in [Processes -> Steps]
           /\ copy' \in [Processes -> Organization]
  BY FreeType DEF Release, TypeOK, Processes, Steps

LEMMA GotoType ==
    ASSUME TypeOK, NEW x \in Processes, NEW step \in Steps, Goto(x, step)
    PROVE  pc' \in [Processes -> Steps]
  BY DEF Goto, TypeOK, Steps

\* An item for a period that is forward leaves such items.
LEMMA ItemMade ==
    ASSUME TypeOK, PeriodsAreForward, NEW key \in Subs \cup Jobs,
           NEW start \in Nat, NEW end \in Nat, start <= end,
           CreateItem(key, start, end)
    PROVE  /\ items' \subseteq [key : Subs \cup Jobs, start : Nat, end : Nat,
                                at : Nat]
           /\ PeriodsAreForward'
  BY DEF CreateItem, TypeOK, PeriodsAreForward

\* What the row becomes, when it is synchronised, is what Stripe has.
LEMMA SyncedAgrees ==
    ASSUME TypeOK, NEW r \in Synced(row)
    PROVE  r \in Organization /\ Agrees(r) /\ (r.usage = None \/ r.usage = row.usage)
<1>1. CASE Open = {}
  BY <1>1, FreeType DEF Synced, TypeOK, Free, Blank, Agrees
<1>2. CASE Open # {}
  <2>1. /\ r \in [customer : {row.customer}, sub : Open, plan : {"pro"},
                  slots : {row.slots} \cup {subs[k].slots : k \in WithSlots},
                  usage : {row.usage}, due : BOOLEAN]
        /\ IF Decided = {} THEN r.due = row.due
           ELSE \E k \in LastListed(Decided, r.sub) :
                    r.due = (subs[k].status = "past_due")
    BY <1>2 DEF Synced
  <2>2. r.sub \in Open /\ r.plan = "pro" /\ r.usage = row.usage
    BY <2>1
  <2>3. r \in Organization
    <3>1. Open \subseteq Subs /\ WithSlots \subseteq Subs
      BY DEF Open, WithSlots
    <3>2. {row.slots} \cup {subs[k].slots : k \in WithSlots} \subseteq Slots
      BY <3>1 DEF TypeOK, Organization
    <3>3. row.customer \in BOOLEAN /\ row.usage \in Nat \cup {None}
      BY DEF TypeOK, Organization
    <3> QED
      BY <2>1, <3>1, <3>2, <3>3 DEF Organization, Plans
  <2>4. Agrees(r)
    <3>1. r.sub # None
      BY <2>2, BillingAssumption DEF Open
    <3>2. ASSUME subs[r.sub].status \in {"active", "past_due"}
          PROVE  r.due = (subs[r.sub].status = "past_due")
      <4>1. r.sub \in Decided
        BY <3>2, <2>2 DEF Decided
      <4> QED
        BY <4>1, <2>1 DEF LastListed
    <3> QED
      BY <2>2, <3>1, <3>2 DEF Agrees
  <2> QED
    BY <2>2, <2>3, <2>4
<1> QED
  BY <1>1, <1>2

\* The period that a month's invoice starts with.
LEMMA StartType ==
    ASSUME TypeOK, IsPast(row)
    PROVE  /\ PeriodStart \in Nat /\ PeriodStart <= LastHourOfLastMonth
           /\ LastHourOfLastMonth \in Nat /\ LastHourOfLastMonth < month
           /\ LastHourOfLastMonth # None
  BY BillingAssumption
     DEF TypeOK, Organization, IsPast, PeriodStart, FirstDayOfLastMonth,
         LastHourOfLastMonth

-----------------------------------------------------------------------------
(* The types, and the items.                                               *)

LEMMA TypeInit == Init => TypeOK /\ PeriodsAreForward
<1> SUFFICES ASSUME Init PROVE TypeOK /\ PeriodsAreForward
  OBVIOUS
<1>1. Blank \in Organization /\ [Blank EXCEPT !.customer = TRUE] \in Organization
  BY FreeType DEF Organization
<1>2. row \in Organization /\ checkouts \subseteq Slots
  BY <1>1, BillingAssumption DEF Init
<1>3. subs \in [Subs -> [status : Status, slots : Slots]]
  BY BillingAssumption DEF Init, Status
<1>4. copy \in [Processes -> Organization]
  BY <1>1 DEF Init
<1>5. now \in Nat /\ month \in Nat /\ MonthLength <= month /\ month <= now
  BY BillingAssumption DEF Init
<1> QED
  BY <1>2, <1>3, <1>4, <1>5 DEF Init, TypeOK, PeriodsAreForward

LEMMA TypeRequest ==
    ASSUME Inductive, NEW x \in Requests, RequestNext(x)
    PROVE  TypeOK' /\ PeriodsAreForward'
<1> USE DEF Steps
<1>1. /\ TypeOK /\ PeriodsAreForward /\ IsPast(row)
      /\ x \in Processes /\ x \in Requests \cup Syncs
      /\ row \in Organization /\ copy[x] \in Organization
      /\ copy[x].slots \in Slots
  BY DEF Inductive, MarksArePast, Processes, TypeOK, Organization
<1>2. CASE CancelSubscription(x)
  <2>1. Free(row) \in Organization
    BY <1>1, FreeType
  <2> QED
    BY <1>1, <1>2, <2>1, AcquireType DEF CancelSubscription, TypeOK, PeriodsAreForward
<1>3. ASSUME NEW slots \in Slots, ChangeSubscription(x, slots)
      PROVE  TypeOK' /\ PeriodsAreForward'
  <2>1. [row EXCEPT !.slots = slots, !.customer = TRUE] \in Organization
    BY <1>1 DEF Organization
  <2> QED
    BY <1>1, <1>3, <2>1, AcquireType DEF ChangeSubscription, TypeOK, PeriodsAreForward
<1>4. CASE InvoiceCancellation(x)
  <2>1. row.sub \in Subs
    BY <1>1, <1>4 DEF InvoiceCancellation, Inductive, CopiesFollowStripe, Organization
  <2>2. now \in Nat /\ PeriodStart \in Nat /\ PeriodStart <= now
    BY <1>1, StartType DEF TypeOK
  <2>3. CASE Goto(x, "cancel") /\ UNCHANGED items
    BY <1>1, <1>4, <2>3, GotoType DEF InvoiceCancellation, TypeOK, PeriodsAreForward
  <2>4. CASE Goto(x, "pay") /\ CreateItem(row.sub, PeriodStart, now)
    BY <1>1, <1>4, <2>1, <2>2, <2>4, GotoType, ItemMade
       DEF InvoiceCancellation, TypeOK
  <2> QED
    BY <1>4, <2>3, <2>4 DEF InvoiceCancellation
<1>5. CASE PayInvoice(x) \/ CreateCheckout(x)
  BY <1>1, <1>5, GotoType DEF PayInvoice, CreateCheckout, TypeOK, PeriodsAreForward
<1>6. CASE CancelAtStripe(x)
  <2>1. subs' \in [Subs -> [status : Status, slots : Slots]]
    BY <1>1, <1>6 DEF CancelAtStripe, TypeOK, Status
  <2> QED
    BY <1>1, <1>6, <2>1, GotoType DEF CancelAtStripe, TypeOK, PeriodsAreForward
<1>7. ASSUME NEW k \in Subs, CreateSubscription(x, k)
      PROVE  TypeOK' /\ PeriodsAreForward'
  <2>1. subs' \in [Subs -> [status : Status, slots : Slots]]
    BY <1>1, <1>7 DEF CreateSubscription, TypeOK, Status
  <2> QED
    BY <1>1, <1>7, <2>1, GotoType DEF CreateSubscription, TypeOK, PeriodsAreForward
<1>8. CASE UpdateAtStripe(x)
  <2>1. subs' \in [Subs -> [status : Status, slots : Slots]]
    BY <1>1, <1>8 DEF UpdateAtStripe, TypeOK
  <2> QED
    BY <1>1, <1>8, <2>1, GotoType DEF UpdateAtStripe, TypeOK, PeriodsAreForward
<1>9. CASE Commit(x)
  <2>1. checkouts' \subseteq Slots
    BY <1>1, <1>9 DEF Commit, TypeOK
  <2> QED
    BY <1>1, <1>9, <2>1, ReleaseType DEF Commit, TypeOK, PeriodsAreForward
<1> QED
  BY <1>2, <1>3, <1>4, <1>5, <1>6, <1>7, <1>8, <1>9 DEF RequestNext, RequestStep

LEMMA TypeSync ==
    ASSUME Inductive, NEW x \in Requests \cup Syncs,
           (x \in Syncs /\ SyncNext(x)) \/ Fail(x)
    PROVE  TypeOK' /\ PeriodsAreForward'
<1>1. /\ TypeOK /\ PeriodsAreForward
      /\ x \in Processes /\ copy[x] \in Organization
  BY DEF Inductive, Processes, TypeOK
<1>2. ASSUME NEW step \in {"sync", "event"}, Synchronise(x, step),
             news' \in BOOLEAN
      PROVE  TypeOK' /\ PeriodsAreForward'
  <2>1. PICK r \in Synced(row) : Acquire(x, r, step)
    BY <1>2 DEF Synchronise
  <2>2. r \in Organization
    BY <1>1, <2>1, SyncedAgrees
  <2>3. step \in Steps
    BY DEF Steps
  <2> QED
    BY <1>1, <1>2, <2>1, <2>2, <2>3, AcquireType
       DEF Synchronise, TypeOK, PeriodsAreForward, Steps
<1>3. CASE SyncStripe(x)
  BY <1>1, <1>2, <1>3 DEF SyncStripe, TypeOK
<1>4. CASE HandleStripeEvent(x)
  BY <1>1, <1>2, <1>4 DEF HandleStripeEvent
<1>5. CASE FinishSync(x)
  BY <1>1, <1>5, ReleaseType DEF FinishSync, TypeOK, PeriodsAreForward, Steps
<1>6. CASE Fail(x)
  BY <1>1, <1>6, ReleaseType DEF Fail, TypeOK, PeriodsAreForward, Steps
<1> QED
  BY <1>3, <1>4, <1>5, <1>6 DEF SyncNext

LEMMA TypeWorker ==
    ASSUME Inductive, NEW x \in Workers, WorkerNext(x)
    PROVE  TypeOK' /\ PeriodsAreForward'
<1> USE DEF Steps
<1>1. /\ TypeOK /\ PeriodsAreForward /\ IsPast(row)
      /\ x \in Processes
      /\ row \in Organization /\ copy[x] \in Organization
      /\ from[x] \in Nat
      /\ Blank \in Organization
  BY FreeType DEF Inductive, MarksArePast, Processes, TypeOK
<1>2. ASSUME NEW j \in Jobs, StartInvoice(x, j)
      PROVE  TypeOK' /\ PeriodsAreForward'
  <2>1. [row EXCEPT !.usage = LastHourOfLastMonth] \in Organization
    BY <1>1, StartType DEF Organization
  <2>2. PeriodStart \in Nat
    BY <1>1, StartType
  <2>3. copy' \in [Processes -> Organization]
    BY <1>1, <1>2, <2>1 DEF StartInvoice, TypeOK
  <2>4. from' \in [Workers -> Nat]
    BY <1>1, <1>2, <2>2 DEF StartInvoice, TypeOK
  <2>5. task' \in [Workers -> Jobs \cup {None}]
    BY <1>1, <1>2 DEF StartInvoice, TypeOK
  <2>6. pc' \in [Processes -> Steps]
    BY <1>1, <1>2, GotoType DEF StartInvoice
  <2> QED
    BY <1>1, <1>2, <2>3, <2>4, <2>5, <2>6
       DEF StartInvoice, TypeOK, PeriodsAreForward
<1>3. CASE InvoiceUsage(x)
  <2>1. /\ task[x] \in Jobs
        /\ copy[x].usage \in Nat /\ from[x] <= copy[x].usage
    BY <1>1, <1>3
       DEF InvoiceUsage, Inductive, PlacesAreOwn, MarksArePast, Organization
  <2> QED
    BY <1>1, <1>3, <2>1, GotoType, ItemMade DEF InvoiceUsage, TypeOK
<1>4. CASE WriteUsage(x) \/ FailJob(x)
  <2>1. pc' \in [Processes -> Steps]
    BY <1>1, <1>4, GotoType DEF WriteUsage, FailJob
  <2>2. jobs' \in [Jobs -> {"new", "queued", "over"}]
    BY <1>1, <1>4 DEF WriteUsage, FailJob, TypeOK
  <2>3. /\ copy' \in [Processes -> Organization]
        /\ task' \in [Workers -> Jobs \cup {None}]
        /\ from' \in [Workers -> Nat]
    BY <1>1, <1>4 DEF WriteUsage, FailJob, TypeOK
  <2>4. disturbed' \in BOOLEAN /\ row' \in Organization
    BY <1>1, <1>4 DEF WriteUsage, FailJob, TypeOK
  <2> QED
    BY <1>1, <1>4, <2>1, <2>2, <2>3, <2>4
       DEF WriteUsage, FailJob, TypeOK, PeriodsAreForward
<1> QED
  BY <1>2, <1>3, <1>4 DEF WorkerNext

LEMMA TypeOutside ==
    ASSUME Inductive, Outside \/ \E j \in Jobs : DispatchInvoice(j)
    PROVE  TypeOK' /\ PeriodsAreForward'
<1>1. TypeOK /\ PeriodsAreForward
  BY DEF Inductive
<1>2. ASSUME NEW j \in Jobs, DispatchInvoice(j)
      PROVE  TypeOK' /\ PeriodsAreForward'
  BY <1>1, <1>2 DEF DispatchInvoice, TypeOK, PeriodsAreForward
<1>3. ASSUME NEW s \in Slots, NEW k \in Subs, PayCheckout(s, k)
      PROVE  TypeOK' /\ PeriodsAreForward'
  BY <1>1, <1>3 DEF PayCheckout, TypeOK, PeriodsAreForward, Status
<1>4. ASSUME NEW k \in Subs, NEW status \in Status, Renew(k, status)
      PROVE  TypeOK' /\ PeriodsAreForward'
  BY <1>1, <1>4 DEF Renew, TypeOK, PeriodsAreForward
<1>5. ASSUME NEW plan \in Plans, NEW slots \in Slots, GivePlan(plan, slots)
      PROVE  TypeOK' /\ PeriodsAreForward'
  <2>1. row' \in Organization
    BY <1>1, <1>5 DEF GivePlan, TypeOK, Organization
  <2> QED
    BY <1>1, <1>5, <2>1 DEF GivePlan, TypeOK, PeriodsAreForward
<1>6. CASE ChangeCard
  BY <1>1, <1>6 DEF ChangeCard, TypeOK, PeriodsAreForward
<1>7. CASE Tick
  <2>1. /\ now' \in Nat /\ month' \in Nat
        /\ MonthLength <= month' /\ month' <= now'
    BY <1>1, <1>7, BillingAssumption DEF Tick, TypeOK
  <2> QED
    BY <1>1, <1>7, <2>1 DEF Tick, TypeOK, PeriodsAreForward
<1> QED
  BY <1>2, <1>3, <1>4, <1>5, <1>6, <1>7 DEF Outside

LEMMA TypeStep == Inductive /\ [Next]_vars => TypeOK' /\ PeriodsAreForward'
<1>1. ASSUME Inductive, UNCHANGED vars PROVE TypeOK' /\ PeriodsAreForward'
  BY <1>1 DEF vars, Inductive, TypeOK, PeriodsAreForward
<1> QED
  BY <1>1, TypeRequest, TypeSync, TypeWorker, TypeOutside DEF Next

-----------------------------------------------------------------------------
(* The lock, the places of the processes, and how far the usage was        *)
(* invoiced.                                                               *)

\* Who holds the lock is the only one, apart from workers, that is at work.
LEMMA Alone ==
    ASSUME Inductive, NEW x \in Requests \cup Syncs, NEW y \in Requests \cup Syncs,
           pc[x] # "idle", pc[y] # "idle"
    PROVE  x = y
  BY DEF Inductive, LockIsHeld

LEMMA NobodyIsAtWork ==
    ASSUME Inductive, lock = None
    PROVE  \A x \in Requests \cup Syncs : pc[x] = "idle"
  BY BillingAssumption DEF Inductive, LockIsHeld

LEMMA AcquireControl ==
    ASSUME Inductive, NEW x \in Requests \cup Syncs, NEW r \in Organization,
           NEW step \in Steps \ {"idle"}, Acquire(x, r, step), IsPast(r),
           UNCHANGED <<row, month, task, from>>,
           x \in Requests => step \notin {"sync", "event", "item", "write"},
           x \in Syncs => step \in {"sync", "event"}
    PROVE  LockIsHeld' /\ PlacesAreOwn' /\ MarksArePast'
<1>1. /\ pc \in [Processes -> Steps] /\ copy \in [Processes -> Organization]
      /\ LockIsHeld /\ PlacesAreOwn /\ MarksArePast
  BY DEF Inductive, TypeOK, Steps
<1>2. x \in Processes /\ x \notin Workers
  BY BillingAssumption DEF Processes
<1>3. LockIsHeld'
  BY <1>1, <1>2, BillingAssumption DEF Acquire, LockIsHeld, Processes
<1>4. PlacesAreOwn'
  BY <1>1, <1>2, BillingAssumption DEF Acquire, PlacesAreOwn, Processes
<1>5. MarksArePast'
  BY <1>1, <1>2, BillingAssumption DEF Acquire, MarksArePast, IsPast, Processes
<1> QED
  BY <1>3, <1>4, <1>5

LEMMA ReleaseControl ==
    ASSUME Inductive, NEW x \in Requests \cup Syncs, pc[x] # "idle",
           Release(x), row' \in {row, copy[x]}, UNCHANGED <<month, task, from>>
    PROVE  LockIsHeld' /\ PlacesAreOwn' /\ MarksArePast'
<1>1. /\ pc \in [Processes -> Steps] /\ copy \in [Processes -> Organization]
      /\ LockIsHeld /\ PlacesAreOwn /\ MarksArePast
  BY DEF Inductive, TypeOK, Steps
<1>2. x \in Processes /\ x \notin Workers
  BY BillingAssumption DEF Processes
<1>3. LockIsHeld'
  <2>1. \A y \in Requests \cup Syncs : y # x => pc[y] = "idle"
    BY Alone
  <2> QED
    BY <1>1, <1>2, <2>1, BillingAssumption DEF Release, LockIsHeld, Processes
<1>4. PlacesAreOwn'
  BY <1>1, <1>2 DEF Release, PlacesAreOwn, Processes
<1>5. MarksArePast'
  <2>1. IsPast(Blank)'
    BY DEF IsPast, Blank
  <2>2. IsPast(row)'
    BY <1>1, <1>2 DEF MarksArePast, IsPast
  <2>3. \A y \in Processes : IsPast(copy[y])'
    BY <1>1, <1>2, <2>1 DEF Release, MarksArePast, IsPast
  <2>4. \A y \in Workers : pc'[y] = pc[y] /\ copy'[y] = copy[y]
    BY <1>1, <1>2 DEF Release, Processes
  <2> QED
    BY <1>1, <2>2, <2>3, <2>4 DEF MarksArePast
<1> QED
  BY <1>3, <1>4, <1>5

LEMMA GotoControl ==
    ASSUME Inductive, NEW x \in Requests, pc[x] # "idle",
           NEW step \in {"pay", "cancel", "commit", "checkout"}, Goto(x, step),
           UNCHANGED <<row, lock, month, copy, task, from>>
    PROVE  LockIsHeld' /\ PlacesAreOwn' /\ MarksArePast'
<1>1. /\ pc \in [Processes -> Steps]
      /\ LockIsHeld /\ PlacesAreOwn /\ MarksArePast
  BY DEF Inductive, TypeOK, Steps
<1>2. x \in Processes /\ x \notin Workers /\ x \notin Syncs
  BY BillingAssumption DEF Processes
<1>3. LockIsHeld'
  BY <1>1, <1>2 DEF Goto, LockIsHeld, Processes
<1>4. PlacesAreOwn'
  BY <1>1, <1>2 DEF Goto, PlacesAreOwn, Processes
<1>5. MarksArePast'
  BY <1>1, <1>2 DEF Goto, MarksArePast, IsPast, Processes
<1> QED
  BY <1>3, <1>4, <1>5

LEMMA ControlInit == Init => LockIsHeld /\ PlacesAreOwn /\ MarksArePast
<1> SUFFICES ASSUME Init PROVE LockIsHeld /\ PlacesAreOwn /\ MarksArePast
  OBVIOUS
<1>1. LockIsHeld
  BY BillingAssumption DEF Init, LockIsHeld, Processes
<1>2. PlacesAreOwn
  BY DEF Init, PlacesAreOwn, Processes
<1>3. IsPast(Blank) /\ IsPast([Blank EXCEPT !.customer = TRUE])
  BY DEF IsPast, Blank
<1>4. MarksArePast
  BY <1>3 DEF Init, MarksArePast, Processes
<1> QED
  BY <1>1, <1>2, <1>4

LEMMA ControlRequest ==
    ASSUME Inductive, NEW x \in Requests, RequestNext(x)
    PROVE  LockIsHeld' /\ PlacesAreOwn' /\ MarksArePast'
<1>1. /\ TypeOK /\ IsPast(row) /\ row \in Organization
      /\ x \notin Syncs /\ x \in Requests \cup Syncs
      /\ {"commit", "invoice", "subscribe"} \subseteq Steps \ {"idle"}
  BY BillingAssumption DEF Inductive, TypeOK, MarksArePast, Steps
<1>2. CASE CancelSubscription(x)
  <2>1. Free(row) \in Organization /\ IsPast(Free(row))
    BY <1>1, FreeType DEF IsPast, Free, Blank
  <2>2. PICK step \in {"commit", "invoice"} : Acquire(x, Free(row), step)
    BY <1>2 DEF CancelSubscription
  <2>3. UNCHANGED <<row, month, task, from>>
    BY <1>2 DEF CancelSubscription
  <2> QED
    BY <1>1, <2>1, <2>2, <2>3, AcquireControl
<1>3. ASSUME NEW slots \in Slots, ChangeSubscription(x, slots)
      PROVE  LockIsHeld' /\ PlacesAreOwn' /\ MarksArePast'
  <2> DEFINE r == [row EXCEPT !.slots = slots, !.customer = TRUE]
  <2>1. r \in Organization /\ IsPast(r)
    BY <1>1 DEF IsPast, Organization
  <2>2. Acquire(x, r, "subscribe") /\ UNCHANGED <<row, month, task, from>>
    BY <1>3 DEF ChangeSubscription
  <2> HIDE DEF r
  <2> QED
    BY <1>1, <2>1, <2>2, AcquireControl
<1>4. CASE InvoiceCancellation(x)
  BY <1>4, GotoControl DEF InvoiceCancellation
<1>5. CASE PayInvoice(x) \/ CancelAtStripe(x) \/ CreateCheckout(x) \/ UpdateAtStripe(x)
  BY <1>5, GotoControl DEF PayInvoice, CancelAtStripe, CreateCheckout, UpdateAtStripe
<1>6. ASSUME NEW k \in Subs, CreateSubscription(x, k)
      PROVE  LockIsHeld' /\ PlacesAreOwn' /\ MarksArePast'
  BY <1>6, GotoControl DEF CreateSubscription
<1>7. CASE Commit(x)
  BY <1>1, <1>7, ReleaseControl DEF Commit
<1> QED
  BY <1>2, <1>3, <1>4, <1>5, <1>6, <1>7 DEF RequestNext, RequestStep

LEMMA ControlSync ==
    ASSUME Inductive, NEW x \in Requests \cup Syncs,
           (x \in Syncs /\ SyncNext(x)) \/ Fail(x)
    PROVE  LockIsHeld' /\ PlacesAreOwn' /\ MarksArePast'
<1>1. TypeOK /\ IsPast(row)
  BY DEF Inductive, MarksArePast
<1>2. ASSUME x \in Syncs, NEW step \in {"sync", "event"}, Synchronise(x, step)
      PROVE  LockIsHeld' /\ PlacesAreOwn' /\ MarksArePast'
  <2>1. PICK r \in Synced(row) : Acquire(x, r, step)
    BY <1>2 DEF Synchronise
  <2>2. r \in Organization /\ IsPast(r)
    BY <1>1, <2>1, SyncedAgrees DEF IsPast
  <2>3. step \in Steps \ {"idle"} /\ x \notin Requests
    BY <1>2, BillingAssumption DEF Steps
  <2>4. UNCHANGED <<row, month, task, from>>
    BY <1>2 DEF Synchronise
  <2> QED
    BY <1>2, <2>1, <2>2, <2>3, <2>4, AcquireControl
<1>3. CASE x \in Syncs /\ (SyncStripe(x) \/ HandleStripeEvent(x))
  BY <1>2, <1>3 DEF SyncStripe, HandleStripeEvent
<1>4. CASE FinishSync(x) \/ Fail(x)
  BY <1>4, ReleaseControl DEF FinishSync, Fail
<1> QED
  BY <1>3, <1>4 DEF SyncNext

LEMMA ControlWorker ==
    ASSUME Inductive, NEW x \in Workers, WorkerNext(x)
    PROVE  LockIsHeld' /\ PlacesAreOwn' /\ MarksArePast'
<1>1. /\ TypeOK /\ LockIsHeld /\ PlacesAreOwn /\ MarksArePast
      /\ pc \in [Processes -> Steps] /\ copy \in [Processes -> Organization]
      /\ task \in [Workers -> Jobs \cup {None}] /\ from \in [Workers -> Nat]
  BY DEF Inductive, TypeOK, Steps
<1>2. x \in Processes /\ x \notin Requests /\ x \notin Syncs
  BY BillingAssumption DEF Processes
<1>3. ASSUME NEW step \in {"idle", "item", "write"}, Goto(x, step), UNCHANGED lock
      PROVE  LockIsHeld'
  BY <1>1, <1>2, <1>3 DEF Goto, LockIsHeld, Processes
<1>4. ASSUME NEW step \in {"idle", "item", "write"}, Goto(x, step),
             task' \in [Workers -> Jobs \cup {None}],
             \A y \in Workers : y # x => task'[y] = task[y],
             step # "idle" => task'[x] \in Jobs
      PROVE  PlacesAreOwn'
  BY <1>1, <1>2, <1>4 DEF Goto, PlacesAreOwn, Processes
<1>5. ASSUME NEW j \in Jobs, StartInvoice(x, j)
      PROVE  LockIsHeld' /\ PlacesAreOwn' /\ MarksArePast'
  <2>1. task' = [task EXCEPT ![x] = j] /\ UNCHANGED <<row, lock, month>>
    BY <1>5 DEF StartInvoice
  <2>2. PICK step \in {"item", "write"} : Goto(x, step)
    BY <1>5 DEF StartInvoice
  <2>3. LockIsHeld' /\ PlacesAreOwn'
    BY <1>1, <1>3, <1>4, <2>1, <2>2
  <2>4. MarksArePast'
    <3> DEFINE marked == [row EXCEPT !.usage = LastHourOfLastMonth]
    <3>1. IsPast(row) /\ row \in Organization
      BY <1>1 DEF MarksArePast, TypeOK
    <3>2. /\ marked.usage = LastHourOfLastMonth
          /\ IsPast(marked) /\ marked.usage # None
          /\ PeriodStart <= marked.usage
      BY <1>1, <3>1, StartType DEF IsPast, Organization
    <3>3. \/ /\ copy' = [copy EXCEPT ![x] = row] /\ Goto(x, "write")
             /\ UNCHANGED from
          \/ /\ copy' = [copy EXCEPT ![x] = marked]
             /\ from' = [from EXCEPT ![x] = PeriodStart]
      BY <1>5 DEF StartInvoice
    <3> HIDE DEF marked
    <3>4. \A y \in Processes : IsPast(copy'[y])
      BY <1>1, <1>2, <3>1, <3>2, <3>3 DEF MarksArePast
    <3>5. \A y \in Workers \ {x} :
             pc'[y] = pc[y] /\ copy'[y] = copy[y] /\ from'[y] = from[y]
      BY <1>1, <1>2, <2>2, <3>3 DEF Goto, Processes
    <3>6. pc'[x] = "item" => copy'[x].usage # None /\ from'[x] <= copy'[x].usage
      BY <1>1, <1>2, <3>2, <3>3 DEF Goto
    <3> QED
      BY <1>1, <2>1, <3>1, <3>4, <3>5, <3>6 DEF MarksArePast, IsPast
  <2> QED
    BY <2>3, <2>4
<1>6. CASE InvoiceUsage(x)
  <2>1. UNCHANGED <<row, lock, month, copy, task, from>> /\ Goto(x, "write")
    BY <1>6 DEF InvoiceUsage
  <2>2. task[x] \in Jobs
    BY <1>1, <1>6 DEF InvoiceUsage, PlacesAreOwn
  <2>3. LockIsHeld' /\ PlacesAreOwn'
    BY <1>1, <1>3, <1>4, <2>1, <2>2
  <2>4. MarksArePast'
    BY <1>1, <1>2, <2>1 DEF Goto, MarksArePast, IsPast, Processes
  <2> QED
    BY <2>3, <2>4
<1>7. CASE WriteUsage(x) \/ FailJob(x)
  <2>1. /\ UNCHANGED <<lock, month>> /\ row' \in {row, copy[x]}
        /\ Goto(x, "idle") /\ copy' = [copy EXCEPT ![x] = Blank]
        /\ task' = [task EXCEPT ![x] = None] /\ from' = [from EXCEPT ![x] = 0]
    BY <1>7 DEF WriteUsage, FailJob
  <2>2. LockIsHeld' /\ PlacesAreOwn'
    BY <1>1, <1>3, <1>4, <2>1
  <2>3. MarksArePast'
    <3>1. IsPast(Blank)
      BY DEF IsPast, Blank
    <3>2. IsPast(row') /\ \A y \in Processes : IsPast(copy'[y])
      BY <1>1, <1>2, <2>1, <3>1 DEF MarksArePast
    <3>3. \A y \in Workers \ {x} :
             pc'[y] = pc[y] /\ copy'[y] = copy[y] /\ from'[y] = from[y]
      BY <1>1, <1>2, <2>1 DEF Goto, Processes
    <3>4. pc'[x] = "idle"
      BY <1>1, <1>2, <2>1 DEF Goto
    <3> QED
      BY <1>1, <2>1, <3>2, <3>3, <3>4 DEF MarksArePast, IsPast
  <2> QED
    BY <2>2, <2>3
<1> QED
  BY <1>5, <1>6, <1>7 DEF WorkerNext

LEMMA ControlOutside ==
    ASSUME Inductive, Outside \/ \E j \in Jobs : DispatchInvoice(j)
    PROVE  LockIsHeld' /\ PlacesAreOwn' /\ MarksArePast'
<1>1. TypeOK /\ LockIsHeld /\ PlacesAreOwn /\ MarksArePast
  BY DEF Inductive
<1>2. UNCHANGED <<lock, pc, copy, task, from>>
  BY DEF Outside, DispatchInvoice, PayCheckout, Renew, GivePlan, ChangeCard, Tick
<1>3. row'.usage = row.usage
  BY <1>1 DEF Outside, DispatchInvoice, PayCheckout, Renew, GivePlan, ChangeCard,
              Tick, TypeOK, Organization
<1>4. month <= month' /\ month \in Nat /\ month' \in Nat
  <2>1. CASE Tick
    BY <1>1, <2>1, BillingAssumption DEF Tick, TypeOK
  <2>2. CASE month' = month
    BY <1>1, <2>2 DEF TypeOK
  <2>3. Tick \/ month' = month
    BY DEF Outside, DispatchInvoice, PayCheckout, Renew, GivePlan, ChangeCard
  <2> QED
    BY <2>1, <2>2, <2>3
<1>5. LockIsHeld' /\ PlacesAreOwn'
  BY <1>1, <1>2 DEF LockIsHeld, PlacesAreOwn
<1>6. MarksArePast'
  <2>1. IsPast(row)'
    BY <1>1, <1>3, <1>4 DEF MarksArePast, IsPast, TypeOK, Organization
  <2>2. \A y \in Processes : IsPast(copy[y])'
    BY <1>1, <1>2, <1>4 DEF MarksArePast, IsPast, TypeOK, Organization
  <2> QED
    BY <1>1, <1>2, <2>1, <2>2 DEF MarksArePast
<1> QED
  BY <1>5, <1>6

LEMMA ControlStep ==
    Inductive /\ [Next]_vars => LockIsHeld' /\ PlacesAreOwn' /\ MarksArePast'
<1>1. ASSUME Inductive, UNCHANGED vars
      PROVE  LockIsHeld' /\ PlacesAreOwn' /\ MarksArePast'
  BY <1>1 DEF vars, Inductive, LockIsHeld, PlacesAreOwn, MarksArePast, IsPast
<1> QED
  BY <1>1, ControlRequest, ControlSync, ControlWorker, ControlOutside DEF Next

-----------------------------------------------------------------------------
(* The row and Stripe.                                                     *)

Follows == CopiesFollowStripe /\ RowFollowsStripe

\* A row that nobody works on is what Stripe has, or an event is waiting.
LEMMA RowWhenFree ==
    ASSUME Inductive, lock = None
    PROVE  Agrees(row) \/ news \/ disturbed
<1>1. \A x \in Syncs : pc[x] = "idle"
  BY NobodyIsAtWork
<1> QED
  BY <1>1 DEF Inductive, RowFollowsStripe

LEMMA RowWhenRequested ==
    ASSUME Inductive, NEW x \in Requests, pc[x] # "idle"
    PROVE  Agrees(row) \/ news \/ disturbed
<1>1. \A y \in Syncs : pc[y] = "idle"
  BY Alone, BillingAssumption
<1> QED
  BY <1>1 DEF Inductive, RowFollowsStripe

LEMMA FollowsInit == Init => Follows
<1> SUFFICES ASSUME Init PROVE Follows
  OBVIOUS
<1>1. Agrees(row)
  BY DEF Init, Agrees, Open, Blank
<1>2. \A x \in Processes : pc[x] = "idle"
  BY DEF Init
<1> QED
  BY <1>1, <1>2 DEF Follows, CopiesFollowStripe, RowFollowsStripe, Processes

LEMMA FollowsRequest ==
    ASSUME Inductive, NEW x \in Requests, RequestNext(x)
    PROVE  Follows'
<1>1. /\ TypeOK /\ CopiesFollowStripe
      /\ pc \in [Processes -> Steps] /\ copy \in [Processes -> Organization]
      /\ row \in Organization
  BY DEF Inductive, TypeOK, Steps
<1>2. x \in Processes /\ x \notin Syncs /\ x \in Requests \cup Syncs
  BY BillingAssumption DEF Processes
\* The others are idle before and after: x has or gets the lock.
<1>3. ASSUME NEW y \in (Requests \cup Syncs) \ {x} PROVE pc[y] = "idle"
  <2>1. CASE pc[x] = "idle"
    <3>1. lock = None
      BY <2>1 DEF RequestNext, RequestStep, CancelSubscription,
                  ChangeSubscription, Acquire, InvoiceCancellation, PayInvoice,
                  CancelAtStripe, CreateSubscription, CreateCheckout,
                  UpdateAtStripe, Commit
    <3> QED
      BY <3>1, NobodyIsAtWork
  <2> QED
    BY <1>2, <2>1, <1>3, Alone
<1>4. ASSUME NEW y \in (Requests \cup Syncs) \ {x} PROVE pc'[y] = "idle"
  <2>1. PICK step : pc' = [pc EXCEPT ![x] = step]
    BY DEF RequestNext, RequestStep, CancelSubscription,
           ChangeSubscription, Acquire, InvoiceCancellation, PayInvoice,
           CancelAtStripe, CreateSubscription, CreateCheckout,
           UpdateAtStripe, Commit, Goto, Release
  <2> QED
    BY <1>1, <1>3, <1>4, <2>1 DEF Processes
\* So it is enough to look at x and at the row.
<1>5. ASSUME RowFollowsStripe',
             pc'[x] \in {"invoice", "pay", "cancel"} => row'.sub # None,
             pc'[x] = "subscribe" =>
                copy'[x] = [row' EXCEPT !.slots = copy'[x].slots, !.customer = TRUE],
             pc'[x] \in {"commit", "checkout"} =>
                (news' \/ disturbed' \/ Agrees(copy[x])')
      PROVE  Follows'
  <2>1. \A y \in Syncs : pc'[y] = "idle"
    BY <1>2, <1>4
  <2>2. \A y \in Requests \ {x} : pc'[y] = "idle"
    BY <1>4
  <2> QED
    BY <1>5, <2>1, <2>2 DEF Follows, CopiesFollowStripe
\* As long as nothing changes that the row and Stripe have, they agree.
<1>6. ASSUME UNCHANGED <<row, subs, news, disturbed>>,
             Agrees(row) \/ news \/ disturbed
      PROVE  RowFollowsStripe' /\ (Agrees(row)' \/ news' \/ disturbed')
  BY <1>6 DEF RowFollowsStripe, Agrees, Open
<1>7. ASSUME news' PROVE RowFollowsStripe'
  BY <1>7 DEF RowFollowsStripe
<1>8. CASE CancelSubscription(x)
  <2>1. /\ lock = None /\ UNCHANGED <<row, subs, news, disturbed>>
        /\ copy'[x] = Free(row)
        /\ pc'[x] = IF row.sub = None THEN "commit" ELSE "invoice"
    BY <1>1, <1>2, <1>8 DEF CancelSubscription, Acquire
  <2>2. Agrees(row) \/ news \/ disturbed
    BY <2>1, RowWhenFree
  <2>3. row.sub = None => news' \/ disturbed' \/ Agrees(copy[x])'
    BY <2>1, <2>2 DEF Agrees, Open, Free, Blank
  <2> QED
    BY <1>5, <1>6, <2>1, <2>2, <2>3
<1>9. ASSUME NEW slots \in Slots, ChangeSubscription(x, slots) PROVE Follows'
  <2>1. /\ lock = None /\ UNCHANGED <<row, subs, news, disturbed>>
        /\ copy'[x] = [row EXCEPT !.slots = slots, !.customer = TRUE]
        /\ pc'[x] = "subscribe"
    BY <1>1, <1>2, <1>9 DEF ChangeSubscription, Acquire
  <2>2. copy'[x] = [row' EXCEPT !.slots = copy'[x].slots, !.customer = TRUE]
    BY <1>1, <2>1 DEF Organization
  <2> QED
    BY <1>5, <1>6, <2>1, <2>2, RowWhenFree
<1>10. CASE InvoiceCancellation(x) \/ PayInvoice(x)
  <2>1. /\ pc[x] \in {"invoice", "pay"} /\ pc'[x] \in {"pay", "cancel"}
        /\ UNCHANGED <<row, subs, news, disturbed>>
    BY <1>1, <1>2, <1>10 DEF InvoiceCancellation, PayInvoice, Goto
  <2>2. row.sub # None
    BY <1>1, <2>1 DEF CopiesFollowStripe
  <2> QED
    BY <1>5, <1>6, <2>1, <2>2, RowWhenRequested
<1>11. CASE CancelAtStripe(x) \/ UpdateAtStripe(x) \/ \E k \in Subs : CreateSubscription(x, k)
  <2>1. news' /\ pc'[x] = "commit"
    BY <1>1, <1>2, <1>11 DEF CancelAtStripe, UpdateAtStripe, CreateSubscription, Goto
  <2> QED
    BY <1>5, <1>7, <2>1
<1>12. CASE CreateCheckout(x)
  <2>1. /\ pc[x] = "subscribe" /\ pc'[x] = "checkout"
        /\ UNCHANGED <<row, subs, news, disturbed, copy>>
    BY <1>1, <1>2, <1>12 DEF CreateCheckout, Goto
  <2>2. copy[x] = [row EXCEPT !.slots = copy[x].slots, !.customer = TRUE]
    BY <1>1, <2>1 DEF CopiesFollowStripe
  <2>3. Agrees(row) \/ news \/ disturbed
    BY <2>1, RowWhenRequested
  <2>4. /\ copy[x].sub = row.sub /\ copy[x].plan = row.plan
        /\ copy[x].due = row.due
    BY <1>1, <2>2 DEF Organization
  <2>5. news' \/ disturbed' \/ Agrees(copy[x])'
    BY <2>1, <2>3, <2>4 DEF Agrees, Open
  <2> QED
    BY <1>5, <1>6, <2>1, <2>3, <2>5
<1>13. CASE Commit(x)
  <2>1. /\ pc[x] \in {"commit", "checkout"} /\ pc'[x] = "idle"
        /\ row' = copy[x] /\ UNCHANGED <<subs, news, disturbed>>
    BY <1>1, <1>2, <1>13 DEF Commit, Release
  <2>2. news \/ disturbed \/ Agrees(copy[x])
    BY <1>1, <2>1 DEF CopiesFollowStripe
  <2>3. RowFollowsStripe'
    BY <2>1, <2>2 DEF RowFollowsStripe, Agrees, Open
  <2> QED
    BY <1>5, <2>1, <2>3
<1> QED
  BY <1>8, <1>9, <1>10, <1>11, <1>12, <1>13 DEF RequestNext, RequestStep

LEMMA FollowsSync ==
    ASSUME Inductive, NEW x \in Syncs, SyncNext(x)
    PROVE  Follows'
<1>1. /\ TypeOK /\ CopiesFollowStripe
      /\ pc \in [Processes -> Steps] /\ copy \in [Processes -> Organization]
  BY DEF Inductive, TypeOK, Steps
<1>2. x \in Processes /\ x \notin Requests /\ x \in Requests \cup Syncs
  BY BillingAssumption DEF Processes
<1>3. ASSUME NEW step \in {"sync", "event"}, Synchronise(x, step),
             news' = news \/ step = "event"
      PROVE  Follows'
  <2>1. PICK r \in Synced(row) : Acquire(x, r, step)
    BY <1>3 DEF Synchronise
  <2>2. /\ lock = None /\ UNCHANGED <<row, subs, disturbed>>
        /\ pc'[x] = step /\ copy'[x] = r
    BY <1>1, <1>2, <1>3, <2>1 DEF Synchronise, Acquire
  <2>3. \A y \in (Requests \cup Syncs) \ {x} : pc'[y] = "idle"
    BY <1>1, <2>1, <2>2, NobodyIsAtWork DEF Acquire, Processes
  <2>4. Agrees(copy[x])'
    BY <1>1, <2>1, <2>2, SyncedAgrees DEF Agrees, Open
  <2>5. Agrees(row) \/ news \/ disturbed
    BY <2>2, RowWhenFree
  <2>6. RowFollowsStripe'
    <3>1. CASE step = "event"
      BY <2>2, <3>1 DEF RowFollowsStripe
    <3>2. CASE news' = news
      BY <2>2, <2>5, <3>2 DEF RowFollowsStripe, Agrees, Open
    <3> QED
      BY <1>3, <3>1, <3>2
  <2>7. \A y \in Requests : pc'[y] = "idle"
    BY <1>2, <2>3
  <2> QED
    BY <2>3, <2>4, <2>6, <2>7 DEF Follows, CopiesFollowStripe
<1>4. CASE SyncStripe(x)
  BY <1>3, <1>4 DEF SyncStripe
<1>5. CASE HandleStripeEvent(x)
  BY <1>3, <1>5 DEF HandleStripeEvent
<1>6. CASE FinishSync(x)
  <2>1. /\ pc[x] # "idle" /\ row' = copy[x] /\ UNCHANGED <<subs, news>>
        /\ pc' = [pc EXCEPT ![x] = "idle"]
    BY <1>6 DEF FinishSync, Release
  <2>2. \A y \in Requests \cup Syncs : pc'[y] = "idle"
    BY <1>1, <1>2, <2>1, Alone DEF Processes
  <2>3. news \/ Agrees(copy[x])
    BY <1>1, <2>1 DEF CopiesFollowStripe
  <2>4. RowFollowsStripe'
    BY <2>1, <2>3 DEF RowFollowsStripe, Agrees, Open
  <2> QED
    BY <2>2, <2>4 DEF Follows, CopiesFollowStripe
<1> QED
  BY <1>4, <1>5, <1>6 DEF SyncNext

LEMMA FollowsFail ==
    ASSUME Inductive, NEW x \in Requests \cup Syncs, Fail(x)
    PROVE  Follows'
<1>1. /\ pc \in [Processes -> Steps] /\ x \in Processes /\ pc[x] # "idle"
      /\ pc' = [pc EXCEPT ![x] = "idle"]
      /\ news' = (news \/ pc[x] = "event")
      /\ UNCHANGED <<row, subs, disturbed>>
  BY DEF Inductive, TypeOK, Steps, Fail, Release, Processes
<1>2. \A y \in Requests \cup Syncs : pc'[y] = "idle"
  BY <1>1, Alone DEF Processes
<1>3. Agrees(row) \/ news \/ disturbed \/ pc[x] = "event"
  <2>1. \A y \in Syncs : pc[y] = "event" => y = x
    BY <1>1, Alone
  <2> QED
    BY <2>1 DEF Inductive, RowFollowsStripe
<1>4. RowFollowsStripe'
  BY <1>1, <1>3 DEF RowFollowsStripe, Agrees, Open
<1> QED
  BY <1>2, <1>4 DEF Follows, CopiesFollowStripe

LEMMA FollowsWorker ==
    ASSUME Inductive, NEW x \in Workers, WorkerNext(x)
    PROVE  Follows'
<1>1. /\ TypeOK /\ CopiesFollowStripe /\ RowFollowsStripe
      /\ pc \in [Processes -> Steps] /\ copy \in [Processes -> Organization]
      /\ row \in Organization
  BY DEF Inductive, TypeOK, Steps
<1>2. x \in Processes /\ x \notin Requests /\ x \notin Syncs
  BY BillingAssumption DEF Processes
\* Requests and synchronisations stay where they are.
<1>3. ASSUME NEW y \in Requests \cup Syncs
      PROVE  y \in Processes /\ pc'[y] = pc[y] /\ copy'[y] = copy[y]
  <2>1. PICK step : pc' = [pc EXCEPT ![x] = step]
    BY DEF WorkerNext, StartInvoice, InvoiceUsage, WriteUsage, FailJob, Goto
  <2>2. copy' = copy \/ \E r : copy' = [copy EXCEPT ![x] = r]
    BY DEF WorkerNext, StartInvoice, InvoiceUsage, WriteUsage, FailJob
  <2> QED
    BY <1>1, <1>2, <2>1, <2>2 DEF Processes
<1>4. UNCHANGED <<subs, news>>
  BY DEF WorkerNext, StartInvoice, InvoiceUsage, WriteUsage, FailJob
<1>5. CASE UNCHANGED <<row, disturbed>>
  <2>1. Agrees(row)' <=> Agrees(row)
    BY <1>4, <1>5 DEF Agrees, Open
  <2>2. ASSUME NEW y \in Requests \cup Syncs PROVE Agrees(copy[y])' <=> Agrees(copy[y])
    BY <1>3, <1>4, <2>2 DEF Agrees, Open
  <2>3. RowFollowsStripe'
    BY <1>1, <1>3, <1>4, <1>5, <2>1 DEF RowFollowsStripe
  <2>4. ASSUME NEW y \in Syncs, pc'[y] # "idle" PROVE news' \/ Agrees(copy[y])'
    BY <1>1, <1>3, <1>4, <2>2, <2>4 DEF CopiesFollowStripe
  <2>5. ASSUME NEW y \in Requests, pc'[y] \in {"commit", "checkout"}
        PROVE  news' \/ disturbed' \/ Agrees(copy[y])'
    BY <1>1, <1>3, <1>4, <1>5, <2>2, <2>5 DEF CopiesFollowStripe
  <2>6. ASSUME NEW y \in Requests
        PROVE  /\ pc'[y] \in {"invoice", "pay", "cancel"} => row'.sub # None
               /\ pc'[y] = "subscribe" =>
                    copy'[y] = [row' EXCEPT !.slots = copy'[y].slots, !.customer = TRUE]
    BY <1>1, <1>3, <1>5 DEF CopiesFollowStripe
  <2> QED
    BY <2>3, <2>4, <2>5, <2>6 DEF Follows, CopiesFollowStripe
<1>6. CASE WriteUsage(x)
  <2>1. /\ lock = None /\ row' = copy[x]
        /\ disturbed' = (disturbed \/ copy[x] # [row EXCEPT !.usage = copy[x].usage])
    BY <1>6 DEF WriteUsage
  <2>2. \A y \in Requests \cup Syncs : pc'[y] = "idle"
    BY <1>3, <2>1, NobodyIsAtWork
  <2>3. Agrees(row) \/ news \/ disturbed
    BY <2>1, RowWhenFree
  <2>4. CASE copy[x] = [row EXCEPT !.usage = copy[x].usage]
    <3>1. row'.sub = row.sub /\ row'.plan = row.plan /\ row'.due = row.due
      BY <1>1, <2>1, <2>4 DEF Organization
    <3>2. RowFollowsStripe'
      BY <1>4, <2>1, <2>3, <3>1 DEF RowFollowsStripe, Agrees, Open
    <3> QED
      BY <2>2, <3>2 DEF Follows, CopiesFollowStripe
  <2>5. CASE copy[x] # [row EXCEPT !.usage = copy[x].usage]
    <3>1. disturbed'
      BY <2>1, <2>5
    <3> QED
      BY <2>2, <3>1 DEF Follows, CopiesFollowStripe, RowFollowsStripe
  <2> QED
    BY <2>4, <2>5
<1> QED
  BY <1>5, <1>6 DEF WorkerNext, StartInvoice, InvoiceUsage, FailJob

LEMMA FollowsOutside ==
    ASSUME Inductive, Outside \/ \E j \in Jobs : DispatchInvoice(j)
    PROVE  Follows'
<1>1. CopiesFollowStripe /\ RowFollowsStripe
  BY DEF Inductive
<1>2. UNCHANGED <<pc, copy>>
  BY DEF Outside, DispatchInvoice, PayCheckout, Renew, GivePlan, ChangeCard, Tick
<1>3. CASE UNCHANGED <<row, subs, news, disturbed>>
  BY <1>1, <1>2, <1>3
     DEF Follows, CopiesFollowStripe, RowFollowsStripe, Agrees, Open
<1>4. CASE news' /\ UNCHANGED row
  BY <1>1, <1>2, <1>4 DEF Follows, CopiesFollowStripe, RowFollowsStripe
<1>5. CASE \E plan \in Plans, slots \in Slots : GivePlan(plan, slots)
  <2>1. lock = None /\ disturbed'
    BY <1>5 DEF GivePlan
  <2>2. \A y \in Requests \cup Syncs : pc'[y] = "idle"
    BY <1>2, <2>1, NobodyIsAtWork
  <2> QED
    BY <2>1, <2>2 DEF Follows, CopiesFollowStripe, RowFollowsStripe
<1> QED
  BY <1>3, <1>4, <1>5
     DEF Outside, DispatchInvoice, PayCheckout, Renew, ChangeCard, Tick

LEMMA FollowsStep == Inductive /\ [Next]_vars => Follows'
<1>1. ASSUME Inductive, UNCHANGED vars PROVE Follows'
  BY <1>1 DEF vars, Inductive, Follows, CopiesFollowStripe, RowFollowsStripe,
              Agrees, Open
<1> QED
  BY <1>1, FollowsRequest, FollowsSync, FollowsFail, FollowsWorker, FollowsOutside
     DEF Next

-----------------------------------------------------------------------------
(* What holds in every behaviour.                                          *)

LEMMA InductiveStep == Inductive /\ [Next]_vars => Inductive'
  BY TypeStep, ControlStep, FollowsStep DEF Inductive, Follows

\* The inductive invariant holds: the row is locked by the one request or
\* synchronisation that works on it, which is at one of its places with a copy
\* that is still right, and the usage is invoiced up to a past month at most.
THEOREM BillingInvariance == Spec => []Inductive
<1>1. Init => Inductive
  BY TypeInit, ControlInit, FollowsInit DEF Inductive, Follows
<1> QED
  BY <1>1, InductiveStep, PTL DEF Spec

\* Every variable of the billing of an organization has its type.
THEOREM BillingTypes == Spec => []TypeOK
<1>1. Inductive => TypeOK
  BY DEF Inductive
<1> QED
  BY <1>1, BillingInvariance, PTL

\* The row of an organization is what Stripe has, while no event is on its way
\* and unless it was given away or overwritten by a stale one: whatever
\* UpdateSubscription and syncOrganizationWithStripeCustomer do, in whatever
\* order, and wherever they fail.
THEOREM RowFollows == Spec => []RowFollowsStripe
<1>1. Inductive => RowFollowsStripe
  BY DEF Inductive
<1> QED
  BY <1>1, BillingInvariance, PTL

\* invoiceForUsageData never invoices a period that ends before it starts.
THEOREM PeriodsForward == Spec => []PeriodsAreForward
<1>1. Inductive => PeriodsAreForward
  BY DEF Inductive
<1> QED
  BY <1>1, BillingInvariance, PTL

\* UpdateSubscription makes a subscription next to another one only when the
\* event of the other is still on its way, or the row was overwritten.
THEOREM SecondUnseen == Spec => SecondIsUnseen
<1> DEFINE Unseen ==
      \A k \in Subs :
         (subs[k].status = "none" /\ k \in Open' /\ checkouts' = checkouts)
             => (Open = {} \/ news \/ disturbed)
<1>1. Inductive /\ [Next]_vars => [Unseen]_vars
  <2> SUFFICES ASSUME Inductive, Next, NEW k \in Subs,
                      subs[k].status = "none", k \in Open', checkouts' = checkouts
               PROVE  Open = {} \/ news \/ disturbed
    BY DEF Unseen
  <2>1. subs \in [Subs -> [status : Status, slots : Slots]] /\ checkouts \subseteq Slots
    BY DEF Inductive, TypeOK
  <2>2. subs'[k].status # "none"
    BY DEF Open
  <2>3. ASSUME NEW x \in Requests, NEW l \in Subs, CreateSubscription(x, l)
        PROVE  Open = {} \/ news \/ disturbed
    <3>1. pc[x] # "idle" /\ row.sub = None
      BY <2>3 DEF CreateSubscription
    <3> QED
      BY <3>1, RowWhenRequested DEF Agrees
  <2>4. ASSUME NEW x \in Requests, RequestNext(x)
        PROVE  Open = {} \/ news \/ disturbed
    <3>1. ASSUME row.sub \in Open PROVE row.sub # k
      BY <3>1 DEF Open
    <3>2. CASE CancelAtStripe(x)
      BY <2>1, <2>2, <3>1, <3>2 DEF CancelAtStripe
    <3>3. CASE UpdateAtStripe(x)
      BY <2>1, <2>2, <3>1, <3>3 DEF UpdateAtStripe
    <3>4. CASE UNCHANGED subs
      BY <2>2, <3>4
    <3> QED
      BY <2>3, <2>4, <3>2, <3>3, <3>4
         DEF RequestNext, RequestStep, CancelSubscription, ChangeSubscription,
             InvoiceCancellation, PayInvoice, CreateCheckout, Commit
  <2>5. ASSUME NEW s \in Slots, NEW l \in Subs, PayCheckout(s, l) PROVE FALSE
    BY <2>5 DEF PayCheckout
  <2>6. ASSUME NEW l \in Subs, NEW status \in Status, Renew(l, status) PROVE FALSE
    <3>1. l # k
      BY <2>6 DEF Renew, Moves
    <3> QED
      BY <2>1, <2>2, <2>6, <3>1 DEF Renew
  <2>7. CASE UNCHANGED subs
    BY <2>2, <2>7
  <2> QED
    BY <2>4, <2>5, <2>6, <2>7
       DEF Next, Outside, SyncNext, SyncStripe, HandleStripeEvent, Synchronise,
           FinishSync, WorkerNext, StartInvoice, InvoiceUsage, WriteUsage,
           FailJob, DispatchInvoice, Fail, GivePlan, ChangeCard, Tick
<1> QED
  BY <1>1, BillingInvariance, PTL DEF Spec, SecondIsUnseen
=============================================================================
