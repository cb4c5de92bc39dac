------------------------------ MODULE Purchase ------------------------------
(***************************************************************************)
(* What the store promises its merchants and their customers, with nothing *)
(* of how it is done: no transaction, no webhook, no lock.  An order that  *)
(* was paid is fulfilled once and for all, fulfilling it is what gives its *)
(* buyer access to what was bought, and apart from that access changes     *)
(* only when the staff of the website gives it, takes it away, or removes  *)
(* a product that no fulfilled order contains.                             *)
(*                                                                         *)
(* StoreOrders implements this specification.                              *)
(***************************************************************************)
CONSTANTS
    Orders,      \* the orders that may be placed
    Contacts,    \* the contacts (customers) of the website
    Products,    \* the products of the website
    Buyer,       \* Buyer[o]: the contact who placed o
    Items        \* Items[o]: the products of the line items of o

VARIABLES
    paid,        \* the orders whose payment succeeded
    fulfilled,   \* the orders delivered to their buyers
    access,      \* <<c, p>> \in access: contact c has access to product p
    granted,     \* the pairs the staff ever gave access to
    revoked      \* the pairs the staff ever took access from

vars == <<paid, fulfilled, access, granted, revoked>>

\* The access that the order o sells.
Bought(o) == {<<Buyer[o], p>> : p \in Items[o]}

Init ==
    /\ paid = {} /\ fulfilled = {}
    /\ access = {} /\ granted = {} /\ revoked = {}

-----------------------------------------------------------------------------

Pay(o) ==
    /\ o \notin paid
    /\ paid' = paid \cup {o}
    /\ UNCHANGED <<fulfilled, access, granted, revoked>>

\* What the buyer already has is not given again; what the staff took away in
\* the meantime need not be given back.
Fulfil(o) ==
    /\ o \in paid \ fulfilled
    /\ fulfilled' = fulfilled \cup {o}
    /\ \E given \in SUBSET Bought(o) :
         /\ access' = access \cup given
         /\ Bought(o) \subseteq access' \cup revoked
    /\ UNCHANGED <<paid, granted, revoked>>

Grant(pairs) ==
    /\ access' = access \cup pairs
    /\ granted' = granted \cup pairs
    /\ UNCHANGED <<paid, fulfilled, revoked>>

Revoke(pairs) ==
    /\ pairs \subseteq access
    /\ access' = access \ pairs
    /\ revoked' = revoked \cup pairs
    /\ UNCHANGED <<paid, fulfilled, granted>>

Discontinue(p) ==
    /\ \A o \in fulfilled : p \notin Items[o]
    /\ access' = {a \in access : a[2] # p}
    /\ UNCHANGED <<paid, fulfilled, granted, revoked>>

Next ==
    \/ \E o \in Orders : Pay(o) \/ Fulfil(o)
    \/ \E C \in SUBSET Contacts, p \in Products :
         Grant(C \X {p}) \/ Revoke(C \X {p})
    \/ \E p \in Products : Discontinue(p)

Spec == Init /\ [][Next]_vars

\* Whoever pays is served.
Fairness == \A o \in Orders : WF_vars(Fulfil(o))

FairSpec == Spec /\ Fairness
=============================================================================
