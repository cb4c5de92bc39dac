--------------------------- MODULE MCStoreOrders ---------------------------
(***************************************************************************)
(* Instances of StoreOrders for TLC.                                       *)
(***************************************************************************)
EXTENDS StoreOrders, TLC

CONSTANTS o1, o2, c1, p1, p2, h1, h2

\* Two orders of one contact, one product in common.
MCBuyer == [o \in Orders |-> c1]
MCItems == [o \in Orders |-> IF o = o1 THEN {p1} ELSE Products]

\* Two instances in one run, for the sake of liveness: two handlers on an order
\* whose products stay on sale, the confirmation jobs left in the queue; and one
\* handler with all that the staff and the jobs do around it.
VARIABLE instance

Quiet ==
    /\ UNCHANGED <<product, doomed, queue>>
    /\ \A o \in Orders : outbox'[o] >= outbox[o]

Within ==
    \/ instance = "two handlers" /\ Quiet
    \/ /\ instance = "one handler" /\ pc'[h2] = "idle"
       /\ \A h \in Handlers : Fail(h) => Advance(h)

MCInit ==
    /\ Init
    /\ instance \in {"two handlers", "one handler"}
    /\ instance = "two handlers" => \A p \in Products : product[p] = "active"

MCSpec ==
    /\ MCInit
    /\ [][Next /\ Within /\ UNCHANGED instance]_<<vars, instance>>
    /\ Fairness
\* The whole of it, for the runs that look for one thing.
AllSpec == Init /\ instance = "all" /\ [][Next /\ UNCHANGED instance]_<<vars, instance>>
=============================================================================
