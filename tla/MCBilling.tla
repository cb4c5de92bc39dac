----------------------------- MODULE MCBilling -----------------------------
(***************************************************************************)
(* Instances of Billing for TLC.                                           *)
(***************************************************************************)
EXTENDS Billing, TLC

CONSTANTS s2, k2

\* Three instances in one run, so that liveness is checked with the rest: the
\* monthly job against a request and a synchronisation; the same with two
\* subscriptions, while nothing fails; webhooks that are
\* handled at the same time, and plans given away.
VARIABLE instance

NoGift == \A s \in Slots : ~GivePlan("pro", s) /\ ~GivePlan("free", s)
NoJob  == \A x \in Workers : pc'[x] = "idle"
NoSlot == checkouts' \subseteq {0} /\ row'.slots = 0 /\ \A x \in Requests : copy'[x].slots = 0

\* Nothing fails and nobody dies: what looks like it is a step that changes
\* nothing else.
Smooth ==
    /\ \A x \in Requests : Fail(x) => RequestStep(x)
    /\ \A x \in Syncs : Fail(x) => FinishSync(x)
    /\ \A x \in Workers : FailJob(x) => WriteUsage(x)

Within ==
    CASE instance = "worker" ->
            NoGift /\ NoSlot /\ pc'[s2] = "idle" /\ subs'[k2].status = "none"
      [] instance = "two subscriptions" ->
            NoGift /\ NoSlot /\ pc'[s2] = "idle" /\ Smooth
      [] instance = "webhooks" ->
            NoJob /\ subs'[k2].status = "none" /\ now' < 3

MCInit == Init /\ instance \in {"worker", "two subscriptions", "webhooks"}

MCSpec ==
    /\ MCInit
    /\ [][Next /\ Within /\ UNCHANGED instance]_<<vars, instance>>
    /\ Fairness

SmoothSpec ==
    /\ Init /\ instance = "all"
    /\ [][Next /\ Smooth /\ UNCHANGED instance]_<<vars, instance>>
=============================================================================
