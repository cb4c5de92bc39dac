--------------------------- MODULE MCNewsletters ---------------------------
(***************************************************************************)
(* Instances of Newsletters for TLC.                                       *)
(***************************************************************************)
EXTENDS Newsletters, TLC

CONSTANT c1

\* Three instances in one run, so that liveness is checked with the rest: the
\* staff against the task and the worker; mailings to several recipients, whose
\* subscriptions change; and what a newsletter needs in order to be mailed in
\* the end, a domain that stays verified and a job that is not given up.
VARIABLE instance

Within ==
    CASE instance = "staff" ->
            /\ subscribed' = {c1}
            /\ \A n \in Newsletters, c \in Contacts : mailed'[n][c] < 2
      [] instance = "mailing" ->
            /\ \A x \in Requests : pc'[x] = "idle"
            /\ UNCHANGED <<verified, postJobs>>
      [] instance = "healthy" ->
            /\ UNCHANGED <<verified, subscribed, postJobs>>
            /\ \A x \in Workers : ~GiveUpJob(x)

MCInit ==
    /\ Init
    /\ instance \in {"staff", "mailing", "healthy"}
    /\ instance = "staff" => subscribed = {c1}
    /\ instance = "mailing" => verified
    /\ instance = "healthy" => verified /\ subscribed = {c1}

MCSpec ==
    /\ MCInit
    /\ [][Next /\ Within /\ UNCHANGED instance]_<<vars, instance>>
    /\ Fairness

\* The first promise of a schedule, where nothing stands in its way for good.
HealthyDueIsMailed == instance = "healthy" => DueIsMailed
\* The whole of it, for the runs that look for one thing.
AllSpec == Init /\ instance = "all" /\ [][Next /\ UNCHANGED instance]_<<vars, instance>>
=============================================================================
