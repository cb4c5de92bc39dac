----------------------------- MODULE RateLimiter -----------------------------
(***************************************************************************)
(* The limiter of requests in fixed windows: pkg/ratelimit, with which     *)
(* login, subscription and order requests are let through, so many for     *)
(* each visitor and hour.                                                  *)
(*                                                                         *)
(* Each call reads the clock, and with it the key of a bucket, before it   *)
(* waits for the mutex, and so does the cleanup: buckets may be counted in *)
(* or deleted some time after their window.  A limiter lives as long as    *)
(* its server, and each server has its own.  The hash of a key stands for  *)
(* the key.                                                                *)
(***************************************************************************)
EXTENDS Naturals

CONSTANTS
    Visitors,    \* actor, with the namespace and the action
    Calls,       \* requests that may wait at the same time
    Period,      \* timeBucket: the length of a window
    Allowed,     \* allowed: how many requests a window lets through
    MaxInstant,  \* bound: the clock
    NoRequest, NoInstant

ASSUME RateLimiterAssumption ==
    /\ Period \in Nat \ {0} /\ Allowed \in Nat \ {0} /\ MaxInstant \in Nat
    /\ NoInstant \notin Nat
    /\ NoRequest \notin [visitor : Visitors, instant : Nat]

VARIABLES
    clock,
    bucket,   \* bucket[v][w]: the count of a window; 0 if there is no bucket
    call,     \* call[x]: who asks, and the instant read
    sweep,    \* the instant that the cleanup has read
    passed,   \* passed[v][w]: the requests let through
    refused   \* <<v, w>>: a request was refused

limiterVars == <<clock, bucket, call, sweep, passed, refused>>

Instants == 0 .. MaxInstant
Window(i) == i \div Period
Windows == {Window(i) : i \in Instants}

LimiterInit ==
    /\ clock = 0
    /\ bucket = [v \in Visitors |-> [w \in Windows |-> 0]]
    /\ call = [x \in Calls |-> NoRequest]
    /\ sweep = NoInstant
    /\ passed = bucket /\ refused = {}

\* Time.  A call waits for the mutex less than a period, which is an hour.
Tick ==
    /\ clock < MaxInstant
    /\ \A x \in Calls : call[x] # NoRequest => clock + 1 < call[x].instant + Period
    /\ clock' = clock + 1
    /\ UNCHANGED <<bucket, call, sweep, passed, refused>>

ReadClock(x, v) ==
    /\ call[x] = NoRequest
    /\ call' = [call EXCEPT ![x] = [visitor |-> v, instant |-> clock]]
    /\ UNCHANGED <<clock, bucket, sweep, passed, refused>>

\* Under the mutex.
IsAllowed(x) ==
    LET v    == call[x].visitor
        w    == Window(call[x].instant)
        pass == bucket[v][w] < Allowed
    IN
    /\ call[x] # NoRequest
    /\ call' = [call EXCEPT ![x] = NoRequest]
    /\ IF pass
       THEN /\ bucket' = [bucket EXCEPT ![v][w] = @ + 1]
            /\ passed' = [passed EXCEPT ![v][w] = @ + 1]
            /\ UNCHANGED refused
       ELSE refused' = refused \cup {<<v, w>>} /\ UNCHANGED <<bucket, passed>>
    /\ UNCHANGED <<clock, sweep>>

\* Fault: a bucket isn't kept for one extra period.
ExpiresAtOnce(w) == (w + 1) * Period

Expires(w) == (w + 2) * Period

StartCleanup ==
    /\ sweep = NoInstant
    /\ sweep' = clock
    /\ UNCHANGED <<clock, bucket, call, passed, refused>>

\* Under the mutex.
Cleanup ==
    /\ sweep # NoInstant
    /\ bucket' = [v \in Visitors |->
                    [w \in Windows |-> IF sweep > Expires(w) THEN 0 ELSE bucket[v][w]]]
    /\ sweep' = NoInstant
    /\ UNCHANGED <<clock, call, passed, refused>>

LimiterNext ==
    \/ Tick \/ StartCleanup \/ Cleanup
    \/ \E x \in Calls : IsAllowed(x) \/ \E v \in Visitors : ReadClock(x, v)

LimiterSpec == LimiterInit /\ [][LimiterNext]_limiterVars

LimiterTypeOK ==
    /\ clock \in Instants /\ sweep \in Instants \cup {NoInstant}
    /\ bucket \in [Visitors -> [Windows -> 0 .. Allowed]]
    /\ call \in [Calls -> [visitor : Visitors, instant : Instants] \cup {NoRequest}]
    /\ passed \in [Visitors -> [Windows -> Nat]]
    /\ refused \subseteq Visitors \X Windows

(***************************************************************************)
(* No window lets more than Allowed requests of a visitor through, also    *)
(* those that are counted once it is over, while buckets are cleaned up;   *)
(* and whoever is refused has had them all.                                *)
(***************************************************************************)
RequestsAreLimited ==
    \A v \in Visitors, w \in Windows :
        /\ passed[v][w] <= Allowed
        /\ <<v, w>> \in refused => passed[v][w] = Allowed
=============================================================================
