------------------------------ MODULE Servers ------------------------------
(***************************************************************************)
(* What several servers (cmd/mdninja-server) share: the scheduler, whose   *)
(* leader holds an advisory lock of PostgreSQL (pkg/scheduler), and the    *)
(* keys that sign the tokens of sessions and of emails' links (pkg/jwt).   *)
(*                                                                         *)
(* Time goes by half days; at an even time the daily tasks of the leader   *)
(* are due: jwt.RotateKeys, and the job that invoices monthly usage.  The  *)
(* clocks of the servers agree, and a rotation or a start takes less than  *)
(* half a day.  Left out: tasks of other periods, the contents of tokens,  *)
(* and the keys that servers keep in a cache for some hours: what a server *)
(* can always verify is signed by a key of the table.                      *)
(***************************************************************************)
EXTENDS Integers, FiniteSets

CONSTANTS
    ServerIDs,
    KeyIDs,       \* numbers, in the order in which keys are generated
    KeyLife,      \* 35 days, in half days: thirtyFiveDaysAgo
    TokenLife,    \* the longest life of a token: 30 days for a session
    MaxTime,      \* bound: half days
    MaxTokens,    \* bound: tokens at a time
    NoKey, Nobody, DeadSession

ASSUME ServersAssumption ==
    /\ KeyIDs \subseteq Nat /\ NoKey \notin KeyIDs
    /\ {KeyLife, TokenLife, MaxTime, MaxTokens} \subseteq Nat
    /\ TokenLife < KeyLife
    /\ ServerIDs \cap {Nobody, DeadSession} = {} /\ Nobody # DeadSession

VARIABLES
    now,
    running,   \* servers that are up
    starting,  \* starting[s]: the key found by NewProvider, or its absence
    lock,      \* the session of PostgreSQL that holds the advisory lock
    leaders,   \* servers whose scheduler runs
    rotating,  \* rotating[s]: where RotateKeys is
    key,       \* key[k]: the row of a key
    signing,   \* signing[s]: the key in the memory of a server
    tokens,    \* tokens that were signed
    runs,      \* servers that ran the daily tasks when they were last due
    lost,      \* leaders that have lost the session that held the lock
    lapsed,    \* the lost ones when the daily tasks were last due
    refreshed  \* servers whose rotation then found or made a key of the day

serversVars == <<now, running, starting, lock, leaders, rotating, key, signing,
                 tokens, runs, lost, lapsed, refreshed>>

Key   == [state : {"new", "stored", "deleted"}, made : 0 .. MaxTime]
Token == [key : KeyIDs, signed : 0 .. MaxTime]

Stored == {k \in KeyIDs : key[k].state = "stored"}

\* GetLatestKey
Latest ==
    IF Stored = {} THEN NoKey
    ELSE CHOOSE k \in Stored : \A j \in Stored : \/ key[j].made < key[k].made
                                                 \/ key[j].made = key[k].made /\ j <= k

\* ParseAndVerifyToken: the key is found, and the token hasn't expired.
Verifies(t) == t.key \in Stored /\ now <= t.signed + TokenLife

ServersInit ==
    /\ now = 0 /\ running = {} /\ lock = Nobody /\ leaders = {}
    /\ starting = [s \in ServerIDs |-> "no"]
    /\ rotating = [s \in ServerIDs |-> "no"]
    /\ key = [k \in KeyIDs |-> [state |-> "new", made |-> 0]]
    /\ signing = [s \in ServerIDs |-> NoKey]
    /\ tokens = {} /\ runs = {} /\ lost = {} /\ lapsed = {} /\ refreshed = {}

(***************************************************************************)
(* A key is generated and saved; keys of one time are in any order.        *)
(***************************************************************************)
GenerateAndSaveNewJwtKey(k) ==
    /\ key[k].state = "new" /\ \A j \in KeyIDs : j < k => key[j].state # "new"
    /\ key' = [key EXCEPT ![k] = [state |-> "stored", made |-> now]]

\* NewProvider finds the latest key,
Start(s) ==
    /\ s \notin running /\ starting[s] = "no"
    /\ IF Latest # NoKey
       THEN /\ running' = running \cup {s}
            /\ signing' = [signing EXCEPT ![s] = Latest]
            /\ UNCHANGED starting
       ELSE /\ starting' = [starting EXCEPT ![s] = "no key"]
            /\ UNCHANGED <<running, signing>>
    /\ UNCHANGED <<now, lock, leaders, rotating, key, tokens, runs, lost, lapsed, refreshed>>

\* and generates one if there is none.
StartWithNewKey(s) ==
    /\ starting[s] = "no key"
    /\ \E k \in KeyIDs : GenerateAndSaveNewJwtKey(k) /\ signing' = [signing EXCEPT ![s] = k]
    /\ starting' = [starting EXCEPT ![s] = "no"]
    /\ running' = running \cup {s}
    /\ UNCHANGED <<now, lock, leaders, rotating, tokens, runs, lost, lapsed, refreshed>>

\* A server stops, or dies: its session goes with it, or is found dead later.
Stop(s) ==
    /\ s \in running \/ starting[s] # "no"
    /\ running' = running \ {s} /\ leaders' = leaders \ {s}
    /\ starting' = [starting EXCEPT ![s] = "no"]
    /\ rotating' = [rotating EXCEPT ![s] = "no"]
    /\ signing' = [signing EXCEPT ![s] = NoKey]
    /\ refreshed' = refreshed \ {s} /\ lost' = lost \ {s}
    /\ IF lock = s THEN lock' \in {Nobody, DeadSession} ELSE UNCHANGED lock
    /\ UNCHANGED <<now, key, tokens, runs, lapsed>>

\* Fault: a server leads without asking for the lock.
LeadAnyway(s) ==
    /\ s \in running \ leaders
    /\ leaders' = leaders \cup {s}
    /\ UNCHANGED <<now, running, starting, lock, rotating, key, signing, tokens, runs,
                   lost, lapsed, refreshed>>

(***************************************************************************)
(* The lock belongs to a session.  The leader asks nothing more of its     *)
(* own: it doesn't learn that it was lost.                                 *)
(***************************************************************************)
LoseSession(s) ==
    /\ lock = s
    /\ lock' = Nobody
    /\ lost' = lost \cup {s}
    /\ UNCHANGED <<now, running, starting, leaders, rotating, key, signing, tokens,
                   runs, lapsed, refreshed>>

ReleaseDeadSession ==
    /\ lock = DeadSession
    /\ lock' = Nobody
    /\ UNCHANGED <<now, running, starting, leaders, rotating, key, signing, tokens,
                   runs, lost, lapsed, refreshed>>

TryToBecomeLeader(s) ==
    /\ s \in running \ leaders
    /\ lock = Nobody
    /\ lock' = s /\ leaders' = leaders \cup {s}
    /\ UNCHANGED <<now, running, starting, rotating, key, signing, tokens, runs, lost,
                   lapsed, refreshed>>

\* Time goes on, once what was begun is done.
Tick ==
    /\ now < MaxTime
    /\ \A s \in ServerIDs : starting[s] = "no" /\ rotating[s] = "no"
    /\ now' = now + 1
    /\ IF now' % 2 = 0
       THEN /\ runs' = leaders /\ lapsed' = lost /\ refreshed' = {}
            /\ rotating' = [s \in ServerIDs |-> IF s \in leaders THEN "due" ELSE "no"]
       ELSE UNCHANGED <<rotating, runs, lapsed, refreshed>>
    /\ tokens' = {t \in tokens : now' <= t.signed + TokenLife}
    /\ UNCHANGED <<running, starting, lock, leaders, key, signing, lost>>

(***************************************************************************)
(* RotateKeys                                                              *)
(***************************************************************************)
FindLatest(s) ==
    /\ rotating[s] = "due" /\ Latest # NoKey
    /\ IF key[Latest].made + 2 <= now
       THEN rotating' = [rotating EXCEPT ![s] = "make"] /\ UNCHANGED refreshed
       ELSE rotating' = [rotating EXCEPT ![s] = "delete"] /\ refreshed' = refreshed \cup {s}
    /\ UNCHANGED <<now, running, starting, lock, leaders, key, signing, tokens, runs,
                   lost, lapsed>>

MakeKey(s) ==
    /\ rotating[s] = "make"
    /\ \E k \in KeyIDs : GenerateAndSaveNewJwtKey(k) /\ signing' = [signing EXCEPT ![s] = k]
    /\ rotating' = [rotating EXCEPT ![s] = "delete"]
    /\ refreshed' = refreshed \cup {s}
    /\ UNCHANGED <<now, running, starting, lock, leaders, tokens, runs, lost, lapsed>>

\* Fault: only the latest key is left.
DeleteOtherKeys(s) ==
    /\ rotating[s] = "delete"
    /\ key' = [k \in KeyIDs |-> IF k \in Stored \ {Latest}
                                THEN [key[k] EXCEPT !.state = "deleted"] ELSE key[k]]
    /\ rotating' = [rotating EXCEPT ![s] = "no"]
    /\ UNCHANGED <<now, running, starting, lock, leaders, signing, tokens, runs, lost,
                   lapsed, refreshed>>

DeleteOlderKeys(s) ==
    /\ rotating[s] = "delete"
    /\ key' = [k \in KeyIDs |-> IF k \in Stored /\ key[k].made + KeyLife < now
                                THEN [key[k] EXCEPT !.state = "deleted"] ELSE key[k]]
    /\ rotating' = [rotating EXCEPT ![s] = "no"]
    /\ UNCHANGED <<now, running, starting, lock, leaders, signing, tokens, runs, lost,
                   lapsed, refreshed>>

\* An error of the database or of the KMS, or a missing key, ends the rotation.
FailRotation(s) ==
    /\ rotating[s] # "no"
    /\ rotating' = [rotating EXCEPT ![s] = "no"]
    /\ UNCHANGED <<now, running, starting, lock, leaders, key, signing, tokens, runs,
                   lost, lapsed, refreshed>>

NewSignedToken(s) ==
    /\ s \in running
    /\ Cardinality(tokens) < MaxTokens
    /\ tokens' = tokens \cup {[key |-> signing[s], signed |-> now]}
    /\ UNCHANGED <<now, running, starting, lock, leaders, rotating, key, signing, runs,
                   lost, lapsed, refreshed>>

ServersNext ==
    \/ Tick
    \/ ReleaseDeadSession
    \/ \E s \in ServerIDs :
          \/ Start(s) \/ StartWithNewKey(s) \/ Stop(s)
          \/ LoseSession(s) \/ TryToBecomeLeader(s)
          \/ FindLatest(s) \/ MakeKey(s) \/ DeleteOlderKeys(s) \/ FailRotation(s)
          \/ NewSignedToken(s)

ServersSpec == ServersInit /\ [][ServersNext]_serversVars

-----------------------------------------------------------------------------

\* The variables have the types the code gives them.
ServersTypeOK ==
    /\ now \in 0 .. MaxTime /\ running \subseteq ServerIDs /\ leaders \subseteq running
    /\ starting \in [ServerIDs -> {"no", "no key"}]
    /\ lock \in ServerIDs \cup {Nobody, DeadSession}
    /\ rotating \in [ServerIDs -> {"no", "due", "make", "delete"}]
    /\ key \in [KeyIDs -> Key] /\ signing \in [ServerIDs -> KeyIDs \cup {NoKey}]
    /\ tokens \subseteq Token
    /\ {runs, lost, lapsed, refreshed} \subseteq SUBSET ServerIDs

(***************************************************************************)
(* The daily tasks run on one server, whatever stops, starts and takes     *)
(* over: on a second one only when all but one of them have lost the       *)
(* session that held the lock.  What they push, as the invoices of the     *)
(* month, isn't protected otherwise.                                       *)
(***************************************************************************)
TasksRunOnce == Cardinality(runs \ lapsed) <= 1

(***************************************************************************)
(* A token is refused before it expires only if its key was already older, *)
(* when it signed the token, than keys outlive tokens (KeyLife less        *)
(* TokenLife): RotateKeys deletes it under a server that signs with it.    *)
(* That isn't so of a server whose rotation of the day, run alone, found   *)
(* the key of the day: the keys it signs with are not older than a day.    *)
(***************************************************************************)
KeysOutliveTokens ==
    /\ \A t \in tokens : ~Verifies(t) => key[t.key].made + KeyLife - TokenLife < t.signed
    /\ \A s \in refreshed : Cardinality(runs) = 1 /\ rotating[s] \in {"no", "delete"}
                            => key[signing[s]].made + 2 > now - (now % 2)
=============================================================================
