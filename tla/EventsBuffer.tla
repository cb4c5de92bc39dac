---------------------------- MODULE EventsBuffer ----------------------------
(***************************************************************************)
(* The events of a server (pkg/services/events): page views, orders,       *)
(* subscriptions and emails sent, the last of which are counted against    *)
(* what an organization pays.  They are buffered in memory, and flushed    *)
(* every 50 ms to a goroutine that saves them in one transaction, or puts  *)
(* them back.                                                              *)
(*                                                                         *)
(* An event is saved as often as saved counts: the table has no key.  Left *)
(* out: what events say, and the refusal of bots and of empty inputs.      *)
(***************************************************************************)
EXTENDS Naturals, FiniteSets, Sequences

CONSTANTS
    EventIDs,  \* 1, 2, ..: events are named in the order in which they come
    MaxSize,   \* EVENTS_BUFFER_MAX_SIZE
    MaxSaves   \* bound: how often an event is counted as saved

ASSUME EventsAssumption == EventIDs \subseteq Nat /\ {MaxSize, MaxSaves} \subseteq Nat \ {0}

VARIABLES
    server,   \* "up", "stopping", or "down" for good
    tracked,  \* events that were given to be tracked
    buffer,   \* eventsBuffer.events
    flushed,  \* batches in the hands of a goroutine
    saved,    \* saved[e]: how often e is in the table
    full,     \* events left out because the buffer had no space
    unsure    \* events whose commit succeeded without the server knowing

eventsVars == <<server, tracked, buffer, flushed, saved, full, unsure>>

InSeq(b) == {b[i] : i \in DOMAIN b}

EventsInit ==
    /\ server = "up" /\ tracked = {} /\ buffer = <<>> /\ flushed = {}
    /\ saved = [e \in EventIDs |-> 0] /\ full = {} /\ unsure = {}

\* Fault: one event more than there is space for.
PushPastEnd(e) ==
    /\ server # "down" /\ e = Cardinality(tracked) + 1
    /\ tracked' = tracked \cup {e}
    /\ IF Len(buffer) <= MaxSize THEN buffer' = Append(buffer, e) /\ UNCHANGED full
       ELSE full' = full \cup {e} /\ UNCHANGED buffer
    /\ UNCHANGED <<server, flushed, saved, unsure>>

(***************************************************************************)
(* Push appends an event if there is space.                                *)
(***************************************************************************)
Push(e) ==
    /\ server # "down" /\ e = Cardinality(tracked) + 1
    /\ tracked' = tracked \cup {e}
    /\ IF Len(buffer) < MaxSize THEN buffer' = Append(buffer, e) /\ UNCHANGED full
       ELSE full' = full \cup {e} /\ UNCHANGED buffer
    /\ UNCHANGED <<server, flushed, saved, unsure>>

(***************************************************************************)
(* PushMany appends what there is space for; but when the batch would fill *)
(* the buffer exactly, neither condition holds and none of it is taken.    *)
(***************************************************************************)
Taken(b) ==
    LET free == MaxSize - Len(buffer) IN
    IF Len(buffer) + Len(b) < MaxSize THEN b
    ELSE IF free > 0 /\ free < Len(b) THEN SubSeq(b, 1, free)
    ELSE <<>>

PushMany(b) ==
    /\ buffer' = buffer \o Taken(b)
    /\ full' = full \cup (InSeq(b) \ InSeq(Taken(b)))

\* Flush, every 50 ms and, once the server stops, every 20 ms.
Flush ==
    /\ server # "down" /\ buffer # <<>>
    /\ flushed' = flushed \cup {buffer}
    /\ buffer' = <<>>
    /\ UNCHANGED <<server, tracked, saved, full, unsure>>

(***************************************************************************)
(* saveBufferedEvents: a transaction commits all the chunks or none; when  *)
(* an error hides that it was committed the events are put back as well.   *)
(***************************************************************************)
InsertAll(b) ==
    saved' = [e \in EventIDs |-> IF e \in InSeq(b) THEN saved[e] + 1 ELSE saved[e]]

SaveEvents(b) ==
    /\ server # "down" /\ b \in flushed
    /\ flushed' = flushed \ {b}
    /\ InsertAll(b)
    /\ UNCHANGED <<server, tracked, buffer, full, unsure>>

\* Fault: the chunks are not saved in one transaction.
BufferBackAfterChunk(b) ==
    /\ server # "down" /\ b \in flushed
    /\ flushed' = flushed \ {b}
    /\ saved' = [saved EXCEPT ![b[1]] = @ + 1]
    /\ PushMany(b)
    /\ UNCHANGED <<server, tracked, unsure>>

BufferBack(b) ==
    /\ server # "down" /\ b \in flushed
    /\ flushed' = flushed \ {b}
    /\ PushMany(b)
    /\ UNCHANGED <<server, tracked, saved, unsure>>

BufferBackCommitted(b) ==
    /\ server # "down" /\ b \in flushed
    /\ \A e \in InSeq(b) : saved[e] < MaxSaves
    /\ flushed' = flushed \ {b}
    /\ InsertAll(b)
    /\ PushMany(b)
    /\ unsure' = unsure \cup InSeq(b)
    /\ UNCHANGED <<server, tracked>>

(***************************************************************************)
(* The server is told to stop; when the others are done it leaves the      *)
(* buffer a second, and exits.  Or it dies.                                *)
(***************************************************************************)
Shutdown ==
    /\ server = "up"
    /\ server' = "stopping"
    /\ UNCHANGED <<tracked, buffer, flushed, saved, full, unsure>>

Exit ==
    /\ server # "down"
    /\ server' = "down"
    /\ UNCHANGED <<tracked, buffer, flushed, saved, full, unsure>>

EventsNext ==
    \/ \E e \in EventIDs : Push(e)
    \/ Flush
    \/ \E b \in flushed : SaveEvents(b) \/ BufferBack(b) \/ BufferBackCommitted(b)
    \/ Shutdown \/ Exit

EventsSpec == EventsInit /\ [][EventsNext]_eventsVars

-----------------------------------------------------------------------------

\* The variables have the types the code gives them.
EventsTypeOK ==
    /\ server \in {"up", "stopping", "down"} /\ tracked \subseteq EventIDs
    /\ buffer \in Seq(EventIDs) /\ Len(buffer) <= MaxSize
    /\ \A b \in flushed : b \in Seq(EventIDs) /\ b # <<>>
    /\ saved \in [EventIDs -> 0 .. MaxSaves + 1]
    /\ full \subseteq tracked /\ unsure \subseteq tracked

Outstanding == UNION {InSeq(b) : b \in flushed \cup {buffer}}

(***************************************************************************)
(* While the server lives an event is saved or about to be: unless the     *)
(* buffer had no space for it, which takes at least as many events as it   *)
(* holds.  It is saved once, unless an error hid a commit, and it is in    *)
(* one place at a time.                                                    *)
(***************************************************************************)
EventsAreKept ==
    /\ \A e \in tracked \ full : e \in Outstanding \/ saved[e] > 0
    /\ full # {} => Cardinality(tracked) >= MaxSize
    /\ \A e \in EventIDs \ unsure : saved[e] <= 1 /\ (e \in Outstanding => saved[e] = 0)
    /\ \A b, c \in flushed \cup {buffer} : b # c => InSeq(b) \cap InSeq(c) = {}
=============================================================================
