--------------------------- MODULE Platform_proofs ---------------------------
(***************************************************************************)
(* What the servers share, the events each of them keeps, and what they    *)
(* answer visitors with, for every number of servers, keys and events,     *)
(* every buffer and every life of keys and tokens, every website with its  *)
(* edits and files, and every range.                                       *)
(***************************************************************************)
EXTENDS MCPlatform, FiniteSetTheorems, TLAPS

(***************************************************************************)
(* Events.  Each is named when it comes, is in one place once, and only    *)
(* what came has been saved.  That two batches share nothing is what makes *)
(* a buffer that is put back hold no event twice; and that a buffer holds  *)
(* distinct events, that it is full only when as many came.                *)
(***************************************************************************)
Places == flushed \cup {buffer}

Distinct(b) == \A i, j \in DOMAIN b : b[i] = b[j] => i = j

NamedInOrder == Cardinality(tracked) \in Nat /\ tracked = 1 .. Cardinality(tracked)

PlacedOnce ==
    /\ \A b \in Places : InSeq(b) \subseteq tracked /\ Distinct(b)
    /\ \A b \in flushed : InSeq(b) \cap InSeq(buffer) = {}

SavedWhenTracked ==
    /\ \A e \in EventIDs \ tracked : saved[e] = 0
    /\ \A e \in EventIDs : e \in Outstanding => saved[e] <= MaxSaves

EventsInv == EventsTypeOK /\ NamedInOrder /\ PlacedOnce /\ SavedWhenTracked /\ EventsAreKept

-----------------------------------------------------------------------------
LEMMA EventsConstants ==
    EventIDs \subseteq Nat /\ MaxSize \in Nat \ {0} /\ MaxSaves \in Nat \ {0}
BY EventsAssumption

\* A sequence without repetitions is not longer than a set that has its elements.
LEMMA DistinctFits ==
    ASSUME NEW S, NEW b \in Seq(S), Distinct(b),
           NEW T, IsFiniteSet(T), InSeq(b) \subseteq T
    PROVE  Len(b) <= Cardinality(T)
<1> SUFFICES ASSUME Cardinality(T) < Len(b) PROVE FALSE
  BY FS_CardinalityType
<1>1. Len(b) \in Nat /\ DOMAIN b = 1 .. Len(b)
  OBVIOUS
<1>2. IsFiniteSet(1 .. Len(b)) /\ Cardinality(1 .. Len(b)) = Len(b)
  BY <1>1, FS_Interval
<1>3. b \in [1 .. Len(b) -> T]
  BY <1>1 DEF InSeq
<1>4. \E i, j \in 1 .. Len(b) : i # j /\ b[i] = b[j]
  BY <1>2, <1>3, FS_PigeonHole
<1>5. QED BY <1>1, <1>4 DEF Distinct

\* What a sequence followed by another has, and when it repeats nothing.
LEMMA Joined ==
    ASSUME NEW S, NEW b \in Seq(S), NEW c \in Seq(S)
    PROVE  /\ b \o c \in Seq(S) /\ Len(b \o c) = Len(b) + Len(c)
           /\ InSeq(b \o c) = InSeq(b) \cup InSeq(c)
           /\ Distinct(b) /\ Distinct(c) /\ InSeq(b) \cap InSeq(c) = {} => Distinct(b \o c)
<1> DEFINE d == b \o c
<1>1. d \in Seq(S) /\ Len(d) = Len(b) + Len(c) /\ Len(b) \in Nat /\ Len(c) \in Nat
  OBVIOUS
<1>2. DOMAIN b = 1 .. Len(b) /\ DOMAIN c = 1 .. Len(c) /\ DOMAIN d = 1 .. Len(b) + Len(c)
  BY <1>1
<1>3. \A i \in 1 .. Len(b) + Len(c) : d[i] = IF i <= Len(b) THEN b[i] ELSE c[i - Len(b)]
  OBVIOUS
<1> HIDE DEF d
<1>4. InSeq(d) = InSeq(b) \cup InSeq(c)
  <2>1. ASSUME NEW i \in DOMAIN d PROVE d[i] \in InSeq(b) \cup InSeq(c)
    <3>1. CASE i <= Len(b)
      BY <1>1, <1>2, <1>3, <2>1, <3>1 DEF InSeq
    <3>2. CASE ~(i <= Len(b))
      <4>1. i - Len(b) \in 1 .. Len(c) /\ d[i] = c[i - Len(b)]
        BY <1>1, <1>2, <1>3, <2>1, <3>2
      <4> QED BY <1>2, <4>1 DEF InSeq
    <3> QED BY <3>1, <3>2
  <2>2. ASSUME NEW i \in DOMAIN b PROVE b[i] \in InSeq(d)
    <3>1. i \in 1 .. Len(b) + Len(c) /\ d[i] = b[i]
      BY <1>1, <1>2, <1>3, <2>2
    <3> QED BY <1>2, <3>1 DEF InSeq
  <2>3. ASSUME NEW i \in DOMAIN c PROVE c[i] \in InSeq(d)
    <3>1. i + Len(b) \in 1 .. Len(b) + Len(c) /\ d[i + Len(b)] = c[i]
      BY <1>1, <1>2, <1>3, <2>3
    <3> QED BY <1>2, <3>1 DEF InSeq
  <2>4. QED BY <2>1, <2>2, <2>3 DEF InSeq
<1>5. ASSUME Distinct(b), Distinct(c), InSeq(b) \cap InSeq(c) = {} PROVE Distinct(d)
  <2> SUFFICES ASSUME NEW i \in DOMAIN d, NEW j \in DOMAIN d, d[i] = d[j] PROVE i = j
    BY DEF Distinct
  <2>1. i \in Nat /\ j \in Nat
    BY <1>1, <1>2
  <2>2. CASE i <= Len(b) /\ j <= Len(b)
    <3>1. i \in DOMAIN b /\ j \in DOMAIN b /\ b[i] = b[j]
      BY <1>1, <1>2, <1>3, <2>2
    <3> QED BY <1>5, <3>1 DEF Distinct
  <2>3. CASE ~(i <= Len(b)) /\ ~(j <= Len(b))
    <3>1. i - Len(b) \in DOMAIN c /\ j - Len(b) \in DOMAIN c /\ c[i - Len(b)] = c[j - Len(b)]
      BY <1>1, <1>2, <1>3, <2>3
    <3>2. i - Len(b) = j - Len(b)
      BY <1>5, <3>1 DEF Distinct
    <3> QED BY <1>1, <2>1, <3>2
  <2>4. CASE i <= Len(b) /\ ~(j <= Len(b))
    <3>1. i \in DOMAIN b /\ j - Len(b) \in DOMAIN c /\ b[i] = c[j - Len(b)]
      BY <1>1, <1>2, <1>3, <2>4
    <3> QED BY <1>5, <3>1 DEF InSeq
  <2>5. CASE ~(i <= Len(b)) /\ j <= Len(b)
    <3>1. j \in DOMAIN b /\ i - Len(b) \in DOMAIN c /\ b[j] = c[i - Len(b)]
      BY <1>1, <1>2, <1>3, <2>5
    <3> QED BY <1>5, <3>1 DEF InSeq
  <2>6. QED BY <2>2, <2>3, <2>4, <2>5
<1>6. QED BY <1>1, <1>4, <1>5 DEF d

\* Taken is the beginning of a batch, all of it or as much as there is space for; something
\* is left only when the buffer and the batch together would fill the buffer.
LEMMA TakenIsBeginning ==
    ASSUME buffer \in Seq(EventIDs), Len(buffer) <= MaxSize, NEW b \in Seq(EventIDs)
    PROVE  /\ Taken(b) \in Seq(EventIDs) /\ Len(buffer) + Len(Taken(b)) <= MaxSize
           /\ InSeq(Taken(b)) \subseteq InSeq(b) /\ (Distinct(b) => Distinct(Taken(b)))
           /\ Taken(b) = b \/ Len(buffer) + Len(b) >= MaxSize
<1> DEFINE free == MaxSize - Len(buffer)
<1>1. Len(buffer) \in Nat /\ Len(b) \in Nat /\ MaxSize \in Nat /\ free \in Nat
  BY EventsConstants
<1>2. CASE Len(buffer) + Len(b) < MaxSize
  <2>1. Taken(b) = b
    BY <1>2 DEF Taken
  <2> QED BY <1>1, <1>2, <2>1
<1>3. CASE ~(Len(buffer) + Len(b) < MaxSize) /\ free > 0 /\ free < Len(b)
  <2>1. Taken(b) = SubSeq(b, 1, free)
    BY <1>3 DEF Taken
  <2> HIDE DEF free
  <2> DEFINE c == SubSeq(b, 1, free)
  <2>2. c \in Seq(EventIDs) /\ Len(c) = free /\ \A i \in 1 .. free : c[i] = b[i]
    BY <1>1, <1>3
  <2>3. DOMAIN c = 1 .. free /\ DOMAIN b = 1 .. Len(b)
    BY <2>2
  <2> HIDE DEF c
  <2>4. \A i \in DOMAIN c : i \in DOMAIN b /\ c[i] = b[i]
    BY <1>1, <1>3, <2>2, <2>3
  <2>5. InSeq(c) \subseteq InSeq(b) /\ (Distinct(b) => Distinct(c))
    BY <2>4 DEF InSeq, Distinct
  <2>6. Len(buffer) + free <= MaxSize
    BY <1>1 DEF free
  <2> QED BY <1>1, <1>3, <2>1, <2>2, <2>5, <2>6 DEF c
<1>4. CASE ~(Len(buffer) + Len(b) < MaxSize) /\ ~(free > 0 /\ free < Len(b))
  <2>1. Taken(b) = <<>>
    BY <1>4 DEF Taken
  <2> QED BY <1>1, <1>4, <2>1 DEF InSeq, Distinct
<1>5. QED BY <1>2, <1>3, <1>4

\* A batch that is put back leaves the buffer without repetitions; what doesn't get in is
\* counted as left out, and then as many events as the buffer holds have come.
LEMMA PutBack ==
    ASSUME EventsInv, NEW b \in flushed, PushMany(b)
    PROVE  /\ buffer' \in Seq(EventIDs) /\ Len(buffer') <= MaxSize
           /\ Distinct(buffer') /\ InSeq(buffer') \subseteq InSeq(buffer) \cup InSeq(b)
           /\ InSeq(buffer) \subseteq InSeq(buffer')
           /\ InSeq(b) \subseteq InSeq(buffer') \cup full' /\ full \subseteq full'
           /\ full' \subseteq tracked
           /\ full' # {} => Cardinality(tracked) >= MaxSize
<1>1. /\ buffer \in Seq(EventIDs) /\ Len(buffer) <= MaxSize /\ b \in Seq(EventIDs)
      /\ Distinct(b) /\ Distinct(buffer) /\ InSeq(b) \cap InSeq(buffer) = {}
      /\ InSeq(b) \subseteq tracked /\ InSeq(buffer) \subseteq tracked /\ full \subseteq tracked
  BY DEF EventsInv, EventsTypeOK, PlacedOnce, Places
<1>2. /\ Taken(b) \in Seq(EventIDs) /\ Len(buffer) + Len(Taken(b)) <= MaxSize
      /\ InSeq(Taken(b)) \subseteq InSeq(b) /\ Distinct(Taken(b))
      /\ Taken(b) = b \/ Len(buffer) + Len(b) >= MaxSize
  BY <1>1, TakenIsBeginning
<1>3. buffer' = buffer \o Taken(b) /\ full' = full \cup (InSeq(b) \ InSeq(Taken(b)))
  BY DEF PushMany
<1>4. /\ buffer' \in Seq(EventIDs) /\ Len(buffer') = Len(buffer) + Len(Taken(b))
      /\ InSeq(buffer') = InSeq(buffer) \cup InSeq(Taken(b))
      /\ Distinct(buffer')
  <2>1. InSeq(buffer) \cap InSeq(Taken(b)) = {}
    BY <1>1, <1>2
  <2> QED BY <1>1, <1>2, <1>3, <2>1, Joined
<1>5. full' # {} => Cardinality(tracked) >= MaxSize
  <2>1. CASE Taken(b) = b
    <3>1. full' = full
      BY <1>3, <2>1
    <3> QED BY <3>1 DEF EventsInv, EventsAreKept
  <2>2. CASE Len(buffer) + Len(b) >= MaxSize
    <3> DEFINE all == buffer \o b
    <3>1. /\ all \in Seq(EventIDs) /\ Len(all) = Len(buffer) + Len(b)
          /\ InSeq(all) \subseteq tracked /\ Distinct(all)
      BY <1>1, Joined
    <3>2. IsFiniteSet(tracked) /\ Cardinality(tracked) \in Nat
      <4>1. Cardinality(tracked) \in Int /\ 1 \in Int
        BY DEF EventsInv, NamedInOrder
      <4> QED BY <4>1, FS_Interval DEF EventsInv, NamedInOrder
    <3>3. Len(all) <= Cardinality(tracked)
      BY <3>1, <3>2, DistinctFits
    <3> HIDE DEF all
    <3> QED BY <1>1, <2>2, <3>1, <3>2, <3>3, EventsConstants
  <2> QED BY <1>2, <2>1, <2>2
<1>6. QED BY <1>1, <1>2, <1>3, <1>4, <1>5

\* EventsBuffer's invariant holds before anything is tracked.
THEOREM EventsInitInv == EventsInit => EventsInv
<1> SUFFICES ASSUME EventsInit PROVE EventsInv
  OBVIOUS
<1> USE DEF EventsInit
<1>1. EventsTypeOK
  BY EventsConstants DEF EventsTypeOK
<1>2. NamedInOrder
  BY FS_EmptySet DEF NamedInOrder
<1>3. PlacedOnce /\ InSeq(buffer) = {}
  BY DEF PlacedOnce, Places, InSeq, Distinct
<1>4. SavedWhenTracked
  BY EventsConstants DEF SavedWhenTracked
<1>5. EventsAreKept
  BY <1>3 DEF EventsAreKept, Outstanding
<1>6. QED BY <1>1, <1>2, <1>3, <1>4, <1>5 DEF EventsInv

\* What a step that takes a batch back leaves true.
LEMMA PutBackInv ==
    ASSUME EventsInv, NEW b \in flushed, PushMany(b),
           flushed' = flushed \ {b}, UNCHANGED <<server, tracked>>,
           saved' \in [EventIDs -> 0 .. MaxSaves + 1],
           unsure \subseteq unsure', unsure' \subseteq tracked,
           \A e \in EventIDs : e \in InSeq(b) /\ saved'[e] # saved[e] => e \in unsure',
           \A e \in EventIDs : IF e \in InSeq(b) THEN saved'[e] <= MaxSaves /\ saved'[e] >= saved[e]
                                                 ELSE saved'[e] = saved[e]
    PROVE  EventsInv'
<1>1. /\ buffer' \in Seq(EventIDs) /\ Len(buffer') <= MaxSize
      /\ Distinct(buffer') /\ InSeq(buffer') \subseteq InSeq(buffer) \cup InSeq(b)
      /\ InSeq(buffer) \subseteq InSeq(buffer')
      /\ InSeq(b) \subseteq InSeq(buffer') \cup full' /\ full \subseteq full'
      /\ full' \subseteq tracked
      /\ full' # {} => Cardinality(tracked) >= MaxSize
  BY PutBack
<1>2. EventsTypeOK'
  BY <1>1 DEF EventsInv, EventsTypeOK
<1>3. NamedInOrder'
  BY DEF EventsInv, NamedInOrder
<1>4. \A c \in flushed' : InSeq(c) \cap InSeq(b) = {} /\ InSeq(c) \cap InSeq(buffer) = {}
  BY DEF EventsInv, EventsAreKept, PlacedOnce
<1>5. PlacedOnce'
  BY <1>1, <1>4 DEF EventsInv, PlacedOnce, Places
<1>6. Outstanding' \subseteq Outstanding /\ Outstanding \subseteq Outstanding' \cup full'
  BY <1>1 DEF Outstanding
<1>7. MaxSaves \in Nat /\ tracked \subseteq EventIDs /\ saved \in [EventIDs -> 0 .. MaxSaves + 1]
  BY EventsConstants DEF EventsInv, EventsTypeOK
<1>8. InSeq(b) \subseteq tracked /\ InSeq(b) \subseteq Outstanding
  BY DEF EventsInv, PlacedOnce, Places, Outstanding
<1>9. SavedWhenTracked'
  BY <1>6, <1>7, <1>8 DEF EventsInv, SavedWhenTracked
<1>10. EventsAreKept'
  <2>1. \A e \in tracked \ full' : e \in Outstanding' \/ saved'[e] > 0
    <3> SUFFICES ASSUME NEW e \in tracked \ full', e \notin Outstanding' PROVE saved'[e] > 0
      OBVIOUS
    <3>1. e \notin Outstanding /\ e \notin full /\ e \notin InSeq(b)
      BY <1>1, <1>6, <1>8
    <3> QED BY <1>7, <3>1 DEF EventsInv, EventsAreKept
  <2>2. \A e \in EventIDs \ unsure' : saved'[e] <= 1 /\ (e \in Outstanding' => saved'[e] = 0)
    <3> SUFFICES ASSUME NEW e \in EventIDs \ unsure'
                 PROVE  saved'[e] <= 1 /\ (e \in Outstanding' => saved'[e] = 0)
      OBVIOUS
    <3>1. saved'[e] = saved[e] /\ e \notin unsure
      OBVIOUS
    <3> QED BY <1>6, <3>1 DEF EventsInv, EventsAreKept
  <2>3. \A c, d \in flushed' \cup {buffer'} : c # d => InSeq(c) \cap InSeq(d) = {}
    BY <1>1, <1>4 DEF EventsInv, EventsAreKept
  <2>4. QED BY <1>1, <2>1, <2>2, <2>3 DEF EventsAreKept
<1>11. QED BY <1>2, <1>3, <1>5, <1>9, <1>10 DEF EventsInv

\* Tracking, saving, putting back and the death of the server keep it.
THEOREM EventsStepInv == EventsInv /\ [EventsNext]_eventsVars => EventsInv'
<1> SUFFICES ASSUME EventsInv, [EventsNext]_eventsVars PROVE EventsInv'
  OBVIOUS
<1>c. EventIDs \subseteq Nat /\ MaxSize \in Nat \ {0} /\ MaxSaves \in Nat \ {0}
  BY EventsConstants
<1>t. /\ tracked \subseteq EventIDs /\ buffer \in Seq(EventIDs) /\ Len(buffer) <= MaxSize
      /\ saved \in [EventIDs -> 0 .. MaxSaves + 1]
      /\ full \subseteq tracked /\ unsure \subseteq tracked
  BY DEF EventsInv, EventsTypeOK
<1>1. ASSUME NEW e \in EventIDs, Push(e) PROVE EventsInv'
  <2>1. /\ e = Cardinality(tracked) + 1 /\ tracked' = tracked \cup {e}
        /\ UNCHANGED <<server, flushed, saved, unsure>>
    BY <1>1 DEF Push
  <2>2. NamedInOrder' /\ e \notin tracked
        /\ Cardinality(tracked') = Cardinality(tracked) + 1 /\ IsFiniteSet(tracked)
    <3> DEFINE n == Cardinality(tracked)
    <3>1. n \in Nat /\ tracked = 1 .. n
      BY DEF EventsInv, NamedInOrder
    <3>2. e = n + 1 /\ tracked' = tracked \cup {e}
      BY <2>1
    <3> HIDE DEF n
    <3>3. tracked' = 1 .. n + 1 /\ e \notin tracked
      BY <3>1, <3>2
    <3>4. Cardinality(tracked') = n + 1 /\ IsFiniteSet(tracked)
      <4>1. n + 1 \in Int /\ 1 \in Int /\ n \in Int /\ ~(1 > n + 1) /\ (n + 1) - 1 + 1 = n + 1
        BY <3>1
      <4> QED BY <3>1, <3>3, <4>1, FS_Interval
    <3>5. QED BY <3>1, <3>3, <3>4 DEF NamedInOrder, n
  <2>3. /\ buffer' \in Seq(EventIDs) /\ Len(buffer') <= MaxSize
        /\ Distinct(buffer') /\ InSeq(buffer') \subseteq InSeq(buffer) \cup {e}
        /\ InSeq(buffer) \subseteq InSeq(buffer') /\ full \subseteq full' /\ full' \subseteq full \cup {e}
        /\ e \in InSeq(buffer') \/ e \in full'
        /\ full' # {} => Cardinality(tracked') >= MaxSize
    <3>0. Distinct(buffer) /\ InSeq(buffer) \subseteq tracked
      BY DEF EventsInv, PlacedOnce, Places
    <3>1. CASE Len(buffer) < MaxSize
      <4>1. buffer' = Append(buffer, e) /\ full' = full
        BY <1>1, <3>1 DEF Push
      <4>2. Len(buffer) \in Nat /\ DOMAIN buffer = 1 .. Len(buffer)
        BY <1>t
      <4>3. /\ buffer' \in Seq(EventIDs) /\ Len(buffer') = Len(buffer) + 1
            /\ DOMAIN buffer' = 1 .. Len(buffer) + 1
            /\ \A i \in 1 .. Len(buffer) : buffer'[i] = buffer[i]
            /\ buffer'[Len(buffer) + 1] = e
        BY <1>t, <4>1
      <4>4. DOMAIN buffer' = DOMAIN buffer \cup {Len(buffer) + 1}
        BY <4>2, <4>3
      <4>5. InSeq(buffer') = InSeq(buffer) \cup {e}
        BY <4>2, <4>3, <4>4 DEF InSeq
      <4>6. Distinct(buffer')
        <5>1. \A i \in DOMAIN buffer : buffer[i] # e
          BY <2>2, <3>0 DEF InSeq
        <5> QED BY <3>0, <4>2, <4>3, <4>4, <5>1 DEF Distinct
      <4>7. full' # {} => Cardinality(tracked') >= MaxSize
        <5>1. Cardinality(tracked) \in Nat
          BY DEF EventsInv, NamedInOrder
        <5> QED BY <1>c, <2>2, <4>1, <5>1 DEF EventsInv, EventsAreKept
      <4> QED BY <1>c, <3>1, <4>1, <4>2, <4>3, <4>5, <4>6, <4>7
    <3>2. CASE ~(Len(buffer) < MaxSize)
      <4>1. buffer' = buffer /\ full' = full \cup {e}
        BY <1>1, <3>2 DEF Push
      <4>2. Len(buffer) <= Cardinality(tracked)
        BY <1>t, <2>2, <3>0, DistinctFits
      <4>3. Len(buffer) \in Nat /\ Cardinality(tracked) \in Nat
        BY <1>t DEF EventsInv, NamedInOrder
      <4>4. Cardinality(tracked') >= MaxSize
        BY <1>c, <2>2, <3>2, <4>2, <4>3
      <4> QED BY <1>t, <3>0, <4>1, <4>4
    <3> QED BY <3>1, <3>2
  <2>4. EventsTypeOK'
    BY <1>t, <2>1, <2>3 DEF EventsInv, EventsTypeOK
  <2>5. \A b \in flushed : e \notin InSeq(b)
    BY <2>2 DEF EventsInv, PlacedOnce, Places
  <2>6. PlacedOnce'
    BY <2>1, <2>3, <2>5 DEF EventsInv, PlacedOnce, Places
  <2>7. Outstanding' \subseteq Outstanding \cup {e} /\ Outstanding \subseteq Outstanding'
        /\ e \in Outstanding' \cup full'
    BY <2>1, <2>3 DEF Outstanding
  <2>8. saved[e] = 0
    BY <2>2 DEF EventsInv, SavedWhenTracked
  <2>9. SavedWhenTracked'
    BY <1>c, <2>1, <2>7, <2>8 DEF EventsInv, SavedWhenTracked
  <2>10. EventsAreKept'
    <3>1. \A d \in tracked' \ full' : d \in Outstanding' \/ saved'[d] > 0
      BY <2>1, <2>3, <2>7 DEF EventsInv, EventsAreKept
    <3>2. \A d \in EventIDs \ unsure' : saved'[d] <= 1 /\ (d \in Outstanding' => saved'[d] = 0)
      BY <2>1, <2>7, <2>8 DEF EventsInv, EventsAreKept
    <3>3. \A b, c \in flushed' \cup {buffer'} : b # c => InSeq(b) \cap InSeq(c) = {}
      <4>1. \A b \in flushed : InSeq(b) \cap InSeq(buffer') = {}
        BY <2>3, <2>5 DEF EventsInv, PlacedOnce
      <4> QED BY <2>1, <4>1 DEF EventsInv, EventsAreKept
    <3>4. QED BY <2>3, <3>1, <3>2, <3>3 DEF EventsAreKept
  <2>11. QED BY <2>2, <2>4, <2>6, <2>9, <2>10 DEF EventsInv
<1>2. CASE Flush
  <2>1. /\ buffer # <<>> /\ flushed' = flushed \cup {buffer} /\ buffer' = <<>>
        /\ UNCHANGED <<server, tracked, saved, full, unsure>>
    BY <1>2 DEF Flush
  <2>2. InSeq(buffer') = {} /\ Distinct(buffer') /\ buffer' \in Seq(EventIDs) /\ Len(buffer') = 0
    BY <2>1 DEF InSeq, Distinct
  <2>3. Outstanding' = Outstanding
    BY <2>1, <2>2 DEF Outstanding
  <2>4. EventsTypeOK'
    BY <1>c, <1>t, <2>1, <2>2 DEF EventsInv, EventsTypeOK
  <2>5. NamedInOrder'
    BY <2>1 DEF EventsInv, NamedInOrder
  <2>6. PlacedOnce'
    BY <2>1, <2>2 DEF EventsInv, PlacedOnce, Places
  <2>7. SavedWhenTracked'
    BY <2>1, <2>3 DEF EventsInv, SavedWhenTracked
  <2>8. EventsAreKept'
    BY <2>1, <2>2, <2>3 DEF EventsInv, EventsAreKept
  <2>9. QED BY <2>4, <2>5, <2>6, <2>7, <2>8 DEF EventsInv
<1>3. ASSUME NEW b \in flushed, SaveEvents(b) PROVE EventsInv'
  <2>1. /\ flushed' = flushed \ {b} /\ InsertAll(b)
        /\ UNCHANGED <<server, tracked, buffer, full, unsure>>
    BY <1>3 DEF SaveEvents
  <2>2. InSeq(b) \subseteq tracked /\ InSeq(b) \subseteq Outstanding
    BY DEF EventsInv, PlacedOnce, Places, Outstanding
  <2>3. \A e \in InSeq(b) : saved[e] <= MaxSaves /\ (e \notin unsure => saved[e] = 0)
    BY <1>t, <2>2 DEF EventsInv, SavedWhenTracked, EventsAreKept
  <2>4. /\ saved' \in [EventIDs -> 0 .. MaxSaves + 1]
        /\ \A e \in EventIDs : saved'[e] = IF e \in InSeq(b) THEN saved[e] + 1 ELSE saved[e]
    BY <1>c, <1>t, <2>1, <2>3 DEF InsertAll
  <2>5. \A c \in flushed' \cup {buffer} : InSeq(c) \cap InSeq(b) = {}
    BY <2>1 DEF EventsInv, EventsAreKept, PlacedOnce
  <2>6. Outstanding' = Outstanding \ InSeq(b)
    BY <2>1, <2>5 DEF Outstanding
  <2>7. EventsTypeOK'
    BY <1>t, <2>1, <2>4 DEF EventsInv, EventsTypeOK
  <2>8. NamedInOrder' /\ PlacedOnce'
    BY <2>1 DEF EventsInv, NamedInOrder, PlacedOnce, Places
  <2>9. SavedWhenTracked'
    BY <1>t, <2>1, <2>2, <2>4, <2>6 DEF EventsInv, SavedWhenTracked
  <2>10. EventsAreKept'
    <3>1. \A e \in tracked' \ full' : e \in Outstanding' \/ saved'[e] > 0
      BY <1>t, <2>1, <2>4, <2>6 DEF EventsInv, EventsAreKept
    <3>2. \A e \in EventIDs \ unsure' : saved'[e] <= 1 /\ (e \in Outstanding' => saved'[e] = 0)
      BY <2>1, <2>3, <2>4, <2>6 DEF EventsInv, EventsAreKept
    <3>3. \A c, d \in flushed' \cup {buffer'} : c # d => InSeq(c) \cap InSeq(d) = {}
      BY <2>1 DEF EventsInv, EventsAreKept
    <3>4. QED BY <2>1, <3>1, <3>2, <3>3 DEF EventsInv, EventsAreKept
  <2>11. QED BY <2>7, <2>8, <2>9, <2>10 DEF EventsInv
<1>4. ASSUME NEW b \in flushed, BufferBack(b) PROVE EventsInv'
  <2>1. /\ flushed' = flushed \ {b} /\ PushMany(b) /\ UNCHANGED <<server, tracked, saved, unsure>>
    BY <1>4 DEF BufferBack
  <2>2. \A e \in InSeq(b) : saved[e] <= MaxSaves
    <3>1. InSeq(b) \subseteq Outstanding /\ InSeq(b) \subseteq EventIDs
      BY <1>t DEF EventsInv, PlacedOnce, Places, Outstanding
    <3> QED BY <3>1 DEF EventsInv, SavedWhenTracked
  <2>3. QED BY <1>c, <1>t, <2>1, <2>2, PutBackInv
<1>5. ASSUME NEW b \in flushed, BufferBackCommitted(b) PROVE EventsInv'
  <2>1. /\ flushed' = flushed \ {b} /\ PushMany(b) /\ InsertAll(b)
        /\ \A e \in InSeq(b) : saved[e] < MaxSaves
        /\ unsure' = unsure \cup InSeq(b) /\ UNCHANGED <<server, tracked>>
    BY <1>5 DEF BufferBackCommitted
  <2>2. InSeq(b) \subseteq tracked
    BY DEF EventsInv, PlacedOnce, Places
  <2>3. /\ saved' \in [EventIDs -> 0 .. MaxSaves + 1]
        /\ \A e \in EventIDs : saved'[e] = IF e \in InSeq(b) THEN saved[e] + 1 ELSE saved[e]
    BY <1>c, <1>t, <2>1 DEF InsertAll
  <2>4. \A e \in EventIDs : IF e \in InSeq(b) THEN saved'[e] <= MaxSaves /\ saved'[e] >= saved[e]
                                              ELSE saved'[e] = saved[e]
    BY <1>c, <1>t, <2>1, <2>3
  <2>5. QED BY <1>t, <2>1, <2>2, <2>3, <2>4, PutBackInv
<1>6. CASE Shutdown \/ Exit \/ UNCHANGED eventsVars
  <2>1. /\ server' \in {"up", "stopping", "down"}
        /\ UNCHANGED <<tracked, buffer, flushed, saved, full, unsure>>
    BY <1>6 DEF Shutdown, Exit, eventsVars, EventsInv, EventsTypeOK
  <2>2. QED BY <2>1 DEF EventsInv, EventsTypeOK, NamedInOrder, PlacedOnce, Places,
                        SavedWhenTracked, EventsAreKept, Outstanding
<1>7. QED BY <1>1, <1>2, <1>3, <1>4, <1>5, <1>6 DEF EventsNext

\* The variables have the types the code gives them.
THEOREM EventsTypes == EventsSpec => []EventsTypeOK
<1>1. EventsInv => EventsTypeOK
  BY DEF EventsInv
<1>2. QED BY EventsInitInv, EventsStepInv, <1>1, PTL DEF EventsSpec

\* An event is saved or about to be while the server lives, once, and in one place at a
\* time: unless the buffer had no space for it, or an error hid a commit.
THEOREM NoEventIsLost == EventsSpec => []EventsAreKept
<1>1. EventsInv => EventsAreKept
  BY DEF EventsInv
<1>2. QED BY EventsInitInv, EventsStepInv, <1>1, PTL DEF EventsSpec

-----------------------------------------------------------------------------
(***************************************************************************)
(* Servers.  A leader that hasn't lost its session holds the lock, so that *)
(* there is one of them when the daily tasks are due.                      *)
(***************************************************************************)
LeadersHoldLock ==
    /\ IsFiniteSet(running) /\ IsFiniteSet(runs)
    /\ lost \subseteq leaders /\ (lock \in ServerIDs => lock \in leaders)
    /\ \A s \in leaders \ lost : lock = s
    /\ \A s, t \in runs \ lapsed : s = t

NotNew == {k \in KeyIDs : key[k].state # "new"}

(***************************************************************************)
(* Keys are made in the order of their numbers, the last one stays, and    *)
(* only old ones are deleted.  At an odd time no task is due: a key is     *)
(* then made only by a server that found none when it started.             *)
(***************************************************************************)
KeysAreInOrder ==
    /\ \A k \in KeyIDs : key[k].made <= now
    /\ \A j, k \in KeyIDs : j < k /\ k \in NotNew => j \in NotNew /\ key[j].made <= key[k].made
    /\ \A j, k \in NotNew : j < k /\ key[k].made % 2 = 1 => key[j].made = key[k].made
    /\ NotNew # {} => \E k \in Stored : \A j \in NotNew : j <= k
    /\ \A k \in KeyIDs : key[k].state = "deleted" => key[k].made + KeyLife < now

\* A server that starts without a key finds at most keys that were made meanwhile.
SignersHaveKeys ==
    /\ \A s \in running : signing[s] \in NotNew
    /\ \A s \in ServerIDs : starting[s] = "no key" =>
         s \notin running /\ \A k \in NotNew : key[k].made = now
    /\ \A t \in tokens : t.key \in NotNew /\ t.signed <= now /\ now <= t.signed + TokenLife

\* Made on the day before the daily tasks were last due, or later.
Fresh(k) == key[k].made + 2 > now - (now % 2)

(***************************************************************************)
(* Who rotates runs the daily tasks, at the time they are due.  Whoever    *)
(* rotates alone and finds a key of the day finds that all keys are of     *)
(* the day, its own too: otherwise it would have been another rotation     *)
(* that made it.                                                           *)
(***************************************************************************)
RotationsAreDaily ==
    /\ refreshed \subseteq runs \cap running
    /\ \A s \in ServerIDs : rotating[s] # "no" => s \in runs \cap running /\ now % 2 = 0
    /\ \A s \in ServerIDs : rotating[s] \in {"due", "make"} => s \notin refreshed
    /\ \A s \in ServerIDs : rotating[s] = "delete" => \E k \in Stored : Fresh(k)
    /\ \A s \in ServerIDs : rotating[s] = "due" /\ runs = {s} =>
         \A j, k \in NotNew : Fresh(k) => Fresh(j)
    /\ \A s \in refreshed : runs = {s} => Fresh(signing[s])

ServersInv ==
    /\ ServersTypeOK /\ LeadersHoldLock /\ KeysAreInOrder /\ SignersHaveKeys
    /\ RotationsAreDaily

-----------------------------------------------------------------------------
LEMMA ServersConstants ==
    /\ KeyIDs \subseteq Nat /\ NoKey \notin KeyIDs
    /\ KeyLife \in Nat /\ TokenLife \in Nat /\ MaxTime \in Nat /\ MaxTokens \in Nat
    /\ TokenLife < KeyLife
    /\ Nobody \notin ServerIDs /\ DeadSession \notin ServerIDs /\ Nobody # DeadSession
BY ServersAssumption

LEMMA Halves ==
    ASSUME NEW n \in Nat
    PROVE  n % 2 \in {0, 1} /\ (n + 1) % 2 = 1 - (n % 2)
OBVIOUS

\* A set whose elements are all the same has at most one.
LEMMA AtMostOne ==
    ASSUME NEW S, \A s, t \in S : s = t
    PROVE  IsFiniteSet(S) /\ Cardinality(S) <= 1
<1>1. CASE S = {}
  BY <1>1, FS_EmptySet
<1>2. ASSUME NEW s \in S PROVE IsFiniteSet(S) /\ Cardinality(S) <= 1
  <2>1. S = {s}
    OBVIOUS
  <2>2. IsFiniteSet({s}) /\ Cardinality({s}) = 1
    BY FS_Singleton
  <2> QED BY <2>1, <2>2
<1> QED BY <1>1, <1>2

LEMMA KeyTypes ==
    ASSUME ServersTypeOK
    PROVE  /\ now \in Nat /\ now <= MaxTime
           /\ \A k \in KeyIDs : key[k].made \in Nat /\ key[k].state \in {"new", "stored", "deleted"}
           /\ Stored \subseteq NotNew /\ NotNew \subseteq KeyIDs
           /\ \A k \in NotNew \ Stored : key[k].state = "deleted"
<1>1. now \in Nat /\ now <= MaxTime
  <2>1. now \in 0 .. MaxTime
    BY DEF ServersTypeOK
  <2> QED BY <2>1, ServersConstants
<1>2. \A k \in KeyIDs : key[k].made \in 0 .. MaxTime /\ key[k].state \in {"new", "stored", "deleted"}
  BY DEF ServersTypeOK, Key
<1>3. \A k \in KeyIDs : key[k].made \in Nat
  BY <1>2, ServersConstants
<1>4. QED BY <1>1, <1>2, <1>3 DEF Stored, NotNew

LEMMA TokenTypes ==
    ASSUME ServersTypeOK
    PROVE  \A t \in tokens : t.key \in KeyIDs /\ t.signed \in Nat
<1>1. \A t \in tokens : t.key \in KeyIDs /\ t.signed \in 0 .. MaxTime
  BY DEF ServersTypeOK, Token
<1>2. QED BY <1>1, ServersConstants

\* The latest key is the one that was generated last.
LEMMA LatestIsNewest ==
    ASSUME ServersTypeOK, KeysAreInOrder
    PROVE  /\ Latest = NoKey => NotNew = {}
           /\ Latest # NoKey => /\ Latest \in Stored
                                /\ \A j \in NotNew : j <= Latest /\ key[j].made <= key[Latest].made
<1>1. CASE Stored = {}
  <2>1. Latest = NoKey
    BY <1>1 DEF Latest
  <2> QED BY <1>1, <2>1 DEF KeysAreInOrder
<1>2. CASE Stored # {}
  <2> DEFINE P(k) == \A j \in Stored : \/ key[j].made < key[k].made
                                       \/ key[j].made = key[k].made /\ j <= k
  <2>1. Latest = CHOOSE k \in Stored : P(k)
    BY <1>2 DEF Latest
  <2>2. NotNew # {}
    BY <1>2, KeyTypes
  <2>3. PICK k \in Stored : \A j \in NotNew : j <= k
    BY <2>2 DEF KeysAreInOrder
  <2>4. k \in NotNew /\ k \in Nat /\ \A j \in NotNew : j \in Nat /\ j \in KeyIDs
    BY <2>3, KeyTypes, ServersConstants
  <2>5. \A j \in NotNew : key[j].made <= key[k].made
    <3> SUFFICES ASSUME NEW j \in NotNew PROVE key[j].made <= key[k].made
      OBVIOUS
    <3>1. j < k \/ j = k
      BY <2>3, <2>4
    <3>2. key[j].made \in Nat
      BY <2>4, KeyTypes
    <3> QED BY <2>4, <3>1, <3>2 DEF KeysAreInOrder
  <2>6. P(k)
    <3> SUFFICES ASSUME NEW j \in Stored
                 PROVE  key[j].made < key[k].made \/ (key[j].made = key[k].made /\ j <= k)
      OBVIOUS
    <3>1. j \in NotNew /\ j <= k /\ key[j].made <= key[k].made
      BY <2>3, <2>5, KeyTypes
    <3>2. key[j].made \in Nat /\ key[k].made \in Nat
      BY <2>4, <3>1, KeyTypes
    <3> QED BY <3>1, <3>2
  <2>7. Latest \in Stored /\ P(Latest)
    BY <2>1, <2>3, <2>6
  <2>8. Latest = k
    <3>1. Latest \in NotNew
      BY <2>7, KeyTypes
    <3>2. Latest <= k /\ key[Latest].made <= key[k].made
      BY <2>3, <2>5, <3>1
    <3>3. key[k].made < key[Latest].made \/ (key[k].made = key[Latest].made /\ k <= Latest)
      BY <2>3, <2>7
    <3> QED BY <2>4, <3>1, <3>2, <3>3, KeyTypes
  <2>9. QED BY <2>3, <2>5, <2>8, ServersConstants, KeyTypes
<1>3. QED BY <1>1, <1>2

\* A new key comes after the others; it is in order when no key is older than it, or
\* when it is made at an even time.
LEMMA NewKey ==
    ASSUME ServersTypeOK, KeysAreInOrder, NEW k \in KeyIDs,
           GenerateAndSaveNewJwtKey(k), now' = now,
           now % 2 = 0 \/ \A j \in NotNew : key[j].made = now
    PROVE  /\ key' \in [KeyIDs -> Key] /\ NotNew' = NotNew \cup {k}
           /\ Stored' = Stored \cup {k} /\ key'[k].made = now
           /\ \A j \in NotNew : key'[j] = key[j]
           /\ KeysAreInOrder'
<1>1. key' = [key EXCEPT ![k] = [state |-> "stored", made |-> now]] /\ key[k].state = "new"
  BY DEF GenerateAndSaveNewJwtKey
<1>2. now \in 0 .. MaxTime /\ now \in Nat /\ key \in [KeyIDs -> Key]
  BY KeyTypes DEF ServersTypeOK
<1>3. /\ key'[k].state = "stored" /\ key'[k].made = now
      /\ \A j \in KeyIDs \ {k} : key'[j] = key[j]
  BY <1>1, <1>2
<1>4. key' \in [KeyIDs -> Key]
  <2>1. [state |-> "stored", made |-> now] \in Key
    BY <1>2 DEF Key
  <2> QED BY <1>1, <1>2, <2>1
<1>5. k \notin NotNew /\ NotNew' = NotNew \cup {k} /\ Stored' = Stored \cup {k}
  BY <1>1, <1>3 DEF NotNew, Stored
<1>6. \A j \in NotNew : j < k /\ j \in KeyIDs /\ key'[j] = key[j]
  <2> SUFFICES ASSUME NEW j \in NotNew PROVE j < k /\ j \in KeyIDs /\ key'[j] = key[j]
    OBVIOUS
  <2>1. j \in KeyIDs /\ j # k
    BY <1>5 DEF NotNew
  <2>2. ~(k < j)
    BY <1>5, <2>1 DEF KeysAreInOrder
  <2> QED BY <1>3, <2>1, <2>2, ServersConstants
<1>7. \A j \in KeyIDs : j < k => j \in NotNew
  BY DEF GenerateAndSaveNewJwtKey, NotNew
<1>8. KeysAreInOrder'
  <2>1. \A j \in KeyIDs : key'[j].made <= now'
    BY <1>2, <1>3 DEF KeysAreInOrder
  <2>2. \A i, j \in KeyIDs : i < j /\ j \in NotNew' =>
           i \in NotNew' /\ key'[i].made <= key'[j].made
    <3> SUFFICES ASSUME NEW i \in KeyIDs, NEW j \in KeyIDs, i < j, j \in NotNew'
                 PROVE  i \in NotNew' /\ key'[i].made <= key'[j].made
      OBVIOUS
    <3>1. CASE j = k
      BY <1>3, <1>5, <1>6, <1>7, <3>1 DEF KeysAreInOrder
    <3>2. CASE j # k
      BY <1>5, <1>6, <3>2 DEF KeysAreInOrder
    <3> QED BY <3>1, <3>2
  <2>3. \A i, j \in NotNew' : i < j /\ key'[j].made % 2 = 1 => key'[i].made = key'[j].made
    <3> SUFFICES ASSUME NEW i \in NotNew', NEW j \in NotNew', i < j, key'[j].made % 2 = 1
                 PROVE  key'[i].made = key'[j].made
      OBVIOUS
    <3>1. CASE j = k
      <4>1. i \in NotNew
        BY <1>5, <3>1, ServersConstants
      <4>2. \A n \in NotNew : key[n].made = now
        BY <1>3, <3>1
      <4> QED BY <1>3, <1>6, <3>1, <4>1, <4>2
    <3>2. CASE j # k
      <4>1. j \in NotNew /\ j < k /\ j \in Nat /\ k \in Nat
        BY <1>5, <1>6, <3>2, ServersConstants
      <4>2. i # k
        BY <4>1
      <4> QED BY <1>5, <1>6, <3>2, <4>2 DEF KeysAreInOrder
    <3> QED BY <3>1, <3>2
  <2>4. \E n \in Stored' : \A j \in NotNew' : j <= n
    <3>1. k \in Stored' /\ k \in Nat /\ NotNew \subseteq Nat
      BY <1>5, <1>6, ServersConstants
    <3>2. \A j \in NotNew' : j <= k
      BY <1>5, <1>6, <3>1
    <3> QED BY <3>1, <3>2
  <2>5. \A j \in KeyIDs : key'[j].state = "deleted" => key'[j].made + KeyLife < now'
    BY <1>3 DEF KeysAreInOrder
  <2>6. QED BY <2>1, <2>2, <2>3, <2>4, <2>5 DEF KeysAreInOrder
<1>9. QED BY <1>3, <1>4, <1>5, <1>6, <1>8

\* What depends only on the keys and the time.
LEMMA KeysKept ==
    ASSUME KeysAreInOrder, key' = key, now' = now
    PROVE  /\ NotNew' = NotNew /\ Stored' = Stored /\ KeysAreInOrder'
           /\ \A k : Fresh(k)' <=> Fresh(k)
BY DEF NotNew, Stored, KeysAreInOrder, Fresh

\* The invariant of Servers holds when the first of them starts.
THEOREM ServersInitInv == ServersInit => ServersInv
<1> SUFFICES ASSUME ServersInit PROVE ServersInv
  OBVIOUS
<1> USE DEF ServersInit
<1>1. ServersTypeOK
  <2>1. 0 \in 0 .. MaxTime
    BY ServersConstants
  <2>2. key \in [KeyIDs -> Key]
    BY <2>1 DEF Key
  <2> QED BY <2>1, <2>2 DEF ServersTypeOK
<1>2. LeadersHoldLock
  BY FS_EmptySet, ServersConstants DEF LeadersHoldLock
<1>3. NotNew = {} /\ Stored = {}
  BY DEF NotNew, Stored
<1>4. KeysAreInOrder
  BY <1>3 DEF KeysAreInOrder
<1>5. SignersHaveKeys
  BY DEF SignersHaveKeys
<1>6. RotationsAreDaily
  BY DEF RotationsAreDaily
<1>7. QED BY <1>1, <1>2, <1>4, <1>5, <1>6 DEF ServersInv

\* A server that begins has a key, and disturbs no rotation.
LEMMA BegunInv ==
    ASSUME ServersInv, NEW s \in ServerIDs, s \notin running,
           running' = running \cup {s}, NEW k \in KeyIDs, signing' = [signing EXCEPT ![s] = k],
           k \in NotNew', NotNew \subseteq NotNew', now' = now,
           UNCHANGED <<lock, leaders, rotating, tokens, runs, lost, lapsed, refreshed>>,
           starting' \in [ServerIDs -> {"no", "no key"}], key' \in [KeyIDs -> Key],
           \A j \in NotNew : key'[j] = key[j], Stored \subseteq Stored',
           KeysAreInOrder',
           \A x \in ServerIDs : starting'[x] = "no key" =>
             x \notin running' /\ \A j \in NotNew' : key'[j].made = now,
           \A j \in NotNew' \ NotNew : \A n \in NotNew' : Fresh(n)'
    PROVE  ServersInv'
<1>0. /\ ServersTypeOK /\ LeadersHoldLock /\ KeysAreInOrder /\ SignersHaveKeys
      /\ RotationsAreDaily
  BY DEF ServersInv
<1>1. ServersTypeOK'
  BY <1>0 DEF ServersTypeOK
<1>2. LeadersHoldLock'
  BY <1>0, FS_AddElement DEF LeadersHoldLock
<1>3. SignersHaveKeys'
  <2>1. \A x \in running' : signing'[x] \in NotNew'
    BY <1>0 DEF SignersHaveKeys, ServersTypeOK
  <2> QED BY <1>0, <2>1 DEF SignersHaveKeys
<1>4. \A j \in NotNew : Fresh(j)' <=> Fresh(j)
  BY DEF Fresh
<1>5. RotationsAreDaily'
  <2>1. \A x \in ServerIDs : rotating'[x] = "delete" => \E j \in Stored' : Fresh(j)'
    BY <1>0, <1>4, KeyTypes DEF RotationsAreDaily
  <2>2. \A x \in ServerIDs : rotating'[x] = "due" /\ runs' = {x} =>
           \A i, j \in NotNew' : Fresh(j)' => Fresh(i)'
    BY <1>0, <1>4 DEF RotationsAreDaily
  <2>3. \A x \in refreshed' : x \in running /\ x # s /\ signing'[x] = signing[x]
                              /\ signing[x] \in NotNew
    <3>1. \A x \in refreshed : x \in running /\ signing[x] \in NotNew
      BY <1>0 DEF RotationsAreDaily, SignersHaveKeys
    <3>2. signing \in [ServerIDs -> KeyIDs \cup {NoKey}] /\ running \subseteq ServerIDs
      BY <1>0 DEF ServersTypeOK
    <3> QED BY <3>1, <3>2
  <2>4. \A x \in refreshed' : runs' = {x} => Fresh(signing[x])'
    BY <1>0, <1>4, <2>3 DEF RotationsAreDaily, Fresh
  <2>5. QED BY <1>0, <2>1, <2>2, <2>3, <2>4 DEF RotationsAreDaily, Fresh
<1>6. QED BY <1>1, <1>2, <1>3, <1>5 DEF ServersInv

\* Whatever a server does, and its death, keeps it.
THEOREM ServersStepInv == ServersInv /\ [ServersNext]_serversVars => ServersInv'
<1> SUFFICES ASSUME ServersInv, [ServersNext]_serversVars PROVE ServersInv'
  OBVIOUS
<1>0. /\ ServersTypeOK /\ LeadersHoldLock /\ KeysAreInOrder /\ SignersHaveKeys
      /\ RotationsAreDaily
  BY DEF ServersInv
<1>c. /\ KeyIDs \subseteq Nat /\ KeyLife \in Nat /\ TokenLife \in Nat /\ MaxTime \in Nat
      /\ Nobody \notin ServerIDs /\ DeadSession \notin ServerIDs
  BY ServersConstants
<1>k. /\ now \in Nat /\ now <= MaxTime /\ now % 2 \in {0, 1}
      /\ \A k \in KeyIDs : key[k].made \in Nat
      /\ Stored \subseteq NotNew /\ NotNew \subseteq KeyIDs
  BY <1>0, KeyTypes, Halves
<1>1. CASE Tick
  <2>1. /\ now < MaxTime /\ now' = now + 1 /\ key' = key
        /\ \A s \in ServerIDs : starting[s] = "no" /\ rotating[s] = "no"
        /\ tokens' = {t \in tokens : now' <= t.signed + TokenLife}
        /\ UNCHANGED <<running, starting, lock, leaders, key, signing, lost>>
    BY <1>1 DEF Tick
  <2>2. NotNew' = NotNew /\ Stored' = Stored
    BY <2>1 DEF NotNew, Stored
  <2>3. KeysAreInOrder'
    BY <1>0, <1>c, <1>k, <2>1, <2>2 DEF KeysAreInOrder
  <2>4. \A t \in tokens : t.signed \in Nat
    BY <1>0, TokenTypes
  <2>5. SignersHaveKeys'
    <3>1. \A t \in tokens' : t \in tokens /\ now' <= t.signed + TokenLife
      BY <2>1
    <3>2. \A t \in tokens' : t.key \in NotNew /\ t.signed <= now /\ t.signed \in Nat
      BY <1>0, <2>4, <3>1 DEF SignersHaveKeys
    <3>3. \A t \in tokens' : t.signed <= now'
      BY <1>k, <2>1, <3>2
    <3> QED BY <1>0, <2>1, <2>2, <3>1, <3>2, <3>3 DEF SignersHaveKeys
  <2>6. now' \in 0 .. MaxTime /\ now' \in Nat /\ now' % 2 = 1 - (now % 2)
    BY <1>c, <1>k, <2>1, Halves
  <2>7. CASE now' % 2 = 0
    <3>1. /\ runs' = leaders /\ lapsed' = lost /\ refreshed' = {}
          /\ rotating' = [s \in ServerIDs |-> IF s \in leaders THEN "due" ELSE "no"]
      BY <1>1, <2>7 DEF Tick
    <3>2. ServersTypeOK'
      BY <1>0, <2>1, <2>6, <3>1 DEF ServersTypeOK
    <3>3. LeadersHoldLock'
      <4>1. IsFiniteSet(leaders)
        BY <1>0, FS_Subset DEF LeadersHoldLock, ServersTypeOK
      <4> QED BY <1>0, <2>1, <3>1, <4>1 DEF LeadersHoldLock
    <3>4. ASSUME NEW j \in NotNew, NEW k \in NotNew, Fresh(k)' PROVE Fresh(j)'
      <4>1. now % 2 = 1 /\ now' - (now' % 2) = now + 1
        BY <1>k, <2>1, <2>6, <2>7
      <4>2. key[k].made + 2 > now + 1
        BY <2>1, <3>4, <4>1 DEF Fresh
      <4>3. j \in KeyIDs /\ k \in KeyIDs /\ j \in Nat /\ k \in Nat
        BY <1>c, <1>k
      <4>4. key[k].made = now /\ key[j].made <= now
        BY <1>0, <1>k, <4>2, <4>3 DEF KeysAreInOrder
      <4>5. key[j].made = now
        <5>1. CASE j < k
          BY <1>0, <4>1, <4>4, <5>1 DEF KeysAreInOrder
        <5>2. CASE k < j
          BY <1>0, <1>k, <4>3, <4>4, <5>2 DEF KeysAreInOrder
        <5>3. CASE j = k
          BY <4>4, <5>3
        <5> QED BY <4>3, <5>1, <5>2, <5>3
      <4> QED BY <1>k, <2>1, <4>1, <4>5 DEF Fresh
    <3>5. RotationsAreDaily'
      <4>1. \A s \in ServerIDs : rotating'[s] = IF s \in leaders THEN "due" ELSE "no"
        BY <3>1
      <4>2. leaders \subseteq running
        BY <1>0 DEF ServersTypeOK
      <4> QED BY <2>1, <2>2, <2>7, <3>1, <3>4, <4>1, <4>2 DEF RotationsAreDaily
    <3>6. QED BY <2>3, <2>5, <3>2, <3>3, <3>5 DEF ServersInv
  <2>8. CASE now' % 2 # 0
    <3>1. UNCHANGED <<rotating, runs, lapsed, refreshed>>
      BY <1>1, <2>8 DEF Tick
    <3>2. ServersTypeOK'
      BY <1>0, <2>1, <2>6, <3>1 DEF ServersTypeOK
    <3>3. LeadersHoldLock'
      BY <1>0, <2>1, <3>1 DEF LeadersHoldLock
    <3>4. \A k : Fresh(k)' <=> Fresh(k)
      <4>1. now' - (now' % 2) = now - (now % 2)
        BY <1>k, <2>1, <2>6, <2>8
      <4> QED BY <2>1, <4>1 DEF Fresh
    <3>5. RotationsAreDaily'
      <4>1. \A s \in refreshed' : runs' = {s} => Fresh(signing[s])'
        BY <1>0, <2>1, <3>1, <3>4 DEF RotationsAreDaily, Fresh
      <4> QED BY <1>0, <2>1, <2>2, <3>1, <3>4, <4>1 DEF RotationsAreDaily, Fresh
    <3>6. QED BY <2>3, <2>5, <3>2, <3>3, <3>5 DEF ServersInv
  <2>9. QED BY <2>7, <2>8
<1>2. ASSUME NEW s \in ServerIDs, Start(s) PROVE ServersInv'
  <2>1. /\ s \notin running /\ starting[s] = "no"
        /\ UNCHANGED <<now, lock, leaders, rotating, key, tokens, runs, lost, lapsed, refreshed>>
    BY <1>2 DEF Start
  <2>2. NotNew' = NotNew /\ Stored' = Stored /\ KeysAreInOrder' /\ \A k : Fresh(k)' <=> Fresh(k)
    BY <1>0, <2>1, KeysKept
  <2>3. CASE Latest # NoKey
    <3>1. running' = running \cup {s} /\ signing' = [signing EXCEPT ![s] = Latest]
          /\ starting' = starting
      BY <1>2, <2>3 DEF Start
    <3>2. Latest \in NotNew /\ Latest \in KeyIDs
      BY <1>0, <1>k, <2>3, LatestIsNewest
    <3>3. starting \in [ServerIDs -> {"no", "no key"}] /\ key \in [KeyIDs -> Key]
      BY <1>0 DEF ServersTypeOK
    <3>4. \A x \in ServerIDs : starting'[x] = "no key" =>
             x \notin running' /\ \A j \in NotNew' : key'[j].made = now
      BY <1>0, <2>1, <2>2, <3>1 DEF SignersHaveKeys
    <3> QED BY <2>1, <2>2, <3>1, <3>2, <3>3, <3>4, BegunInv
  <2>4. CASE Latest = NoKey
    <3>1. starting' = [starting EXCEPT ![s] = "no key"] /\ UNCHANGED <<running, signing>>
      BY <1>2, <2>4 DEF Start
    <3>2. NotNew = {}
      BY <1>0, <2>4, LatestIsNewest
    <3>3. ServersTypeOK'
      BY <1>0, <2>1, <3>1 DEF ServersTypeOK
    <3>4. LeadersHoldLock'
      BY <1>0, <2>1, <3>1 DEF LeadersHoldLock
    <3>5. SignersHaveKeys'
      BY <1>0, <2>1, <2>2, <3>1, <3>2 DEF SignersHaveKeys
    <3>6. RotationsAreDaily'
      BY <1>0, <2>1, <2>2, <3>1 DEF RotationsAreDaily, Fresh
    <3>7. QED BY <2>2, <3>3, <3>4, <3>5, <3>6 DEF ServersInv
  <2>5. QED BY <2>3, <2>4
<1>3. ASSUME NEW s \in ServerIDs, StartWithNewKey(s) PROVE ServersInv'
  <2>1. /\ starting[s] = "no key" /\ starting' = [starting EXCEPT ![s] = "no"]
        /\ running' = running \cup {s}
        /\ UNCHANGED <<now, lock, leaders, rotating, tokens, runs, lost, lapsed, refreshed>>
    BY <1>3 DEF StartWithNewKey
  <2>2. PICK k \in KeyIDs : GenerateAndSaveNewJwtKey(k) /\ signing' = [signing EXCEPT ![s] = k]
    BY <1>3 DEF StartWithNewKey
  <2>3. s \notin running /\ \A j \in NotNew : key[j].made = now
    BY <1>0, <2>1 DEF SignersHaveKeys
  <2>4. /\ key' \in [KeyIDs -> Key] /\ NotNew' = NotNew \cup {k}
        /\ Stored' = Stored \cup {k} /\ key'[k].made = now
        /\ \A j \in NotNew : key'[j] = key[j]
        /\ KeysAreInOrder'
    BY <1>0, <2>1, <2>2, <2>3, NewKey
  <2>5. \A n \in NotNew' : key'[n].made = now
    BY <2>3, <2>4
  <2>6. \A n \in NotNew' : Fresh(n)'
    <3>1. now + 2 > now - (now % 2)
      BY <1>k
    <3> QED BY <2>1, <2>5, <3>1 DEF Fresh
  <2>7. starting \in [ServerIDs -> {"no", "no key"}]
    BY <1>0 DEF ServersTypeOK
  <2>8. \A x \in ServerIDs : starting'[x] = "no key" =>
           x \notin running' /\ \A j \in NotNew' : key'[j].made = now
    BY <1>0, <2>1, <2>5, <2>7 DEF SignersHaveKeys
  <2>9. starting' \in [ServerIDs -> {"no", "no key"}] /\ k \in NotNew'
        /\ NotNew \subseteq NotNew' /\ Stored \subseteq Stored'
    BY <2>1, <2>4, <2>7
  <2>10. QED BY <2>1, <2>2, <2>3, <2>4, <2>6, <2>8, <2>9, BegunInv
<1>4. ASSUME NEW s \in ServerIDs, Stop(s) PROVE ServersInv'
  <2>1. /\ running' = running \ {s} /\ leaders' = leaders \ {s}
        /\ starting' = [starting EXCEPT ![s] = "no"]
        /\ rotating' = [rotating EXCEPT ![s] = "no"]
        /\ signing' = [signing EXCEPT ![s] = NoKey]
        /\ refreshed' = refreshed \ {s} /\ lost' = lost \ {s}
        /\ UNCHANGED <<now, key, tokens, runs, lapsed>>
    BY <1>4 DEF Stop
  <2>2. IF lock = s THEN lock' \in {Nobody, DeadSession} ELSE lock' = lock
    BY <1>4 DEF Stop
  <2>3. NotNew' = NotNew /\ Stored' = Stored /\ KeysAreInOrder' /\ \A k : Fresh(k)' <=> Fresh(k)
    BY <1>0, <2>1, KeysKept
  <2>4. ServersTypeOK'
    BY <1>0, <2>1, <2>2 DEF ServersTypeOK
  <2>5. LeadersHoldLock'
    <3>1. IsFiniteSet(running')
      BY <1>0, <2>1, FS_RemoveElement DEF LeadersHoldLock
    <3>2. \A x \in leaders' \ lost' : lock' = x
      BY <1>0, <2>1, <2>2 DEF LeadersHoldLock
    <3> QED BY <1>0, <1>c, <2>1, <2>2, <3>1, <3>2 DEF LeadersHoldLock, ServersTypeOK
  <2>6. SignersHaveKeys'
    BY <1>0, <2>1, <2>3 DEF SignersHaveKeys, ServersTypeOK
  <2>7. RotationsAreDaily'
    <3>1. \A x \in ServerIDs : rotating'[x] = IF x = s THEN "no" ELSE rotating[x]
      BY <1>0, <2>1 DEF ServersTypeOK
    <3>2. \A x \in refreshed' : x # s /\ x \in ServerIDs /\ signing'[x] = signing[x]
      BY <1>0, <2>1 DEF ServersTypeOK
    <3>3. \A x \in refreshed' : runs' = {x} => Fresh(signing[x])'
      BY <1>0, <2>1, <3>2 DEF RotationsAreDaily, Fresh
    <3> QED BY <1>0, <2>1, <2>3, <3>1, <3>2, <3>3 DEF RotationsAreDaily, Fresh
  <2>8. QED BY <2>3, <2>4, <2>5, <2>6, <2>7 DEF ServersInv
<1>5. ASSUME NEW s \in ServerIDs, LoseSession(s) \/ TryToBecomeLeader(s) PROVE ServersInv'
  <2>1. UNCHANGED <<now, running, starting, rotating, key, signing, tokens, runs, lapsed, refreshed>>
    BY <1>5 DEF LoseSession, TryToBecomeLeader
  <2>2. NotNew' = NotNew /\ Stored' = Stored /\ KeysAreInOrder' /\ \A k : Fresh(k)' <=> Fresh(k)
    BY <1>0, <2>1, KeysKept
  <2>3. ServersTypeOK' /\ LeadersHoldLock'
    <3>1. CASE LoseSession(s)
      <4>1. lock = s /\ lock' = Nobody /\ lost' = lost \cup {s} /\ leaders' = leaders
        BY <3>1 DEF LoseSession
      <4> QED BY <1>0, <1>c, <2>1, <4>1 DEF ServersTypeOK, LeadersHoldLock
    <3>2. CASE TryToBecomeLeader(s)
      <4>1. /\ s \in running \ leaders /\ lock = Nobody /\ lock' = s
            /\ leaders' = leaders \cup {s} /\ lost' = lost
        BY <3>2 DEF TryToBecomeLeader
      <4>2. leaders \ lost = {}
        BY <1>0, <1>c, <4>1 DEF LeadersHoldLock, ServersTypeOK
      <4> QED BY <1>0, <2>1, <4>1, <4>2 DEF ServersTypeOK, LeadersHoldLock
    <3> QED BY <1>5, <3>1, <3>2
  <2>5. SignersHaveKeys' /\ RotationsAreDaily'
    BY <1>0, <2>1, <2>2 DEF SignersHaveKeys, RotationsAreDaily, Fresh
  <2>6. QED BY <2>2, <2>3, <2>5 DEF ServersInv
<1>6. CASE ReleaseDeadSession \/ UNCHANGED serversVars
  <2>1. /\ UNCHANGED <<now, running, starting, leaders, rotating, key, signing, tokens, runs,
                       lost, lapsed, refreshed>>
        /\ lock' = lock \/ (lock = DeadSession /\ lock' = Nobody)
    BY <1>6 DEF ReleaseDeadSession, serversVars
  <2>2. NotNew' = NotNew /\ Stored' = Stored /\ KeysAreInOrder' /\ \A k : Fresh(k)' <=> Fresh(k)
    BY <1>0, <2>1, KeysKept
  <2>3. ServersTypeOK' /\ LeadersHoldLock'
    BY <1>0, <1>c, <2>1 DEF ServersTypeOK, LeadersHoldLock
  <2>4. SignersHaveKeys' /\ RotationsAreDaily'
    BY <1>0, <2>1, <2>2 DEF SignersHaveKeys, RotationsAreDaily, Fresh
  <2>5. QED BY <2>2, <2>3, <2>4 DEF ServersInv
<1>7. ASSUME NEW s \in ServerIDs, FindLatest(s) PROVE ServersInv'
  <2>1. /\ rotating[s] = "due" /\ Latest # NoKey
        /\ UNCHANGED <<now, running, starting, lock, leaders, key, signing, tokens, runs,
                       lost, lapsed>>
    BY <1>7 DEF FindLatest
  <2>2. NotNew' = NotNew /\ Stored' = Stored /\ KeysAreInOrder' /\ \A k : Fresh(k)' <=> Fresh(k)
    BY <1>0, <2>1, KeysKept
  <2>3. ServersTypeOK'
    <3>1. \/ rotating' = [rotating EXCEPT ![s] = "make"] /\ refreshed' = refreshed
          \/ rotating' = [rotating EXCEPT ![s] = "delete"] /\ refreshed' = refreshed \cup {s}
      BY <1>7 DEF FindLatest
    <3>2. rotating' \in [ServerIDs -> {"no", "due", "make", "delete"}] /\ refreshed' \subseteq ServerIDs
      BY <1>0, <3>1 DEF ServersTypeOK
    <3> QED BY <1>0, <2>1, <3>2 DEF ServersTypeOK
  <2>4. LeadersHoldLock' /\ SignersHaveKeys'
    BY <1>0, <2>1, <2>2 DEF LeadersHoldLock, SignersHaveKeys
  <2>5. s \in runs \cap running /\ now % 2 = 0 /\ s \notin refreshed
    BY <1>0, <2>1 DEF RotationsAreDaily
  <2>6. RotationsAreDaily'
    <3>1. CASE key[Latest].made + 2 <= now
      <4>1. rotating' = [rotating EXCEPT ![s] = "make"] /\ refreshed' = refreshed
        BY <1>7, <3>1 DEF FindLatest
      <4>2. \A x \in ServerIDs : rotating'[x] = IF x = s THEN "make" ELSE rotating[x]
        BY <1>0, <4>1 DEF ServersTypeOK
      <4> QED BY <1>0, <2>1, <2>2, <2>5, <4>1, <4>2 DEF RotationsAreDaily, Fresh
    <3>2. CASE ~(key[Latest].made + 2 <= now)
      <4>1. rotating' = [rotating EXCEPT ![s] = "delete"] /\ refreshed' = refreshed \cup {s}
        BY <1>7, <3>2 DEF FindLatest
      <4>2. \A x \in ServerIDs : rotating'[x] = IF x = s THEN "delete" ELSE rotating[x]
        BY <1>0, <4>1 DEF ServersTypeOK
      <4>3. Latest \in Stored /\ Latest \in KeyIDs
        BY <1>0, <1>k, <2>1, LatestIsNewest
      <4>4. Fresh(Latest)
        BY <1>k, <2>5, <3>2, <4>3 DEF Fresh
      <4>5. signing[s] \in NotNew
        BY <1>0, <2>5 DEF SignersHaveKeys
      <4>6. runs = {s} => Fresh(signing[s])
        BY <1>0, <1>k, <2>1, <4>3, <4>4, <4>5 DEF RotationsAreDaily
      <4>7. \A x \in refreshed' : runs' = {x} => key'[signing'[x]].made + 2 > now' - (now' % 2)
        BY <1>0, <2>1, <4>1, <4>6 DEF RotationsAreDaily, Fresh
      <4> QED BY <1>0, <2>1, <2>2, <2>5, <4>1, <4>2, <4>3, <4>4, <4>7
              DEF RotationsAreDaily, Fresh
    <3> QED BY <3>1, <3>2
  <2>7. QED BY <2>2, <2>3, <2>4, <2>6 DEF ServersInv
<1>8. ASSUME NEW s \in ServerIDs, MakeKey(s) PROVE ServersInv'
  <2>1. /\ rotating[s] = "make" /\ rotating' = [rotating EXCEPT ![s] = "delete"]
        /\ refreshed' = refreshed \cup {s}
        /\ UNCHANGED <<now, running, starting, lock, leaders, tokens, runs, lost, lapsed>>
    BY <1>8 DEF MakeKey
  <2>2. PICK k \in KeyIDs : GenerateAndSaveNewJwtKey(k) /\ signing' = [signing EXCEPT ![s] = k]
    BY <1>8 DEF MakeKey
  <2>3. s \in runs \cap running /\ now % 2 = 0
    BY <1>0, <2>1 DEF RotationsAreDaily
  <2>4. /\ key' \in [KeyIDs -> Key] /\ NotNew' = NotNew \cup {k}
        /\ Stored' = Stored \cup {k} /\ key'[k].made = now
        /\ \A j \in NotNew : key'[j] = key[j]
        /\ KeysAreInOrder'
    BY <1>0, <2>1, <2>2, <2>3, NewKey
  <2>5. ServersTypeOK'
    BY <1>0, <2>1, <2>2, <2>3, <2>4 DEF ServersTypeOK
  <2>6. LeadersHoldLock'
    BY <1>0, <2>1 DEF LeadersHoldLock
  <2>7. \A x \in ServerIDs : /\ signing'[x] = IF x = s THEN k ELSE signing[x]
                             /\ rotating'[x] = IF x = s THEN "delete" ELSE rotating[x]
    BY <1>0, <2>1, <2>2 DEF ServersTypeOK
  <2>8. SignersHaveKeys'
    <3>1. \A x \in running' : signing'[x] \in NotNew'
      BY <1>0, <2>1, <2>4, <2>7 DEF SignersHaveKeys, ServersTypeOK
    <3> QED BY <1>0, <2>1, <2>4, <3>1 DEF SignersHaveKeys
  <2>9. Fresh(k)' /\ (\A j \in NotNew : Fresh(j)' <=> Fresh(j))
    <3>1. now + 2 > now - (now % 2)
      BY <1>k
    <3> QED BY <2>1, <2>4, <3>1 DEF Fresh
  <2>10. RotationsAreDaily'
    <3>1. refreshed' \subseteq runs' \cap running'
      BY <1>0, <2>1, <2>3 DEF RotationsAreDaily
    <3>2. \A x \in ServerIDs : /\ rotating'[x] # "no" => x \in runs' \cap running' /\ now' % 2 = 0
                               /\ rotating'[x] \in {"due", "make"} => x \notin refreshed'
      BY <1>0, <2>1, <2>3, <2>7 DEF RotationsAreDaily
    <3>3. \A x \in ServerIDs : rotating'[x] = "delete" => \E j \in Stored' : Fresh(j)'
      BY <2>4, <2>9
    <3>4. \A x \in ServerIDs : ~(rotating'[x] = "due" /\ runs' = {x})
      BY <2>1, <2>3, <2>7
    <3>5. \A x \in refreshed' : runs' = {x} => key'[signing'[x]].made + 2 > now' - (now' % 2)
      <4>1. \A x \in refreshed : x \in ServerIDs /\ signing[x] \in NotNew
        BY <1>0 DEF RotationsAreDaily, SignersHaveKeys, ServersTypeOK
      <4>2. \A x \in refreshed : runs = {x} => Fresh(signing[x])
        BY <1>0 DEF RotationsAreDaily
      <4>3. \A x \in refreshed \ {s} : signing'[x] = signing[x] /\ key'[signing[x]] = key[signing[x]]
        BY <2>4, <2>7, <4>1
      <4> QED BY <2>1, <2>7, <2>9, <4>2, <4>3 DEF Fresh
    <3>6. QED BY <3>1, <3>2, <3>3, <3>4, <3>5 DEF RotationsAreDaily, Fresh
  <2>11. QED BY <2>4, <2>5, <2>6, <2>8, <2>10 DEF ServersInv
<1>9. ASSUME NEW s \in ServerIDs, DeleteOlderKeys(s) PROVE ServersInv'
  <2>1. /\ rotating[s] = "delete" /\ rotating' = [rotating EXCEPT ![s] = "no"]
        /\ key' = [k \in KeyIDs |-> IF k \in Stored /\ key[k].made + KeyLife < now
                                    THEN [key[k] EXCEPT !.state = "deleted"] ELSE key[k]]
        /\ UNCHANGED <<now, running, starting, lock, leaders, signing, tokens, runs, lost,
                       lapsed, refreshed>>
    BY <1>9 DEF DeleteOlderKeys
  <2>2. key \in [KeyIDs -> Key]
    BY <1>0 DEF ServersTypeOK
  <2>3. \A k \in KeyIDs : key'[k].made = key[k].made /\ key'[k] \in Key
    BY <2>1, <2>2 DEF Key
  <2>4. \A k \in KeyIDs : key'[k].state = IF k \in Stored /\ key[k].made + KeyLife < now
                                          THEN "deleted" ELSE key[k].state
    BY <2>1, <2>2 DEF Key
  <2>5. NotNew' = NotNew /\ Stored' = {k \in Stored : ~(key[k].made + KeyLife < now)}
    BY <2>4 DEF NotNew, Stored
  <2>6. \A k \in KeyIDs : Fresh(k)' <=> Fresh(k)
    BY <2>1, <2>3 DEF Fresh
  <2>7. \A k \in Stored : Fresh(k) => k \in Stored'
    <3> SUFFICES ASSUME NEW k \in Stored, Fresh(k) PROVE ~(key[k].made + KeyLife < now)
      BY <2>5
    <3>1. k \in KeyIDs /\ key[k].made \in Nat /\ now % 2 = 0
      BY <1>0, <1>k, <2>1 DEF RotationsAreDaily
    <3>2. KeyLife >= 1
      BY ServersConstants
    <3> QED BY <1>c, <1>k, <3>1, <3>2 DEF Fresh
  <2>8. PICK f \in Stored : Fresh(f)
    BY <1>0, <2>1 DEF RotationsAreDaily
  <2>9. KeysAreInOrder'
    <3>1. PICK n \in Stored : \A j \in NotNew : j <= n
      BY <1>0, <1>k, <2>8 DEF KeysAreInOrder
    <3>2. n \in NotNew /\ f \in NotNew /\ n \in KeyIDs /\ f \in KeyIDs /\ n \in Nat /\ f \in Nat
      BY <1>c, <1>k
    <3>3. key[f].made <= key[n].made
      <4>1. f < n \/ f = n
        BY <3>1, <3>2
      <4> QED BY <1>0, <1>k, <3>2, <4>1 DEF KeysAreInOrder
    <3>4. Fresh(n)
      BY <1>k, <2>8, <3>2, <3>3 DEF Fresh
    <3>5. n \in Stored' /\ \A j \in NotNew' : j <= n
      BY <2>5, <2>7, <3>1, <3>4
    <3>6. \A k \in KeyIDs : key'[k].state = "deleted" => key'[k].made + KeyLife < now'
      BY <1>0, <2>1, <2>3, <2>4 DEF KeysAreInOrder
    <3>7. \A j, k \in NotNew : j \in KeyIDs /\ k \in KeyIDs
      BY <1>k
    <3>8. \A j, k \in NotNew' : j < k /\ key'[k].made % 2 = 1 => key'[j].made = key'[k].made
      BY <1>0, <2>3, <2>5, <3>7 DEF KeysAreInOrder
    <3>9. \A k \in KeyIDs : key'[k].made <= now'
      BY <1>0, <2>1, <2>3 DEF KeysAreInOrder
    <3>10. \A j, k \in KeyIDs : j < k /\ k \in NotNew' => j \in NotNew' /\ key'[j].made <= key'[k].made
      BY <1>0, <2>3, <2>5 DEF KeysAreInOrder
    <3> QED BY <3>5, <3>6, <3>8, <3>9, <3>10 DEF KeysAreInOrder
  <2>10. ServersTypeOK'
    <3>1. key' \in [KeyIDs -> Key]
      BY <2>1, <2>3
    <3> QED BY <1>0, <2>1, <3>1 DEF ServersTypeOK
  <2>11. LeadersHoldLock'
    BY <1>0, <2>1 DEF LeadersHoldLock
  <2>12. SignersHaveKeys'
    BY <1>0, <1>k, <2>1, <2>3, <2>5 DEF SignersHaveKeys
  <2>13. RotationsAreDaily'
    <3>1. \A x \in ServerIDs : rotating'[x] = IF x = s THEN "no" ELSE rotating[x]
      BY <1>0, <2>1 DEF ServersTypeOK
    <3>2. \A x \in ServerIDs : rotating'[x] = "delete" => \E j \in Stored' : Fresh(j)'
      BY <1>k, <2>6, <2>7, <2>8
    <3>3. \A x \in ServerIDs : rotating'[x] = "due" /\ runs' = {x} =>
             \A i, j \in NotNew' : Fresh(j)' => Fresh(i)'
      BY <1>0, <1>k, <2>1, <2>5, <2>6, <3>1 DEF RotationsAreDaily
    <3>4. \A x \in refreshed' : runs' = {x} => key'[signing'[x]].made + 2 > now' - (now' % 2)
      <4>1. \A x \in refreshed : signing[x] \in KeyIDs
        BY <1>0, <1>k DEF RotationsAreDaily, SignersHaveKeys
      <4>2. \A x \in refreshed : runs = {x} => key[signing[x]].made + 2 > now - (now % 2)
        BY <1>0 DEF RotationsAreDaily, Fresh
      <4>3. \A x \in refreshed : key'[signing[x]].made = key[signing[x]].made
        BY <2>3, <4>1
      <4>4. refreshed' = refreshed /\ signing' = signing /\ runs' = runs /\ now' = now
        BY <2>1
      <4> QED BY <4>2, <4>3, <4>4
    <3>5. /\ refreshed' \subseteq runs' \cap running'
          /\ \A x \in ServerIDs : rotating'[x] # "no" => x \in runs' \cap running' /\ now' % 2 = 0
          /\ \A x \in ServerIDs : rotating'[x] \in {"due", "make"} => x \notin refreshed'
      BY <1>0, <2>1, <3>1 DEF RotationsAreDaily
    <3>6. \A x \in refreshed' : runs' = {x} => Fresh(signing[x])'
      BY <3>4 DEF Fresh
    <3> QED BY <3>2, <3>3, <3>5, <3>6 DEF RotationsAreDaily
  <2>14. QED BY <2>9, <2>10, <2>11, <2>12, <2>13 DEF ServersInv
<1>10. ASSUME NEW s \in ServerIDs, FailRotation(s) \/ NewSignedToken(s) PROVE ServersInv'
  <2>1. /\ UNCHANGED <<now, running, starting, lock, leaders, key, signing, runs, lost,
                       lapsed, refreshed>>
        /\ rotating' = [rotating EXCEPT ![s] = "no"] \/ rotating' = rotating
        /\ \/ tokens' = tokens
           \/ s \in running /\ tokens' = tokens \cup {[key |-> signing[s], signed |-> now]}
    BY <1>10 DEF FailRotation, NewSignedToken
  <2>2. NotNew' = NotNew /\ Stored' = Stored /\ KeysAreInOrder' /\ \A k : Fresh(k)' <=> Fresh(k)
    BY <1>0, <2>1, KeysKept
  <2>3. s \in running => signing[s] \in NotNew /\ signing[s] \in KeyIDs
    BY <1>0, <1>k DEF SignersHaveKeys
  <2>4. s \in running => [key |-> signing[s], signed |-> now] \in Token
    BY <1>0, <2>3 DEF Token, ServersTypeOK
  <2>5. ServersTypeOK'
    BY <1>0, <2>1, <2>4 DEF ServersTypeOK
  <2>6. SignersHaveKeys'
    <3>1. \A t \in tokens' : t \in tokens \/ (s \in running /\ t.key = signing[s] /\ t.signed = now)
      BY <2>1
    <3>2. now <= now + TokenLife
      BY <1>c, <1>k
    <3>3. \A t \in tokens : t.key \in NotNew /\ t.signed <= now /\ now <= t.signed + TokenLife
      BY <1>0 DEF SignersHaveKeys
    <3>4. \A t \in tokens' : t.key \in NotNew /\ t.signed <= now /\ now <= t.signed + TokenLife
      BY <1>k, <2>3, <3>1, <3>2, <3>3
    <3> QED BY <1>0, <2>1, <2>2, <3>4 DEF SignersHaveKeys
  <2>7. LeadersHoldLock'
    BY <1>0, <2>1 DEF LeadersHoldLock
  <2>8. \A x \in ServerIDs : rotating'[x] \in {"no", rotating[x]}
    BY <1>0, <2>1 DEF ServersTypeOK
  <2>9. RotationsAreDaily'
    BY <1>0, <2>1, <2>2, <2>8 DEF RotationsAreDaily, Fresh
  <2>10. QED BY <2>2, <2>5, <2>6, <2>7, <2>9 DEF ServersInv
<1>11. QED BY <1>1, <1>2, <1>3, <1>4, <1>5, <1>6, <1>7, <1>8, <1>9, <1>10 DEF ServersNext

-----------------------------------------------------------------------------
\* The variables have the types the code gives them.
THEOREM ServersTypes == ServersSpec => []ServersTypeOK
<1>1. ServersInv => ServersTypeOK
  BY DEF ServersInv
<1>2. QED BY ServersInitInv, ServersStepInv, <1>1, PTL DEF ServersSpec

\* The daily tasks run on one server, but for those that lost the session of the lock.
THEOREM OneServerRunsTasks == ServersSpec => []TasksRunOnce
<1>1. ServersInv => TasksRunOnce
  BY AtMostOne DEF ServersInv, LeadersHoldLock, TasksRunOnce
<1>2. QED BY ServersInitInv, ServersStepInv, <1>1, PTL DEF ServersSpec

\* A token is verified until it expires, unless the key was already old when it signed it;
\* and whose rotation of the day ran alone signs with a key of the day.
THEOREM TokensAreVerified == ServersSpec => []KeysOutliveTokens
<1>1. ServersInv => KeysOutliveTokens
  <2> SUFFICES ASSUME ServersInv PROVE KeysOutliveTokens
    OBVIOUS
  <2>0. /\ ServersTypeOK /\ LeadersHoldLock /\ KeysAreInOrder /\ SignersHaveKeys
        /\ RotationsAreDaily
    BY DEF ServersInv
  <2>1. ASSUME NEW t \in tokens, ~Verifies(t)
        PROVE  key[t.key].made + KeyLife - TokenLife < t.signed
    <3>1. t.key \in NotNew /\ t.key \in KeyIDs /\ now <= t.signed + TokenLife
      BY <2>0, KeyTypes DEF SignersHaveKeys
    <3>2. key[t.key].state = "deleted"
      BY <2>0, <2>1, <3>1, KeyTypes DEF Verifies
    <3>3. key[t.key].made + KeyLife < now
      BY <2>0, <3>1, <3>2 DEF KeysAreInOrder
    <3>4. key[t.key].made \in Nat /\ now \in Nat
      BY <2>0, <3>1, KeyTypes
    <3>5. t.signed \in Nat
      BY <2>0, TokenTypes
    <3> QED BY <3>1, <3>3, <3>4, <3>5, ServersConstants
  <2>2. ASSUME NEW s \in refreshed, Cardinality(runs) = 1
        PROVE  key[signing[s]].made + 2 > now - (now % 2)
    <3>1. PICK x : runs = {x}
      BY <2>0, <2>2, FS_Singleton DEF LeadersHoldLock
    <3>2. runs = {s}
      BY <2>0, <3>1 DEF RotationsAreDaily
    <3> QED BY <2>0, <3>2 DEF RotationsAreDaily, Fresh
  <2>3. QED BY <2>1, <2>2 DEF KeysOutliveTokens
<1>2. QED BY ServersInitInv, ServersStepInv, <1>1, PTL DEF ServersSpec

-----------------------------------------------------------------------------
(***************************************************************************)
(* Copies.  What a request has read so far, and what a copy shows, is what *)
(* is there today if the stamp it has of the website is the last one and   *)
(* no two edits had that stamp: an edit that came after would have left    *)
(* another.  That is why every stamp a request, an edit or a copy holds is *)
(* one that was committed.                                                 *)
(***************************************************************************)
Steps == {"etag", "rows", "tags", "snippets"}
PageContents == [rows : SUBSET (SitePages \X Editions), tags : Editions, snippets : Editions]

\* The stamp m is that of the last edit, and of no other.
IsLast(m) == m = site.modified /\ m \notin twice \cup rewritten

RowsAreCurrent(rows) ==
    rows \subseteq RowsFor(url) /\ \A r \in RowsFor(url) \ rows : r[1] \in released

\* What was read is as it is today.
ShowsCurrent(content, read) ==
    /\ IF "rows" \in read THEN RowsAreCurrent(content.rows) ELSE content.rows = {}
    /\ content.tags = (IF "tags" \in read THEN part["tags"] ELSE 0)
    /\ content.snippets = (IF "snippets" \in read THEN part["snippets"] ELSE 0)

\* Each thing is read once.
ReadOnce(s) == s \in Seq(Steps) /\ \A i, j \in 1 .. Len(s) : s[i] = s[j] => i = j

ToRead(todo) == {todo[i] : i \in 1 .. Len(todo)}

StampsAreSound ==
    /\ site.modified \in stamps
    /\ \A x \in SiteEditors : edit[x] # NoEdit => edit[x].read \in stamps
    /\ view # NoView => view.modified \in stamps
    /\ copy # NoCopy => copy.modified \in stamps

ViewIsSound ==
    \/ view = NoView
    \/ /\ view = [modified |-> view.modified, settings |-> view.settings, etag |-> view.etag,
                  todo |-> view.todo, content |-> view.content]
       /\ ReadOnce(view.todo)
       /\ ToRead(view.todo) \subseteq Reading(url)
       /\ view.content \in PageContents
       /\ IsLast(view.modified) =>
            /\ view.settings = site.settings
            /\ ShowsCurrent(view.content, Reading(url) \ ToRead(view.todo))

CopyIsSound ==
    \/ copy = NoCopy
    \/ /\ copy.shows = [settings |-> copy.shows.settings, content |-> copy.shows.content]
       /\ copy.shows.content \in PageContents
       /\ IsLast(copy.modified) =>
            /\ copy.shows.settings = site.settings
            /\ ShowsCurrent(copy.shows.content, Reading(url))

ServingInv ==
    /\ ServingTypeOK /\ DOMAIN edit = SiteEditors
    /\ StampsAreSound /\ ViewIsSound /\ CopyIsSound

LEMMA ServingConstants ==
    /\ LastSecond \in Nat /\ LastEdition \in Nat /\ 0 \in Seconds /\ 0 \in Editions
    /\ Seconds \subseteq Nat /\ Editions \subseteq Nat /\ Hidden \in PageRow
  BY ServingAssumption DEF Seconds, Editions, Hidden, PageRow

LEMMA ServingInitInv == ServingInit => ServingInv
<1> SUFFICES ASSUME ServingInit PROVE ServingInv
  OBVIOUS
<1>1. site \in SiteRow /\ site.modified = 0
  BY ServingConstants DEF ServingInit, SiteRow
<1>2. ServingTypeOK
  BY <1>1, ServingConstants DEF ServingInit, ServingTypeOK
<1> QED
  BY <1>1, <1>2 DEF ServingInit, ServingInv, StampsAreSound, ViewIsSound, CopyIsSound

LEMMA ReadsOnce ==
    ASSUME NEW u \in Urls
    PROVE  ReadOnce(Reads(u))
<1>1. \/ Reads(u) = <<"rows", "tags", "snippets">> \/ Reads(u) = <<"etag", "rows">>
      \/ Reads(u) = <<"etag", "rows", "tags">> \/ Reads(u) = <<"rows">>
      \/ Reads(u) = <<"tags">> \/ Reads(u) = <<>>
  BY DEF Reads, ServePage, ServeFeed, ServeSitemap, ListPages, ListTags, ServeRobotsTxt,
         Urls, Listings
<1>2. ASSUME NEW a \in Steps, NEW b \in Steps, NEW c \in Steps, a # b, a # c, b # c
      PROVE  ReadOnce(<<a, b, c>>)
  <2>1. PICK s : s = <<a, b, c>>
    OBVIOUS
  <2>2. s \in Seq(Steps) /\ Len(s) = 3 /\ s[1] = a /\ s[2] = b /\ s[3] = c
    BY <2>1
  <2> QED
    BY <2>1, <2>2, <1>2 DEF ReadOnce
<1>3. ASSUME NEW a \in Steps, NEW b \in Steps, a # b
      PROVE  ReadOnce(<<a, b>>)
  <2>1. PICK s : s = <<a, b>>
    OBVIOUS
  <2>2. s \in Seq(Steps) /\ Len(s) = 2 /\ s[1] = a /\ s[2] = b
    BY <2>1
  <2> QED
    BY <2>1, <2>2, <1>3 DEF ReadOnce
<1>4. ASSUME NEW a \in Steps
      PROVE  ReadOnce(<<a>>)
  BY DEF ReadOnce
<1>5. ReadOnce(<<>>)
  BY DEF ReadOnce
<1>6. /\ "rows" \in Steps /\ "tags" \in Steps /\ "snippets" \in Steps /\ "etag" \in Steps
      /\ "rows" # "tags" /\ "rows" # "snippets" /\ "tags" # "snippets"
      /\ "etag" # "rows" /\ "etag" # "tags"
  BY DEF Steps
<1>7. ReadOnce(<<"rows", "tags", "snippets">>) /\ ReadOnce(<<"etag", "rows", "tags">>)
  BY <1>2, <1>6
<1>8. ReadOnce(<<"etag", "rows">>) /\ ReadOnce(<<"rows">>) /\ ReadOnce(<<"tags">>)
  BY <1>3, <1>4, <1>6
<1> QED
  BY <1>1, <1>5, <1>7, <1>8

LEMMA RowsAreTyped ==
    ASSUME ServingInv, NEW u \in Urls
    PROVE  RowsFor(u) \in SUBSET (SitePages \X Editions)
<1>1. row \in [SitePages -> PageRow] /\ SitePosts \subseteq SitePages
  BY ServingAssumption DEF ServingInv, ServingTypeOK
<1> QED
  BY <1>1 DEF RowsFor, PublishedOf, PageRow

\* After a commit nothing that was read before has the stamp of the website alone.
LEMMA CommitIsSound ==
    ASSUME ServingInv, UNCHANGED <<url, view, copy>>, ServingTypeOK', DOMAIN edit' = SiteEditors,
           stamps \subseteq stamps', site'.modified \in stamps',
           site'.modified \in stamps => site'.modified \in twice' \cup rewritten',
           \A x \in SiteEditors : edit'[x] \in {edit[x], NoEdit}
    PROVE  ServingInv'
<1>1. StampsAreSound'
  BY DEF ServingInv, StampsAreSound
<1>2. ASSUME NEW m \in stamps, IsLast(m)' PROVE FALSE
  BY <1>2 DEF IsLast
<1>3. ViewIsSound'
  <2>1. CASE view = NoView
    BY <2>1 DEF ViewIsSound
  <2>2. CASE view # NoView
    <3>1. PICK m : m = view.modified
      OBVIOUS
    <3>2. m \in stamps /\ m = view'.modified
      BY <2>2, <3>1 DEF ServingInv, StampsAreSound
    <3>3. ~IsLast(view.modified)'
      BY <3>2 DEF IsLast
    <3>4. Reading(url)' = Reading(url)
      BY DEF Reading
    <3> QED
      BY <3>3, <3>4, <2>2 DEF ServingInv, ViewIsSound, ToRead
  <2> QED
    BY <2>1, <2>2
<1>4. CopyIsSound'
  <2>1. CASE copy = NoCopy
    BY <2>1 DEF CopyIsSound
  <2>2. CASE copy # NoCopy
    <3>1. copy.modified \in stamps /\ copy'.modified = copy.modified
      BY <2>2 DEF ServingInv, StampsAreSound
    <3>2. ~IsLast(copy.modified)'
      BY <3>1 DEF IsLast
    <3> QED
      BY <3>2, <2>2 DEF ServingInv, CopyIsSound
  <2> QED
    BY <2>1, <2>2
<1> QED
  BY <1>1, <1>3, <1>4 DEF ServingInv

\* What an edit, a request and a copy leave alone when the rest stays.
LEMMA CommitsAreSound ==
    ASSUME ServingInv, NEW x \in SiteEditors, Ends(x), row' \in [SitePages -> PageRow],
           part' \in [PartNames -> Editions], edition' \in Editions,
           \/ Stamped(edit[x].at) /\ site' \in SiteRow /\ site'.modified = edit[x].at
           \/ /\ site' \in SiteRow /\ site'.modified = edit[x].read
              /\ rewritten' = rewritten \cup {edit[x].read}
              /\ UNCHANGED <<stamps, twice, released>>
    PROVE  ServingInv'
<1>1. /\ edit[x] # NoEdit /\ edit' = [edit EXCEPT ![x] = NoEdit]
      /\ UNCHANGED <<second, url, view, copy>>
  BY DEF Ends
<1>2. edit[x] \in [at : Seconds, read : Seconds] /\ edit[x].read \in stamps
  BY <1>1 DEF ServingInv, ServingTypeOK, StampsAreSound
<1>3. DOMAIN edit' = SiteEditors /\ \A y \in SiteEditors : edit'[y] \in {edit[y], NoEdit}
  BY <1>1 DEF ServingInv
<1>4. /\ stamps \subseteq stamps' /\ site'.modified \in stamps'
      /\ site'.modified \in stamps => site'.modified \in twice' \cup rewritten'
      /\ stamps' \cup twice' \cup rewritten' \subseteq Seconds /\ released' \subseteq SitePages
  BY <1>2 DEF Stamped, ServingInv, ServingTypeOK
<1>5. ServingTypeOK'
  BY <1>1, <1>2, <1>3, <1>4 DEF ServingInv, ServingTypeOK
<1> QED
  BY <1>1, <1>3, <1>4, <1>5, CommitIsSound

LEMMA EndedEdition ==
    ASSUME ServingInv, NEW x \in SiteEditors, Ends(x)
    PROVE  /\ edition' = edition + 1 /\ edition' \in Editions /\ 0 \in Editions
           /\ edit[x] \in [at : Seconds, read : Seconds]
  BY ServingConstants DEF Ends, ServingInv, ServingTypeOK, Editions

LEMMA CommitPageStep ==
    ASSUME ServingInv, NEW x \in SiteEditors, NEW p \in SitePages, NEW shown \in BOOLEAN,
           NEW date \in SiteDates, NEW dated \in BOOLEAN, CommitPage(x, p, shown, date, dated)
    PROVE  ServingInv'
<1>1. Ends(x) /\ Stamped(edit[x].at) /\ UNCHANGED part
      /\ site' = [site EXCEPT !.modified = edit[x].at]
  BY DEF CommitPage
<1>2. /\ edition + 1 \in Editions /\ edition' \in Editions
      /\ edit[x] \in [at : Seconds, read : Seconds] /\ site \in SiteRow
  BY <1>1, EndedEdition DEF ServingInv, ServingTypeOK
<1>3. PICK one : row' = [row EXCEPT ![p] = one] /\ one \in PageRow
  <2>1. CASE shown
    <3>1. PICK status : /\ status \in {"scheduled", "published"}
                        /\ status = (IF date > edit[x].at THEN "scheduled" ELSE "published")
      OBVIOUS
    <3>2. PICK updated : /\ updated \in Seconds \cup SiteDates
                         /\ updated = (IF dated THEN date ELSE edit[x].at)
      BY <1>2
    <3>3. row' = [row EXCEPT ![p] = [status |-> status, date |-> date, text |-> edition + 1,
                                     updated |-> updated]]
      BY <2>1, <3>1, <3>2 DEF CommitPage
    <3>4. date \in {0} \cup SiteDates
      OBVIOUS
    <3>5. [status |-> status, date |-> date, text |-> edition + 1, updated |-> updated] \in PageRow
      BY <3>1, <3>2, <3>4, <1>2 DEF PageRow
    <3> QED
      BY <3>3, <3>5
  <2>2. CASE ~shown
    BY <2>2, ServingConstants DEF CommitPage
  <2> QED
    BY <2>1, <2>2
<1>4. row' \in [SitePages -> PageRow]
  BY <1>3 DEF ServingInv, ServingTypeOK
<1>5. site' \in SiteRow /\ site'.modified = edit[x].at
  BY <1>1, <1>2 DEF SiteRow
<1> QED
  BY <1>1, <1>2, <1>4, <1>5, CommitsAreSound DEF ServingInv, ServingTypeOK

LEMMA CommitPartStep ==
    ASSUME ServingInv, NEW x \in SiteEditors, NEW k \in PartNames,
           NEW text \in {0, edition + 1}, CommitPart(x, k, text)
    PROVE  ServingInv'
<1>1. Ends(x) /\ Stamped(edit[x].at) /\ UNCHANGED row /\ part' = [part EXCEPT ![k] = text]
      /\ site' = [site EXCEPT !.modified = edit[x].at]
  BY DEF CommitPart
<1>2. /\ edition + 1 \in Editions /\ edition' \in Editions /\ text \in Editions
      /\ edit[x] \in [at : Seconds, read : Seconds] /\ site \in SiteRow
  BY <1>1, EndedEdition DEF ServingInv, ServingTypeOK
<1>3. part' \in [PartNames -> Editions]
  BY <1>1, <1>2 DEF ServingInv, ServingTypeOK
<1>4. site' \in SiteRow /\ site'.modified = edit[x].at
  BY <1>1, <1>2 DEF SiteRow
<1> QED
  BY <1>1, <1>2, <1>3, <1>4, CommitsAreSound DEF ServingInv, ServingTypeOK

LEMMA CommitWebsiteStep ==
    ASSUME ServingInv, NEW x \in SiteEditors, CommitWebsite(x) \/ CommitDomain(x)
    PROVE  ServingInv'
<1>1. Ends(x) /\ UNCHANGED <<row, part>>
  BY DEF CommitWebsite, CommitDomain
<1>2. /\ edition + 1 \in Editions /\ edition' \in Editions
      /\ edit[x] \in [at : Seconds, read : Seconds]
  BY <1>1, EndedEdition
<1>3. \/ Stamped(edit[x].at) /\ site' \in SiteRow /\ site'.modified = edit[x].at
      \/ /\ site' \in SiteRow /\ site'.modified = edit[x].read
         /\ rewritten' = rewritten \cup {edit[x].read}
         /\ UNCHANGED <<stamps, twice, released>>
  BY <1>2 DEF CommitWebsite, CommitDomain, SiteRow
<1> QED
  BY <1>1, <1>2, <1>3, CommitsAreSound DEF ServingInv, ServingTypeOK

\* What is read and copied stays sound while rows, website and parts stay.
LEMMA SoundStays ==
    ASSUME ServingInv, UNCHANGED <<row, site, part, url, twice, rewritten, released>>
    PROVE  /\ UNCHANGED view => ViewIsSound'
           /\ UNCHANGED copy => CopyIsSound'
<1>1. RowsFor(url)' = RowsFor(url) /\ Reading(url)' = Reading(url)
  BY DEF RowsFor, PublishedOf, Reading
<1>2. ASSUME NEW c, NEW s PROVE ShowsCurrent(c, s) => ShowsCurrent(c, s)'
  BY <1>1 DEF ShowsCurrent, RowsAreCurrent
<1>3. ASSUME NEW m PROVE IsLast(m)' <=> IsLast(m)
  BY DEF IsLast
<1>4. ASSUME UNCHANGED view PROVE ViewIsSound'
  BY <1>1, <1>2, <1>3, <1>4 DEF ServingInv, ViewIsSound, ToRead
<1>5. ASSUME UNCHANGED copy PROVE CopyIsSound'
  BY <1>1, <1>2, <1>3, <1>5 DEF ServingInv, CopyIsSound
<1> QED
  BY <1>4, <1>5

LEMMA BeginStep ==
    ASSUME ServingInv, NEW x \in SiteEditors, BeginEdit(x) \/ FailEdition(x)
    PROVE  ServingInv'
<1>1. UNCHANGED <<second, contentVars, url, view, copy, pastStamps, released>>
  BY DEF BeginEdit, FailEdition
<1>2. PICK e : /\ edit' = [edit EXCEPT ![x] = e]
               /\ \/ e = NoEdit
                  \/ e \in [at : Seconds, read : Seconds] /\ e.read = site.modified
  <2>1. second \in Seconds /\ site.modified \in Seconds
    BY DEF ServingInv, ServingTypeOK, SiteRow
  <2>2. PICK b : b = [at |-> second, read |-> site.modified]
    OBVIOUS
  <2>3. b \in [at : Seconds, read : Seconds] /\ b.read = site.modified
    BY <2>1, <2>2
  <2> QED
    BY <2>2, <2>3 DEF BeginEdit, FailEdition
<1>3. ServingTypeOK' /\ DOMAIN edit' = SiteEditors
  BY <1>1, <1>2 DEF ServingInv, ServingTypeOK, contentVars, pastStamps
<1>4. StampsAreSound'
  BY <1>1, <1>2 DEF ServingInv, StampsAreSound, contentVars, pastStamps
<1> QED
  BY <1>1, <1>3, <1>4, SoundStays DEF ServingInv, contentVars, pastStamps

LEMMA SecondStep ==
    ASSUME ServingInv, SecondPasses
    PROVE  ServingInv'
<1>1. second' \in Seconds
  BY ServingConstants DEF SecondPasses, ServingInv, ServingTypeOK, Seconds
<1>2. ServingTypeOK' /\ DOMAIN edit' = SiteEditors /\ StampsAreSound'
  BY <1>1 DEF SecondPasses, ServingInv, ServingTypeOK, StampsAreSound, contentVars, pastStamps
<1> QED
  BY <1>2, SoundStays DEF SecondPasses, ServingInv, contentVars, pastStamps

\* The job adds rows, of pages that it released.
LEMMA JobStep ==
    ASSUME ServingInv, JobReleasesPages
    PROVE  ServingInv'
<1>1. PICK due : /\ due = {p \in SitePages : row[p].status = "scheduled" /\ row[p].date <= second}
                 /\ row' = [p \in SitePages |-> IF p \in due THEN [row[p] EXCEPT !.status = "published"]
                                                ELSE row[p]]
                 /\ released' = released \cup due
  BY DEF JobReleasesPages
<1>2. UNCHANGED <<second, edition, site, part, edit, url, view, copy, stamps, twice, rewritten>>
  BY DEF JobReleasesPages, pastStamps
<1>3. row \in [SitePages -> PageRow]
  BY DEF ServingInv, ServingTypeOK
<1>4. \A p \in SitePages :
         /\ row'[p] \in PageRow /\ row'[p].text = row[p].text
         /\ row[p].status = "published" => row'[p].status = "published"
         /\ row'[p].status = "published" => row[p].status = "published" \/ p \in released'
  <2> TAKE p \in SitePages
  <2>1. CASE p \in due
    BY <1>1, <1>3, <2>1 DEF PageRow
  <2>2. CASE p \notin due
    BY <1>1, <1>3, <2>2
  <2> QED
    BY <2>1, <2>2
<1>5. row' \in [SitePages -> PageRow]
  BY <1>1, <1>4
<1>6. ServingTypeOK' /\ DOMAIN edit' = SiteEditors
  BY <1>1, <1>2, <1>5 DEF ServingInv, ServingTypeOK
<1>7. StampsAreSound'
  BY <1>2 DEF ServingInv, StampsAreSound
<1>8. /\ RowsFor(url) \subseteq RowsFor(url)'
      /\ \A r \in RowsFor(url)' \ RowsFor(url) : r[1] \in released'
  <2>1. PICK P \in SUBSET SitePages :
              P = IF url \in SitePages THEN {url} ELSE IF url = "feed" THEN SitePosts ELSE SitePages
    BY ServingAssumption
  <2>2. /\ RowsFor(url) = {<<p, row[p].text>> : p \in {q \in P : row[q].status = "published"}}
        /\ RowsFor(url)' = {<<p, row'[p].text>> : p \in {q \in P : row'[q].status = "published"}}
    BY <2>1, <1>2 DEF RowsFor, PublishedOf
  <2> QED
    BY <2>2, <1>4
<1>9. Reading(url)' = Reading(url)
  BY <1>2 DEF Reading
<1>10. ASSUME NEW c, NEW s PROVE ShowsCurrent(c, s) => ShowsCurrent(c, s)'
  <2>1. RowsAreCurrent(c.rows) => RowsAreCurrent(c.rows)'
    BY <1>8, <1>1 DEF RowsAreCurrent
  <2> QED
    BY <2>1, <1>2 DEF ShowsCurrent
<1>11. ASSUME NEW m PROVE IsLast(m)' <=> IsLast(m)
  BY <1>2 DEF IsLast
<1>12. ViewIsSound'
  BY <1>2, <1>9, <1>10, <1>11 DEF ServingInv, ViewIsSound, ToRead
<1>13. CopyIsSound'
  BY <1>2, <1>9, <1>10, <1>11 DEF ServingInv, CopyIsSound
<1> QED
  BY <1>6, <1>7, <1>12, <1>13 DEF ServingInv

LEMMA FindStep ==
    ASSUME ServingInv, FindSite
    PROVE  ServingInv'
<1>1. UNCHANGED <<second, edition, row, site, part, edit, url, copy, stamps, twice, rewritten, released>>
  BY DEF FindSite, contentVars, pastStamps
<1>2. PICK v : /\ view' = v
               /\ v = [modified |-> site.modified, settings |-> site.settings, etag |-> v.etag,
                       todo |-> Reads(url), content |-> NoContent]
  <2>1. PICK tag : tag = IF url \in {"pages", "tags", "robots"} THEN EtagOf(url, site.modified) ELSE <<>>
    OBVIOUS
  <2>2. view' = [modified |-> site.modified, settings |-> site.settings, etag |-> tag,
                 todo |-> Reads(url), content |-> NoContent]
    BY <2>1 DEF FindSite
  <2> QED
    BY <2>2
<1>3. site.modified \in Seconds /\ site.modified \in stamps /\ url \in Urls
  BY DEF ServingInv, ServingTypeOK, StampsAreSound, SiteRow
<1>4. /\ ReadOnce(v.todo) /\ ToRead(v.todo) = Reading(url) /\ v.content \in PageContents
      /\ v.content = NoContent /\ v.settings = site.settings /\ v.modified = site.modified
  BY <1>2, <1>3, ReadsOnce, ServingConstants DEF ToRead, Reading, NoContent, PageContents
<1>5. ServingTypeOK' /\ DOMAIN edit' = SiteEditors
  BY <1>1, <1>2, <1>3, <1>4 DEF ServingInv, ServingTypeOK
<1>6. StampsAreSound'
  BY <1>1, <1>2, <1>3, <1>4 DEF ServingInv, StampsAreSound
<1>7. ViewIsSound'
  <2>1. (Reading(url) = ToRead(v.todo))' /\ ShowsCurrent(v.content, Reading(url) \ ToRead(v.todo))'
    BY <1>1, <1>2, <1>4 DEF ShowsCurrent, Reading, ToRead, NoContent
  <2>2. v = [modified |-> v.modified, settings |-> v.settings, etag |-> v.etag,
                   todo |-> v.todo, content |-> v.content]
    BY <1>2
  <2> QED
    BY <2>1, <2>2, <1>1, <1>2, <1>4 DEF ViewIsSound
<1>8. CopyIsSound'
  BY <1>1, SoundStays
<1> QED
  BY <1>5, <1>6, <1>7, <1>8 DEF ServingInv

\* What is left to read after the first thing.
LEMMA ReadNext ==
    ASSUME NEW s, ReadOnce(s), s # <<>>
    PROVE  ReadOnce(Tail(s)) /\ Head(s) \in ToRead(s) /\ ToRead(Tail(s)) = ToRead(s) \ {Head(s)}
<1>1. /\ s \in Seq(Steps) /\ Len(s) \in Nat /\ Len(s) > 0 /\ Head(s) = s[1]
      /\ \A i, j \in 1 .. Len(s) : s[i] = s[j] => i = j
  BY DEF ReadOnce
<1>2. PICK n \in Nat : Len(s) = n + 1
  BY <1>1
<1>3. PICK u : u = Tail(s)
  OBVIOUS
<1>4. u \in Seq(Steps) /\ Len(u) = n /\ \A i \in 1 .. n : u[i] = s[i + 1]
  BY <1>1, <1>2, <1>3
<1>5. ReadOnce(u)
  <2>1. ASSUME NEW i \in 1 .. n, NEW j \in 1 .. n, u[i] = u[j]
        PROVE  i = j
    <3>1. s[i + 1] = s[j + 1] /\ i + 1 \in 1 .. Len(s) /\ j + 1 \in 1 .. Len(s)
      BY <1>2, <1>4, <2>1
    <3>2. i + 1 = j + 1
      BY <3>1, <1>1
    <3> QED
      BY <3>2
  <2> QED
    BY <2>1, <1>4 DEF ReadOnce
<1>6. ToRead(u) \subseteq ToRead(s) \ {Head(s)}
  <2>1. ASSUME NEW i \in 1 .. n PROVE u[i] \in ToRead(s) /\ u[i] # Head(s)
    <3>1. i + 1 \in 1 .. Len(s) /\ u[i] = s[i + 1] /\ 1 \in 1 .. Len(s) /\ i + 1 # 1
      BY <1>2, <1>4
    <3>2. s[i + 1] # s[1]
      BY <3>1, <1>1
    <3> QED
      BY <3>1, <3>2, <1>1 DEF ToRead
  <2> QED
    BY <2>1, <1>4 DEF ToRead
<1>7. ToRead(s) \ {Head(s)} \subseteq ToRead(u)
  <2>1. ASSUME NEW i \in 1 .. Len(s), s[i] # s[1] PROVE s[i] \in ToRead(u)
    <3>1. PICK k \in 1 .. n : i = k + 1
      <4>1. i # 1
        BY <2>1
      <4>2. i - 1 \in 1 .. n /\ i = (i - 1) + 1
        BY <4>1, <1>2
      <4> QED
        BY <4>2
    <3> QED
      BY <3>1, <1>4 DEF ToRead
  <2> QED
    BY <2>1, <1>1 DEF ToRead
<1>8. Head(s) \in ToRead(s)
  BY <1>1 DEF ToRead
<1> QED
  BY <1>3, <1>5, <1>6, <1>7, <1>8

\* What has been read is what is there.
LEMMA ReadIsCurrent ==
    ASSUME ServingInv, NEW what \in Steps, NEW content \in PageContents
    PROVE  /\ WithRead(content, what, url) \in PageContents
           /\ \A read \in SUBSET Steps : what \notin read /\ ShowsCurrent(content, read) =>
                 ShowsCurrent(WithRead(content, what, url), read \cup {what})
<1>1. PICK rows : rows = RowsFor(url)
  OBVIOUS
<1>2. rows \in SUBSET (SitePages \X Editions)
  BY <1>1, RowsAreTyped DEF ServingInv, ServingTypeOK
<1>3. part["tags"] \in Editions /\ part["snippets"] \in Editions
  BY DEF ServingInv, ServingTypeOK, PartNames
<1>4. CASE what = "rows"
  <2>1. WithRead(content, what, url) = [rows |-> rows, tags |-> content.tags, snippets |-> content.snippets]
    BY <1>1, <1>4 DEF WithRead, PageContents, PartNames
  <2> QED
    BY <2>1, <1>1, <1>2, <1>4 DEF ShowsCurrent, PageContents, RowsAreCurrent
<1>5. CASE what = "tags"
  <2>1. WithRead(content, what, url) =
          [rows |-> content.rows, tags |-> part["tags"], snippets |-> content.snippets]
    BY <1>5 DEF WithRead, PageContents, PartNames
  <2> QED
    BY <2>1, <1>3, <1>5 DEF ShowsCurrent, PageContents
<1>6. CASE what = "snippets"
  <2>1. WithRead(content, what, url) =
          [rows |-> content.rows, tags |-> content.tags, snippets |-> part["snippets"]]
    BY <1>6 DEF WithRead, PageContents, PartNames
  <2> QED
    BY <2>1, <1>3, <1>6 DEF ShowsCurrent, PageContents
<1>7. CASE what = "etag"
  <2>1. WithRead(content, what, url) = content
    BY <1>7 DEF WithRead, PartNames
  <2> QED
    BY <2>1, <1>7 DEF ShowsCurrent
<1> QED
  BY <1>4, <1>5, <1>6, <1>7 DEF Steps

LEMMA ReadStep ==
    ASSUME ServingInv, Read
    PROVE  ServingInv'
<1>1. UNCHANGED <<second, edition, row, site, part, edit, url, copy, stamps, twice, rewritten, released>>
  BY DEF Read, contentVars, pastStamps
<1>2. /\ view # NoView /\ view.todo # <<>> /\ url \in Urls /\ view.modified \in Seconds
      /\ view.modified \in stamps
  BY DEF Read, ServingInv, ServingTypeOK, StampsAreSound
<1>3. PICK v : v = view
  OBVIOUS
<1>4. /\ v = [modified |-> v.modified, settings |-> v.settings, etag |-> v.etag,
              todo |-> v.todo, content |-> v.content]
      /\ ReadOnce(v.todo) /\ ToRead(v.todo) \subseteq Reading(url) /\ v.content \in PageContents
      /\ IsLast(v.modified) => /\ v.settings = site.settings
                               /\ ShowsCurrent(v.content, Reading(url) \ ToRead(v.todo))
  BY <1>2, <1>3 DEF ServingInv, ViewIsSound
<1>5. PICK what : what = Head(v.todo)
  OBVIOUS
<1>6. /\ ReadOnce(Tail(v.todo)) /\ what \in ToRead(v.todo)
      /\ ToRead(Tail(v.todo)) = ToRead(v.todo) \ {what}
  BY <1>2, <1>3, <1>4, <1>5, ReadNext
<1>7. what \in Steps /\ Reading(url) \subseteq Steps
  <2>1. ReadOnce(Reads(url))
    BY <1>2, ReadsOnce
  <2> QED
    BY <2>1, <1>4, <1>6 DEF Reading, ReadOnce, ToRead
<1>8. PICK content : content = WithRead(v.content, what, url)
  OBVIOUS
<1>9. content \in PageContents
  BY <1>4, <1>7, <1>8, ReadIsCurrent
<1>10. IsLast(v.modified) => ShowsCurrent(content, Reading(url) \ ToRead(Tail(v.todo)))
  <2>1. PICK read \in SUBSET Steps : read = Reading(url) \ ToRead(v.todo)
    BY <1>7
  <2>2. Reading(url) \ ToRead(Tail(v.todo)) = read \cup {what} /\ what \notin read
    BY <2>1, <1>4, <1>6
  <2> QED
    BY <2>1, <2>2, <1>4, <1>7, <1>8, ReadIsCurrent
<1>11. \/ view' = NoView
       \/ \E tag : view' = [modified |-> v.modified, settings |-> v.settings, etag |-> tag,
                            todo |-> Tail(v.todo), content |-> content]
  <2>1. PICK tag : tag = IF v.etag = <<>> THEN EtagOf(url, v.modified) ELSE v.etag
    OBVIOUS
  <2>2. \/ view' = NoView
        \/ view' = [v EXCEPT !.etag = tag, !.content = content, !.todo = Tail(v.todo)]
    BY <2>1, <1>3, <1>4, <1>5, <1>8 DEF Read
  <2> QED
    BY <2>2, <1>4
<1>12. view' = NoView \/ view'.modified = v.modified
  BY <1>11
<1>13. ServingTypeOK' /\ DOMAIN edit' = SiteEditors
  BY <1>1, <1>2, <1>3, <1>12 DEF ServingInv, ServingTypeOK
<1>14. StampsAreSound'
  BY <1>1, <1>2, <1>3, <1>12 DEF ServingInv, StampsAreSound
<1>15. ViewIsSound'
  <2>1. CASE view' = NoView
    BY <2>1 DEF ViewIsSound
  <2>2. CASE view' # NoView
    <3>1. PICK w : /\ view' = w
                   /\ w = [modified |-> w.modified, settings |-> w.settings, etag |-> w.etag,
                           todo |-> w.todo, content |-> w.content]
                   /\ w.modified = v.modified /\ w.settings = v.settings
                   /\ w.todo = Tail(v.todo) /\ w.content = content
      <4>1. PICK tag : view' = [modified |-> v.modified, settings |-> v.settings, etag |-> tag,
                                todo |-> Tail(v.todo), content |-> content]
        BY <2>2, <1>11
      <4>2. PICK w : w = [modified |-> v.modified, settings |-> v.settings, etag |-> tag,
                          todo |-> Tail(v.todo), content |-> content]
        OBVIOUS
      <4>3. /\ w.modified = v.modified /\ w.settings = v.settings /\ w.etag = tag
            /\ w.todo = Tail(v.todo) /\ w.content = content
        BY <4>2
      <4> QED
        BY <4>1, <4>2, <4>3
    <3>2. (Reading(url) = Reading(url)') /\ (IsLast(w.modified)' => IsLast(v.modified))
      BY <3>1, <1>1 DEF Reading, IsLast
    <3>3. ToRead(w.todo) \subseteq Reading(url)'
      BY <3>1, <3>2, <1>4, <1>6
    <3>4. IsLast(w.modified)' =>
            w.settings = site'.settings /\ ShowsCurrent(w.content, Reading(url) \ ToRead(w.todo))'
      <4>1. PICK read : read = Reading(url) \ ToRead(w.todo)
        OBVIOUS
      <4>2. ShowsCurrent(content, read) => ShowsCurrent(content, read)'
        BY <1>1 DEF ShowsCurrent, RowsAreCurrent, RowsFor, PublishedOf
      <4>3. read = Reading(url)' \ ToRead(w.todo)
        BY <4>1, <3>2
      <4> QED
        BY <4>1, <4>2, <4>3, <3>1, <3>2, <1>1, <1>4, <1>10 DEF ToRead
    <3> QED
      BY <3>1, <3>3, <3>4, <1>6, <1>9 DEF ViewIsSound, ToRead
  <2> QED
    BY <2>1, <2>2
<1>16. CopyIsSound'
  BY <1>1, SoundStays
<1> QED
  BY <1>13, <1>14, <1>15, <1>16 DEF ServingInv

LEMMA EndStep ==
    ASSUME ServingInv, EndView
    PROVE  ServingInv'
<1>1. /\ view' = NoView
      /\ UNCHANGED <<second, edition, row, site, part, edit, url, copy, stamps, twice, rewritten, released>>
  BY DEF EndView, contentVars, pastStamps
<1>2. ServingTypeOK' /\ DOMAIN edit' = SiteEditors /\ StampsAreSound' /\ ViewIsSound'
  BY <1>1 DEF ServingInv, ServingTypeOK, StampsAreSound, ViewIsSound
<1> QED
  BY <1>1, <1>2, SoundStays DEF ServingInv

LEMMA RenderStep ==
    ASSUME ServingInv, Render
    PROVE  ServingInv'
<1>1. /\ view # NoView /\ view.todo = <<>> /\ view' = NoView
      /\ UNCHANGED <<second, edition, row, site, part, edit, url, stamps, twice, rewritten, released>>
  BY DEF Render, contentVars, pastStamps
<1>2. PICK c : /\ copy' = c
               /\ c = [modified |-> view.modified, etag |-> view.etag,
                       shows |-> [settings |-> view.settings, content |-> view.content]]
  BY DEF Render
<1>3. /\ c.modified = view.modified /\ c.shows.settings = view.settings
      /\ c.shows.content = view.content
      /\ c.shows = [settings |-> c.shows.settings, content |-> c.shows.content]
  BY <1>2
<1>4. /\ view.modified \in Seconds /\ view.modified \in stamps /\ view.content \in PageContents
      /\ ToRead(view.todo) = {}
      /\ IsLast(view.modified) => view.settings = site.settings /\ ShowsCurrent(view.content, Reading(url))
  <2>1. ToRead(view.todo) = {}
    BY <1>1 DEF ToRead
  <2> QED
    BY <2>1, <1>1 DEF ServingInv, ServingTypeOK, StampsAreSound, ViewIsSound
<1>5. ServingTypeOK' /\ DOMAIN edit' = SiteEditors
  BY <1>1, <1>2, <1>3, <1>4 DEF ServingInv, ServingTypeOK
<1>6. StampsAreSound' /\ ViewIsSound'
  BY <1>1, <1>2, <1>3, <1>4 DEF ServingInv, StampsAreSound, ViewIsSound
<1>7. CopyIsSound'
  <2>1. PICK content : content = view.content
    OBVIOUS
  <2>2. PICK read : read = Reading(url)
    OBVIOUS
  <2>3. ShowsCurrent(content, read) => ShowsCurrent(content, read)'
    BY <1>1 DEF ShowsCurrent, RowsAreCurrent, RowsFor, PublishedOf
  <2>4. read = Reading(url)' /\ (IsLast(c.modified)' => IsLast(view.modified))
    BY <2>2, <1>1, <1>3 DEF Reading, IsLast
  <2> QED
    BY <2>1, <2>2, <2>3, <2>4, <1>1, <1>2, <1>3, <1>4 DEF CopyIsSound
<1> QED
  BY <1>5, <1>6, <1>7 DEF ServingInv

LEMMA ServingStepInv == ServingInv /\ [ServingNext]_servingVars => ServingInv'
<1> SUFFICES ASSUME ServingInv, [ServingNext]_servingVars PROVE ServingInv'
  OBVIOUS
<1>1. ASSUME NEW x \in SiteEditors,
             \/ CreateTag(x) \/ UpdateTag(x) \/ DeleteTag(x)
             \/ CreateSnippet(x) \/ UpdateSnippet(x) \/ DeleteSnippet(x)
      PROVE  ServingInv'
  <2>1. \E k \in PartNames, text \in {0, edition + 1} : CommitPart(x, k, text)
    BY <1>1 DEF CreateTag, UpdateTag, DeleteTag, CreateSnippet, UpdateSnippet, DeleteSnippet, PartNames
  <2> QED
    BY <2>1, CommitPartStep
<1>2. CASE UNCHANGED servingVars
  <2>1. UNCHANGED <<second, edition, row, site, part, edit, url, view, copy, stamps, twice, rewritten,
                    released>>
    BY <1>2 DEF servingVars, contentVars, pastStamps
  <2>2. ServingTypeOK' /\ DOMAIN edit' = SiteEditors /\ StampsAreSound'
    BY <2>1 DEF ServingInv, ServingTypeOK, StampsAreSound
  <2> QED
    BY <2>1, <2>2, SoundStays DEF ServingInv
<1> QED
  BY <1>1, <1>2, SecondStep, JobStep, BeginStep, CommitPageStep, CommitWebsiteStep, FindStep,
     ReadStep, EndStep, RenderStep DEF ServingNext

\* What requests have read, and copies show, is what is there if their stamp is the last.
THEOREM ServingInvariance == ServingSpec => []ServingInv
<1> QED
  BY ServingInitInv, ServingStepInv, PTL DEF ServingSpec

\* Rows, edits and requests have their types, and every stamp is of a second.
THEOREM ServingTypes == ServingSpec => []ServingTypeOK
<1>1. ServingInv => ServingTypeOK
  BY DEF ServingInv
<1> QED
  BY <1>1, ServingInvariance, PTL

LEMMA CurrentCopy == ServingInv => CopiesAreCurrent
<1> SUFFICES ASSUME ServingInv, copy # NoCopy, copy.etag = EtagOf(url, site.modified),
                    copy.etag[1] \notin twice \cup rewritten,
                    copy.etag[1] \in {copy.modified} \cap {site.modified}
             PROVE  LET shown == Shown(url)
                        old == copy.shows.content.rows
                    IN  /\ copy.shows = [shown EXCEPT !.content.rows = old]
                        /\ old \subseteq shown.content.rows
                        /\ \A r \in shown.content.rows \ old : r[1] \in released
  BY DEF CopiesAreCurrent
<1>1. IsLast(copy.modified)
  BY DEF IsLast
<1>2. PICK s, content : /\ copy.shows = [settings |-> s, content |-> content]
                        /\ content \in PageContents /\ s = site.settings
                        /\ ShowsCurrent(content, Reading(url))
  BY <1>1 DEF ServingInv, CopyIsSound
<1>3. PICK rows : rows = IF "rows" \in Reading(url) THEN RowsFor(url) ELSE {}
  OBVIOUS
<1>4. PICK tags : tags = IF "tags" \in Reading(url) THEN part["tags"] ELSE 0
  OBVIOUS
<1>5. PICK snippets : snippets = IF "snippets" \in Reading(url) THEN part["snippets"] ELSE 0
  OBVIOUS
<1>6. Shown(url) = [settings |-> s, content |-> [rows |-> rows, tags |-> tags, snippets |-> snippets]]
  BY <1>2, <1>3, <1>4, <1>5 DEF Shown
<1>7. /\ content = [rows |-> content.rows, tags |-> tags, snippets |-> snippets]
      /\ content.rows \subseteq rows /\ \A r \in rows \ content.rows : r[1] \in released
  BY <1>2, <1>3, <1>4, <1>5 DEF ShowsCurrent, RowsAreCurrent, PageContents
<1>8. copy.shows.content.rows = content.rows
  BY <1>2
<1>9. [Shown(url) EXCEPT !.content.rows = content.rows] = [settings |-> s, content |-> content]
  BY <1>6, <1>7
<1> QED
  BY <1>2, <1>6, <1>7, <1>8, <1>9

\* A copy whose ETag is the one of today shows what is there today.
THEOREM CurrentCopies == ServingSpec => []CopiesAreCurrent
<1> QED
  BY CurrentCopy, ServingInvariance, PTL

-----------------------------------------------------------------------------
(***************************************************************************)
(* Downloads.  A request has found a file that was uploaded; what is in    *)
(* memory is a whole file, unless copying it broke off, and an ETag names  *)
(* one of them; what a visitor keeps is what its ETag names.               *)
(***************************************************************************)
\* The body is the range of the content.
IsWhole(body, c, range) ==
    /\ body.content = c /\ body.first \in Nat /\ body.count \in Nat
    /\ BytesOf(c, range) = body.first .. body.first + body.count - 1

\* A request has found a file that was uploaded, and an object is read only for
\* a range that there is.
DownloadIsSound(x) ==
    \/ download[x] = NoDownload
    \/ /\ download[x].file \in FileIDs /\ file[download[x].file].state # "new"
       /\ download[x].range \in Ranges
       /\ download[x].open => Requested(x).valid

\* What is in memory is a file, or the beginning of one.
MemoryIsSound ==
    /\ \A m \in memory :
         \E c \in Contents :
            /\ m.etag = <<c, NoRange>>
            /\ m.body.content = c /\ m.body.first = 0 /\ m.body.count \in 0 .. SizeOf(c)
            /\ m.body.count = SizeOf(c) \/ m.etag \in broken
    /\ \A m, l \in memory : m.etag = l.etag => m = l
    /\ broken \subseteq {m.etag : m \in memory}

KeptIsWhole ==
    \/ kept = NoKept
    \/ \E c \in Contents, range \in Ranges :
          kept.etag = <<c, range>> /\ IsWhole(kept.body, c, range)

DownloadsInv ==
    /\ file \in [FileIDs -> File]
    /\ \A f, g \in LiveFiles : f = g
    /\ DOMAIN download = Downloads /\ \A x \in Downloads : DownloadIsSound(x)
    /\ MemoryIsSound /\ KeptIsWhole /\ DownloadsAreWhole

LEMMA DownloadsConstants ==
    /\ FileSizes \subseteq Nat /\ AnyContent \in Contents
    /\ \A c \in Contents : SizeOf(c) \in Nat
<1>1. PICK t \in Texts, n \in FileSizes : TRUE
  BY DownloadsAssumption
<1>2. <<t, n>> \in Contents
  BY DEF Contents
<1> QED
  BY <1>2, DownloadsAssumption DEF AnyContent, Contents, SizeOf

LEMMA DownloadsInitInv == DownloadsInit => DownloadsInv
<1> SUFFICES ASSUME DownloadsInit PROVE DownloadsInv
  OBVIOUS
<1>1. file \in [FileIDs -> File] /\ LiveFiles = {}
  BY DownloadsConstants DEF DownloadsInit, File, LiveFiles
<1> QED
  BY <1>1 DEF DownloadsInit, DownloadsInv, DownloadIsSound, MemoryIsSound, KeptIsWhole,
              DownloadsAreWhole

\* A range that there is, is what the storage sends for it.
LEMMA RangeIsSent ==
    ASSUME NEW x \in Downloads, NEW c \in Contents, NEW range \in Ranges,
           download[x].range = range, file[download[x].file].content = c,
           Requested(x).valid
    PROVE  /\ IsWhole(GetObject(c, Requested(x)), c, range)
           /\ GetObject(c, Requested(x)).content = c
           /\ GetObject(c, Requested(x)).count = Requested(x).count
           /\ range = NoRange => /\ Requested(x).count = SizeOf(c)
                                 /\ GetObject(c, Requested(x)).first = 0
<1>0. SizeOf(c) \in Nat
  BY DownloadsConstants
<1>1. CASE range = NoRange
  <2>1. Requested(x) = [valid |-> TRUE, from |-> 0, count |-> SizeOf(c)]
    BY <1>1 DEF Requested
  <2>2. GetObject(c, Requested(x)) = [content |-> c, first |-> 0, count |-> SizeOf(c)]
    BY <2>1, <1>0 DEF GetObject
  <2>3. BytesOf(c, range) = 0 .. SizeOf(c) - 1
    BY <1>1 DEF BytesOf
  <2> QED
    BY <2>1, <2>2, <2>3, <1>0 DEF IsWhole
<1>2. CASE range # NoRange
  <2>1. Requested(x) = ComputeRangeSize(SizeOf(c), range) /\ range # Malformed
    BY <1>2 DEF Requested
  <2>2. range \in [from : FileSizes, to : FileSizes \cup {OpenEnd}]
    BY <1>2, <2>1 DEF Ranges
  <2>3. PICK to : to = IF range.to = OpenEnd THEN SizeOf(c) - 1 ELSE range.to
    OBVIOUS
  <2>4. /\ range.from \in Nat /\ to \in Int
        /\ to < SizeOf(c) /\ to >= range.from
        /\ Requested(x).from = range.from /\ Requested(x).count = to - range.from + 1
    <3>1. range.from \in Nat /\ to \in Int
      <4>1. range.from \in FileSizes /\ range.to \in FileSizes \cup {OpenEnd}
        BY <2>2
      <4>2. PICK n \in Nat : n = SizeOf(c)
        BY <1>0
      <4>3. to = IF range.to = OpenEnd THEN n - 1 ELSE range.to
        BY <2>3, <4>2
      <4>4. range.to \in Nat \/ range.to = OpenEnd
        BY <4>1, DownloadsConstants
      <4>5. to \in Int
        BY <4>3, <4>4
      <4> QED
        BY <4>1, <4>5, DownloadsConstants
    <3>2. Requested(x) = [valid |-> to < SizeOf(c) /\ to >= range.from, from |-> range.from,
                          count |-> to - range.from + 1]
      BY <2>1, <2>3 DEF ComputeRangeSize
    <3>3. PICK fits \in BOOLEAN : fits <=> (to < SizeOf(c) /\ to >= range.from)
      OBVIOUS
    <3>4. Requested(x) = [valid |-> fits, from |-> range.from, count |-> to - range.from + 1]
      BY <3>2, <3>3
    <3>5. fits
      BY <3>4
    <3> QED
      BY <3>1, <3>2, <3>3, <3>5
  <2>5. GetObject(c, Requested(x)) = [content |-> c, first |-> range.from, count |-> to - range.from + 1]
    BY <2>4, <1>0 DEF GetObject
  <2>6. BytesOf(c, range) = range.from .. to
    BY <2>3, <2>4, <1>0, <1>2 DEF BytesOf
  <2> QED
    BY <2>4, <2>5, <2>6, <1>2 DEF IsWhole
<1> QED
  BY <1>1, <1>2

\* As many bytes are announced as are named.
LEMMA WholeCounts ==
    ASSUME NEW body, NEW c, NEW range, IsWhole(body, c, range)
    PROVE  Cardinality(BytesOf(c, range)) = body.count
<1>1. PICK a \in Nat, n \in Nat : a = body.first /\ n = body.count
  BY DEF IsWhole
<1>2. Cardinality(a .. a + n - 1) = n
  <2>1. CASE n = 0
    <3>1. a .. a + n - 1 = {}
      BY <2>1
    <3> QED
      BY <2>1, <3>1, FS_EmptySet
  <2>2. CASE n # 0
    BY <2>2, FS_Interval
  <2> QED
    BY <2>1, <2>2
<1> QED
  BY <1>1, <1>2 DEF IsWhole

\* Requests that are under way are as they were, and the files have what they had.
LEMMA DownloadStays ==
    ASSUME DownloadsInv, NEW x \in Downloads, download'[x] = download[x],
           \A f \in FileIDs : file[f].state # "new" =>
               file'[f].state # "new" /\ file'[f].content = file[f].content
    PROVE  DownloadIsSound(x)'
<1>1. DownloadIsSound(x)
  BY DEF DownloadsInv
<1>2. PICK d : d = download[x]
  OBVIOUS
<1>3. CASE d = NoDownload
  BY <1>2, <1>3 DEF DownloadIsSound
<1>4. CASE d # NoDownload
  <2>1. /\ d.file \in FileIDs /\ file[d.file].state # "new" /\ d.range \in Ranges
        /\ d.open => Requested(x).valid
    BY <1>1, <1>2, <1>4 DEF DownloadIsSound
  <2>2. file'[d.file].state # "new" /\ file'[d.file].content = file[d.file].content
    BY <2>1
  <2>3. Requested(x)' = Requested(x)
    BY <1>2, <2>2 DEF Requested
  <2> QED
    BY <1>2, <2>1, <2>2, <2>3 DEF DownloadIsSound
<1> QED
  BY <1>3, <1>4

\* A request that ends.
LEMMA EndSound ==
    ASSUME DownloadsInv, NEW x \in Downloads, End(x)
    PROVE  /\ file' = file /\ DOMAIN download' = Downloads
           /\ \A y \in Downloads : DownloadIsSound(y)'
<1>1. file' = file /\ DOMAIN download' = Downloads /\ download'[x] = NoDownload
  BY DEF End, DownloadsInv
<1>2. \A y \in Downloads \ {x} : download'[y] = download[y]
  BY DEF End, DownloadsInv
<1>3. DownloadIsSound(x)'
  BY <1>1 DEF DownloadIsSound
<1>4. \A y \in Downloads \ {x} : DownloadIsSound(y)'
  BY <1>1, <1>2, DownloadStays
<1> QED
  BY <1>1, <1>3, <1>4

\* An answer is what the request has asked for, or a beginning of it that is cut off.
LEMMA AnswerIsWhole ==
    ASSUME DownloadsInv, NEW x \in Downloads, NEW c \in Contents, NEW range \in Ranges,
           file[download[x].file].content = c, download[x].range = range,
           NEW whole, IsWhole(whole, c, range),
           NEW length, NEW body, NEW cut, Answer(x, length, body, cut),
           length = whole.count, body.content = c, body.first = whole.first,
           body.count \in 0 .. whole.count, body.count = whole.count \/ cut
    PROVE  DownloadsAreWhole'
<1>1. PICK a : a = [content |-> c, range |-> range, length |-> length, body |-> body, cut |-> cut]
  OBVIOUS
<1>2. answer' = a
  BY <1>1 DEF Answer
<1>3. /\ a.body = body /\ a.content = c /\ a.range = range /\ a.length = length
      /\ a.cut = cut
  BY <1>1
<1>4. /\ whole.first \in Nat /\ whole.count \in Nat
      /\ BytesOf(c, range) = whole.first .. whole.first + whole.count - 1
  BY DEF IsWhole
<1>5. Cardinality(BytesOf(c, range)) = length
  BY WholeCounts
<1>6. PICK had : had = body.first .. body.first + body.count - 1
  OBVIOUS
<1>7. had \subseteq BytesOf(c, range)
  BY <1>4, <1>6
<1>8. had = BytesOf(c, range) \/ cut
  BY <1>4, <1>6
<1>9. /\ answer'.body.content = answer'.content
      /\ Cardinality(BytesOf(answer'.content, answer'.range)) = answer'.length
      /\ had = answer'.body.first .. answer'.body.first + answer'.body.count - 1
  BY <1>2, <1>3, <1>5, <1>6
<1>10. had \subseteq BytesOf(answer'.content, answer'.range)
  BY <1>2, <1>3, <1>7
<1>11. had = BytesOf(answer'.content, answer'.range) \/ answer'.cut
  BY <1>2, <1>3, <1>8
<1> QED
  BY <1>9, <1>10, <1>11 DEF DownloadsAreWhole

\* A request finds its file and its range.
LEMMA Found ==
    ASSUME DownloadsInv, NEW x \in Downloads, download[x] # NoDownload
    PROVE  /\ file[download[x].file].content \in Contents /\ download[x].range \in Ranges
           /\ EtagFor(x) = <<file[download[x].file].content, download[x].range>>
<1>1. download[x].file \in FileIDs /\ download[x].range \in Ranges
  BY DEF DownloadsInv, DownloadIsSound
<1>2. file[download[x].file] \in File
  BY <1>1 DEF DownloadsInv
<1> QED
  BY <1>1, <1>2 DEF File, EtagFor, GenerateAssetEtag

LEMMA StaffDownloadsInv ==
    ASSUME DownloadsInv,
           NEW f \in FileIDs,
           \/ \E c \in Contents, forSale \in BOOLEAN : UploadAsset(f, c, forSale)
           \/ DeleteAsset(f) \/ JobDeleteAssetData(f)
    PROVE  DownloadsInv'
<1>1. UNCHANGED <<download, memory, answer, kept, broken>>
  BY DEF UploadAsset, DeleteAsset, JobDeleteAssetData
<1>2. /\ file' \in [FileIDs -> File]
      /\ \A g \in FileIDs : file[g].state # "new" =>
             file'[g].state # "new" /\ file'[g].content = file[g].content
      /\ \A g, h \in LiveFiles' : g = h
  <2>0. file \in [FileIDs -> File] /\ \A g, h \in LiveFiles : g = h
    BY DEF DownloadsInv
  <2>1. ASSUME NEW c \in Contents, NEW forSale \in BOOLEAN, UploadAsset(f, c, forSale)
        PROVE <1>2!1 /\ <1>2!2 /\ <1>2!3
    BY <2>0, <2>1 DEF UploadAsset, LiveFiles, File
  <2>2. CASE DeleteAsset(f)
    BY <2>0, <2>2 DEF DeleteAsset, LiveFiles, File
  <2>3. CASE JobDeleteAssetData(f)
    BY <2>0, <2>3 DEF JobDeleteAssetData, LiveFiles, File
  <2> QED
    BY <2>1, <2>2, <2>3
<1>3. \A x \in Downloads : DownloadIsSound(x)'
  BY <1>1, <1>2, DownloadStays
<1>4. MemoryIsSound' /\ KeptIsWhole' /\ DownloadsAreWhole'
  <2>1. MemoryIsSound /\ KeptIsWhole /\ DownloadsAreWhole
    BY DEF DownloadsInv
  <2> QED
    BY <1>1, <2>1 DEF MemoryIsSound, KeptIsWhole, IsWhole, DownloadsAreWhole
<1> QED
  BY <1>1, <1>2, <1>3, <1>4 DEF DownloadsInv

LEMMA GetAssetInv ==
    ASSUME DownloadsInv, NEW x \in Downloads, NEW range \in Ranges,
           NEW who \in {"anybody", "contact", "buyer"}, GetAsset(x, range, who)
    PROVE  DownloadsInv'
<1>1. PICK f \in LiveFiles :
         download' = [download EXCEPT ![x] = [file |-> f, range |-> range, open |-> FALSE,
                                              contact |-> who # "anybody"]]
  BY DEF GetAsset
<1>2. UNCHANGED <<file, memory, answer, kept, broken>>
  BY DEF GetAsset
<1>3. f \in FileIDs /\ file[f].state # "new"
  BY DEF LiveFiles
<1>4. PICK d : d = [file |-> f, range |-> range, open |-> FALSE, contact |-> who # "anybody"]
  OBVIOUS
<1>5. d.file = f /\ d.range = range /\ ~d.open
  BY <1>4
<1>6. DOMAIN download' = Downloads /\ download'[x] = d
      /\ \A y \in Downloads \ {x} : download'[y] = download[y]
  BY <1>1, <1>4 DEF DownloadsInv
<1>7. DownloadIsSound(x)'
  BY <1>2, <1>3, <1>5, <1>6 DEF DownloadIsSound
<1>8. \A y \in Downloads : DownloadIsSound(y)'
  BY <1>2, <1>6, <1>7, DownloadStays
<1> QED
  BY <1>2, <1>6, <1>8 DEF DownloadsInv, LiveFiles, MemoryIsSound, KeptIsWhole, IsWhole,
                          DownloadsAreWhole

LEMMA RefuseInv ==
    ASSUME DownloadsInv, NEW x \in Downloads, Refuse(x)
    PROVE  DownloadsInv'
<1>1. End(x) /\ UNCHANGED <<memory, kept, broken>> /\ answer' = NoAnswer
  BY DEF Refuse
<1>2. DownloadsAreWhole'
  BY <1>1 DEF DownloadsAreWhole
<1>3. file' = file /\ DOMAIN download' = Downloads /\ \A y \in Downloads : DownloadIsSound(y)'
  BY <1>1, EndSound
<1> QED
  BY <1>1, <1>2, <1>3 DEF DownloadsInv, LiveFiles, MemoryIsSound, KeptIsWhole, IsWhole

LEMMA GetAssetDataInv ==
    ASSUME DownloadsInv, NEW x \in Downloads, GetAssetData(x)
    PROVE  DownloadsInv'
<1>1. CASE ~file[download[x].file].stored
  BY <1>1, RefuseInv DEF GetAssetData
<1>2. CASE file[download[x].file].stored
  <2>1. /\ download' = [download EXCEPT ![x].open = TRUE]
        /\ UNCHANGED <<file, answer, memory, kept, broken>>
    BY <1>2 DEF GetAssetData
  <2>2. download[x] # NoDownload /\ Requested(x).valid
    BY DEF GetAssetData, Asked
  <2>3. PICK d : d = download[x]
    OBVIOUS
  <2>4. PICK e : e = [d EXCEPT !.open = TRUE]
    OBVIOUS
  <2>5. e.file = d.file /\ e.range = d.range
    BY <2>4
  <2>6. DOMAIN download' = Downloads /\ download'[x] = e
        /\ \A y \in Downloads \ {x} : download'[y] = download[y]
    BY <2>1, <2>3, <2>4 DEF DownloadsInv
  <2>7. Requested(x)' = Requested(x)
    BY <2>1, <2>3, <2>5, <2>6 DEF Requested
  <2>8. DownloadIsSound(x)'
    <3>1. d.file \in FileIDs /\ file[d.file].state # "new" /\ d.range \in Ranges
      BY <2>2, <2>3 DEF DownloadsInv, DownloadIsSound
    <3> QED
      BY <3>1, <2>1, <2>2, <2>5, <2>6, <2>7 DEF DownloadIsSound
  <2>9. \A y \in Downloads : DownloadIsSound(y)'
    BY <2>1, <2>6, <2>8, DownloadStays
  <2> QED
    BY <2>1, <2>6, <2>9 DEF DownloadsInv, LiveFiles, MemoryIsSound, KeptIsWhole, IsWhole,
                            DownloadsAreWhole
<1> QED
  BY <1>1, <1>2

LEMMA NotModifiedInv ==
    ASSUME DownloadsInv, NEW x \in Downloads, NotModified(x)
    PROVE  DownloadsInv'
<1>1. /\ download[x] # NoDownload /\ kept # NoKept /\ kept.etag = EtagFor(x)
      /\ Answer(x, kept.body.count, kept.body, FALSE)
      /\ UNCHANGED <<memory, kept, broken>>
  BY DEF NotModified, Asked
<1>2. PICK c \in Contents, range \in Ranges :
         kept.etag = <<c, range>> /\ IsWhole(kept.body, c, range)
  BY <1>1 DEF DownloadsInv, KeptIsWhole
<1>3. file[download[x].file].content = c /\ download[x].range = range
  <2>1. PICK a, b : a = file[download[x].file].content /\ b = download[x].range
    OBVIOUS
  <2>2. <<a, b>> = <<c, range>>
    BY <1>1, <1>2, <2>1, Found
  <2> QED
    BY <2>1, <2>2
<1>4. PICK body : body = kept.body
  OBVIOUS
<1>5. IsWhole(body, c, range) /\ Answer(x, body.count, body, FALSE)
  BY <1>1, <1>2, <1>4
<1>6. body.content = c /\ body.count \in 0 .. body.count
  BY <1>5 DEF IsWhole
<1>7. DownloadsAreWhole'
  BY <1>3, <1>5, <1>6, AnswerIsWhole
<1>8. End(x)
  BY <1>1 DEF Answer
<1>9. file' = file /\ DOMAIN download' = Downloads /\ \A y \in Downloads : DownloadIsSound(y)'
  BY <1>8, EndSound
<1> QED
  BY <1>1, <1>7, <1>9 DEF DownloadsInv, LiveFiles, MemoryIsSound, KeptIsWhole, IsWhole

\* What a visitor keeps is the whole of what it asked for.
LEMMA KeepSound ==
    ASSUME DownloadsInv, NEW x \in Downloads, NEW c \in Contents, NEW range \in Ranges,
           EtagFor(x) = <<c, range>>, NEW body, IsWhole(body, c, range), Keep(x, body)
    PROVE  KeptIsWhole'
<1>1. CASE kept' = kept
  BY <1>1 DEF DownloadsInv, KeptIsWhole, IsWhole
<1>2. CASE kept' = [etag |-> EtagFor(x), body |-> body]
  <2>1. kept'.etag = <<c, range>> /\ kept'.body = body
    BY <1>2
  <2> QED
    BY <2>1 DEF KeptIsWhole, IsWhole
<1> QED
  BY <1>1, <1>2 DEF Keep

LEMMA ServeFromMemoryInv ==
    ASSUME DownloadsInv, NEW x \in Downloads, ServeFromMemory(x)
    PROVE  DownloadsInv'
<1>1. download[x] # NoDownload /\ download[x].range = NoRange /\ UNCHANGED <<memory, broken>>
  BY DEF ServeFromMemory, Asked
<1>2. PICK m \in InMemory(EtagFor(x)) :
         /\ Answer(x, Requested(x).count, m.body, m.etag \in broken)
         /\ IF m.body.count = Requested(x).count THEN Keep(x, m.body) ELSE UNCHANGED kept
  BY DEF ServeFromMemory
<1>3. PICK c : c = file[download[x].file].content
  OBVIOUS
<1>4. c \in Contents /\ NoRange \in Ranges /\ EtagFor(x) = <<c, NoRange>>
  BY <1>1, <1>3, Found DEF Ranges
<1>5. m \in memory /\ m.etag = <<c, NoRange>>
  BY <1>2, <1>4 DEF InMemory
<1>6. /\ m.body.content = c /\ m.body.first = 0 /\ m.body.count \in 0 .. SizeOf(c)
      /\ m.body.count = SizeOf(c) \/ m.etag \in broken
  <2>1. PICK k \in Contents :
            /\ m.etag = <<k, NoRange>>
            /\ m.body.content = k /\ m.body.first = 0 /\ m.body.count \in 0 .. SizeOf(k)
            /\ m.body.count = SizeOf(k) \/ m.etag \in broken
    BY <1>5 DEF DownloadsInv, MemoryIsSound
  <2>2. k = c
    BY <2>1, <1>5
  <2> QED
    BY <2>1, <2>2
<1>7. Requested(x).valid /\ Requested(x).count = SizeOf(c) /\ SizeOf(c) \in Nat
  BY <1>1, <1>3, <1>4, DownloadsConstants DEF Requested
<1>8. PICK whole : whole = GetObject(c, Requested(x))
  OBVIOUS
<1>9. IsWhole(whole, c, NoRange) /\ whole.count = SizeOf(c) /\ whole.first = 0
  BY <1>1, <1>3, <1>4, <1>7, <1>8, RangeIsSent
<1>10. PICK body : body = m.body
  OBVIOUS
<1>11. PICK cut : cut = (m.etag \in broken)
  OBVIOUS
<1>12. Answer(x, whole.count, body, cut)
  BY <1>2, <1>7, <1>9, <1>10, <1>11
<1>13. /\ body.content = c /\ body.first = whole.first /\ body.count \in 0 .. whole.count
       /\ body.count = whole.count \/ cut
  BY <1>6, <1>9, <1>10, <1>11
<1>14. DownloadsAreWhole'
  BY <1>1, <1>3, <1>4, <1>9, <1>12, <1>13, AnswerIsWhole
<1>15. KeptIsWhole'
  <2>1. CASE body.count = SizeOf(c)
    <3>1. IsWhole(body, c, NoRange)
      BY <2>1, <1>9, <1>13 DEF IsWhole
    <3>2. Keep(x, body)
      BY <2>1, <1>2, <1>7, <1>10
    <3> QED
      BY <3>1, <3>2, <1>4, KeepSound
  <2>2. CASE body.count # SizeOf(c)
    <3>1. kept' = kept
      BY <2>2, <1>2, <1>7, <1>10
    <3> QED
      BY <3>1 DEF DownloadsInv, KeptIsWhole, IsWhole
  <2> QED
    BY <2>1, <2>2
<1>16. End(x)
  BY <1>12 DEF Answer
<1>17. file' = file /\ DOMAIN download' = Downloads /\ \A y \in Downloads : DownloadIsSound(y)'
  BY <1>16, EndSound
<1> QED
  BY <1>1, <1>14, <1>15, <1>17 DEF DownloadsInv, LiveFiles, MemoryIsSound

\* What is copied, all or a part of it, is remembered as that.
LEMMA RememberSound ==
    ASSUME DownloadsInv, NEW x \in Downloads, NEW c \in Contents,
           file[download[x].file].content = c, EtagFor(x) = <<c, download[x].range>>,
           NEW body, NEW cut \in BOOLEAN, Remember(x, body, cut), body.content = c,
           download[x].range = NoRange =>
               /\ body.first = 0 /\ body.count \in 0 .. SizeOf(c)
               /\ body.count = SizeOf(c) \/ cut
    PROVE  MemoryIsSound'
<1>0. MemoryIsSound
  BY DEF DownloadsInv
<1>1. CASE ~IsSmall(x)
  BY <1>0, <1>1 DEF Remember, MemoryIsSound
<1>2. CASE IsSmall(x)
  <2>1. PICK etag : etag = <<c, NoRange>>
    OBVIOUS
  <2>2. EtagFor(x) = etag /\ download[x].range = NoRange
    BY <1>2, <2>1 DEF IsSmall
  <2>3. PICK new : new = [etag |-> etag, body |-> body]
    OBVIOUS
  <2>4. new.etag = etag /\ new.body = body
    BY <2>3
  <2>5. /\ memory' = {m \in memory : m.etag # etag} \cup {new}
        /\ broken' = IF cut THEN broken \cup {etag} ELSE broken \ {etag}
    BY <1>2, <2>2, <2>3 DEF Remember, InMemory
  <2>6. ASSUME NEW m \in memory'
        PROVE  \E k \in Contents :
                 /\ m.etag = <<k, NoRange>>
                 /\ m.body.content = k /\ m.body.first = 0 /\ m.body.count \in 0 .. SizeOf(k)
                 /\ m.body.count = SizeOf(k) \/ m.etag \in broken'
    <3>1. CASE m = new
      <4>1. m.body.count = SizeOf(c) \/ m.etag \in broken'
        BY <3>1, <2>2, <2>4, <2>5
      <4> QED
        BY <3>1, <4>1, <2>1, <2>2, <2>4
    <3>2. CASE m # new
      <4>1. m \in memory /\ m.etag # etag
        BY <3>2, <2>5
      <4>2. PICK k \in Contents :
               /\ m.etag = <<k, NoRange>>
               /\ m.body.content = k /\ m.body.first = 0 /\ m.body.count \in 0 .. SizeOf(k)
               /\ m.body.count = SizeOf(k) \/ m.etag \in broken
        BY <4>1, <1>0 DEF MemoryIsSound
      <4>3. m.body.count = SizeOf(k) \/ m.etag \in broken'
        BY <4>1, <4>2, <2>5
      <4> QED
        BY <4>2, <4>3
    <3> QED
      BY <3>1, <3>2
  <2>7. \A m, l \in memory' : m.etag = l.etag => m = l
    BY <1>0, <2>4, <2>5 DEF MemoryIsSound
  <2>8. broken' \subseteq {m.etag : m \in memory'}
    <3> SUFFICES ASSUME NEW b \in broken' PROVE \E m \in memory' : b = m.etag
      OBVIOUS
    <3>1. CASE b = etag
      BY <3>1, <2>4, <2>5
    <3>2. CASE b # etag
      <4>1. b \in broken
        BY <3>2, <2>5
      <4>2. PICK m \in memory : b = m.etag
        BY <4>1, <1>0 DEF MemoryIsSound
      <4> QED
        BY <3>2, <4>2, <2>5
    <3> QED
      BY <3>1, <3>2
  <2> QED
    BY <2>6, <2>7, <2>8 DEF MemoryIsSound
<1> QED
  BY <1>1, <1>2

\* What the storage sends for a request whose object it has begun to read.
LEMMA OpenIsSent ==
    ASSUME DownloadsInv, NEW x \in Downloads, download[x] # NoDownload, download[x].open,
           NEW c, NEW range, c = file[download[x].file].content, range = download[x].range,
           NEW whole, whole = GetObject(c, Requested(x))
    PROVE  /\ c \in Contents /\ range \in Ranges /\ EtagFor(x) = <<c, range>>
           /\ IsWhole(whole, c, range) /\ whole.content = c
           /\ whole.count = Requested(x).count /\ whole.count \in Nat
           /\ range = NoRange => whole.count = SizeOf(c) /\ whole.first = 0
           /\ SizeOf(c) \in Nat
<1>1. Requested(x).valid
  BY DEF DownloadsInv, DownloadIsSound
<1>2. c \in Contents /\ range \in Ranges /\ EtagFor(x) = <<c, range>>
  BY Found
<1>3. SizeOf(c) \in Nat
  BY <1>2, DownloadsConstants
<1>4. /\ IsWhole(whole, c, range) /\ whole.content = c /\ whole.count = Requested(x).count
      /\ range = NoRange => Requested(x).count = SizeOf(c) /\ whole.first = 0
  BY <1>1, <1>2, RangeIsSent
<1>5. whole.count \in Nat
  BY <1>4 DEF IsWhole
<1> QED
  BY <1>2, <1>3, <1>4, <1>5

LEMMA CopyAllInv ==
    ASSUME DownloadsInv, NEW x \in Downloads, CopyAll(x)
    PROVE  DownloadsInv'
<1>1. PICK c : c = file[download[x].file].content
  OBVIOUS
<1>2. PICK range : range = download[x].range
  OBVIOUS
<1>3. PICK whole : whole = GetObject(c, Requested(x))
  OBVIOUS
<1>4. /\ download[x] # NoDownload /\ download[x].open
      /\ Answer(x, Requested(x).count, whole, FALSE)
      /\ Remember(x, whole, FALSE) /\ Keep(x, whole)
  BY <1>1, <1>3 DEF CopyAll
<1>5. /\ c \in Contents /\ range \in Ranges /\ EtagFor(x) = <<c, range>>
      /\ IsWhole(whole, c, range) /\ whole.content = c
      /\ whole.count = Requested(x).count /\ whole.count \in Nat
      /\ range = NoRange => whole.count = SizeOf(c) /\ whole.first = 0
      /\ SizeOf(c) \in Nat
  BY <1>1, <1>2, <1>3, <1>4, OpenIsSent
<1>6. Answer(x, whole.count, whole, FALSE) /\ whole.count \in 0 .. whole.count
  <2>1. Answer(x, whole.count, whole, FALSE)
    BY <1>4, <1>5
  <2>2. \A n \in Nat : n \in 0 .. n
    OBVIOUS
  <2> QED
    BY <2>1, <2>2, <1>5
<1>7. DownloadsAreWhole'
  BY <1>1, <1>2, <1>5, <1>6, AnswerIsWhole
<1>8. MemoryIsSound'
  <2>1. range = NoRange => whole.first = 0 /\ whole.count \in 0 .. SizeOf(c)
                           /\ whole.count = SizeOf(c)
    BY <1>5
  <2> QED
    BY <2>1, <1>1, <1>2, <1>4, <1>5, RememberSound
<1>9. KeptIsWhole'
  BY <1>4, <1>5, KeepSound
<1>10. End(x)
  BY <1>4 DEF Answer
<1>11. file' = file /\ DOMAIN download' = Downloads /\ \A y \in Downloads : DownloadIsSound(y)'
  BY <1>10, EndSound
<1> QED
  BY <1>7, <1>8, <1>9, <1>11 DEF DownloadsInv, LiveFiles

LEMMA CopyPartInv ==
    ASSUME DownloadsInv, NEW x \in Downloads, CopyPart(x)
    PROVE  DownloadsInv'
<1>1. PICK c : c = file[download[x].file].content
  OBVIOUS
<1>2. PICK range : range = download[x].range
  OBVIOUS
<1>3. PICK whole : whole = GetObject(c, Requested(x))
  OBVIOUS
<1>4. download[x] # NoDownload /\ download[x].open /\ kept' = kept
  BY DEF CopyPart
<1>5. PICK n \in 0 .. whole.count - 1 :
         /\ Answer(x, Requested(x).count, [whole EXCEPT !.count = n], TRUE)
         /\ Remember(x, [whole EXCEPT !.count = n], TRUE)
  BY <1>1, <1>3 DEF CopyPart
<1>6. /\ c \in Contents /\ range \in Ranges /\ EtagFor(x) = <<c, range>>
      /\ IsWhole(whole, c, range) /\ whole.content = c
      /\ whole.count = Requested(x).count /\ whole.count \in Nat
      /\ range = NoRange => whole.count = SizeOf(c) /\ whole.first = 0
      /\ SizeOf(c) \in Nat
  BY <1>1, <1>2, <1>3, <1>4, OpenIsSent
<1>7. PICK piece : piece = [whole EXCEPT !.count = n]
  OBVIOUS
<1>8. piece.content = c /\ piece.first = whole.first /\ piece.count = n
  BY <1>3, <1>6, <1>7 DEF GetObject
<1>9. Answer(x, whole.count, piece, TRUE) /\ Remember(x, piece, TRUE)
  BY <1>5, <1>6, <1>7
<1>10. n \in 0 .. whole.count
  BY <1>6
<1>11. DownloadsAreWhole'
  BY <1>1, <1>2, <1>6, <1>8, <1>9, <1>10, AnswerIsWhole
<1>12. MemoryIsSound'
  <2>1. range = NoRange => piece.first = 0 /\ piece.count \in 0 .. SizeOf(c)
    BY <1>6, <1>8, <1>10
  <2> QED
    BY <2>1, <1>1, <1>2, <1>6, <1>8, <1>9, RememberSound
<1>13. KeptIsWhole'
  BY <1>4 DEF DownloadsInv, KeptIsWhole, IsWhole
<1>14. End(x)
  BY <1>9 DEF Answer
<1>15. file' = file /\ DOMAIN download' = Downloads /\ \A y \in Downloads : DownloadIsSound(y)'
  BY <1>14, EndSound
<1> QED
  BY <1>11, <1>12, <1>13, <1>15 DEF DownloadsInv, LiveFiles

LEMMA ForgetInv ==
    ASSUME DownloadsInv, NEW m \in memory, Forget(m)
    PROVE  DownloadsInv'
<1>1. /\ memory' = memory \ {m} /\ broken' = broken \ {m.etag}
      /\ UNCHANGED <<file, download, answer, kept>>
  BY DEF Forget
<1>2. MemoryIsSound
  BY DEF DownloadsInv
<1>3. \A l \in memory' : l \in memory /\ l.etag # m.etag
  BY <1>1, <1>2 DEF MemoryIsSound
<1>4. ASSUME NEW l \in memory'
      PROVE  \E k \in Contents :
                 /\ l.etag = <<k, NoRange>>
                 /\ l.body.content = k /\ l.body.first = 0 /\ l.body.count \in 0 .. SizeOf(k)
                 /\ l.body.count = SizeOf(k) \/ l.etag \in broken'
  <2>1. PICK k \in Contents :
               /\ l.etag = <<k, NoRange>>
               /\ l.body.content = k /\ l.body.first = 0 /\ l.body.count \in 0 .. SizeOf(k)
               /\ l.body.count = SizeOf(k) \/ l.etag \in broken
    BY <1>2, <1>3 DEF MemoryIsSound
  <2>2. l.body.count = SizeOf(k) \/ l.etag \in broken'
    BY <2>1, <1>1, <1>3
  <2> QED
    BY <2>1, <2>2
<1>5. broken' \subseteq {l.etag : l \in memory'}
  BY <1>1, <1>2 DEF MemoryIsSound
<1>6. MemoryIsSound'
  BY <1>2, <1>3, <1>4, <1>5 DEF MemoryIsSound
<1>7. \A y \in Downloads : DownloadIsSound(y)'
  BY <1>1, DownloadStays
<1> QED
  BY <1>1, <1>6, <1>7 DEF DownloadsInv, LiveFiles, KeptIsWhole, IsWhole, DownloadsAreWhole

LEMMA DownloadsStepInv == DownloadsInv /\ [DownloadsNext]_downloadsVars => DownloadsInv'
<1> SUFFICES ASSUME DownloadsInv, [DownloadsNext]_downloadsVars PROVE DownloadsInv'
  OBVIOUS
<1>1. ASSUME NEW f \in FileIDs,
             \/ \E c \in Contents, forSale \in BOOLEAN : UploadAsset(f, c, forSale)
             \/ DeleteAsset(f) \/ JobDeleteAssetData(f)
      PROVE  DownloadsInv'
  BY <1>1, StaffDownloadsInv
<1>2. ASSUME NEW x \in Downloads, NEW range \in Ranges, NEW who \in {"anybody", "contact", "buyer"},
             GetAsset(x, range, who)
      PROVE  DownloadsInv'
  BY <1>2, GetAssetInv
<1>3. ASSUME NEW x \in Downloads, NotModified(x) PROVE DownloadsInv'
  BY <1>3, NotModifiedInv
<1>4. ASSUME NEW x \in Downloads, RefuseRange(x) \/ FailGetObject(x) PROVE DownloadsInv'
  BY <1>4, RefuseInv DEF RefuseRange, FailGetObject
<1>5. ASSUME NEW x \in Downloads, ServeFromMemory(x) PROVE DownloadsInv'
  BY <1>5, ServeFromMemoryInv
<1>6. ASSUME NEW x \in Downloads, GetAssetData(x) PROVE DownloadsInv'
  BY <1>6, GetAssetDataInv
<1>7. ASSUME NEW x \in Downloads, CopyAll(x) PROVE DownloadsInv'
  BY <1>7, CopyAllInv
<1>8. ASSUME NEW x \in Downloads, CopyPart(x) PROVE DownloadsInv'
  BY <1>8, CopyPartInv
<1>9. ASSUME NEW m \in memory, Forget(m) PROVE DownloadsInv'
  BY <1>9, ForgetInv
<1>10. CASE UNCHANGED downloadsVars
  <2>1. UNCHANGED <<file, download, memory, answer, kept, broken>>
    BY <1>10 DEF downloadsVars
  <2>2. \A y \in Downloads : DownloadIsSound(y)'
    BY <2>1, DownloadStays
  <2> QED
    BY <2>1, <2>2 DEF DownloadsInv, LiveFiles, MemoryIsSound, KeptIsWhole, IsWhole,
                      DownloadsAreWhole
<1> QED
  BY <1>1, <1>2, <1>3, <1>4, <1>5, <1>6, <1>7, <1>8, <1>9, <1>10 DEF DownloadsNext

LEMMA DownloadsAreTyped == DownloadsInv => DownloadsTypeOK
<1> SUFFICES ASSUME DownloadsInv PROVE DownloadsTypeOK
  OBVIOUS
<1>1. Cardinality(LiveFiles) <= 1
  <2>1. CASE LiveFiles = {}
    BY <2>1, FS_EmptySet
  <2>2. ASSUME NEW f \in LiveFiles PROVE Cardinality(LiveFiles) <= 1
    <3>1. LiveFiles = {f}
      BY DEF DownloadsInv
    <3>2. Cardinality({f}) = 1
      BY FS_Singleton
    <3> QED
      BY <3>1, <3>2
  <2> QED
    BY <2>1, <2>2
<1>2. ASSUME NEW m \in memory
      PROVE  m.body.content \in Contents /\ Cardinality(InMemory(m.etag)) = 1
  <2>1. InMemory(m.etag) = {m}
    BY DEF DownloadsInv, MemoryIsSound, InMemory
  <2> QED
    BY <2>1, FS_Singleton DEF DownloadsInv, MemoryIsSound
<1>3. \A x \in Downloads : download[x] = NoDownload \/ download[x].file \in FileIDs
  BY DEF DownloadsInv, DownloadIsSound
<1> QED
  BY <1>1, <1>2, <1>3 DEF DownloadsInv, MemoryIsSound, DownloadsTypeOK

\* Requests are for files that were uploaded, and memory and copies hold what their ETags name.
THEOREM DownloadsInvariance == DownloadsSpec => []DownloadsInv
<1> QED
  BY DownloadsInitInv, DownloadsStepInv, PTL DEF DownloadsSpec

\* Files have a row and at most one of them is at the path, requests are for files,
\* and an ETag in memory is one body.
THEOREM DownloadsTypes == DownloadsSpec => []DownloadsTypeOK
<1> QED
  BY DownloadsAreTyped, DownloadsInvariance, PTL

\* A visitor has the bytes that were asked for, of the file that was at the path
\* then, from wherever they come.
THEOREM WholeDownloads == DownloadsSpec => []DownloadsAreWhole
<1>1. DownloadsInv => DownloadsAreWhole
  BY DEF DownloadsInv
<1> QED
  BY <1>1, DownloadsInvariance, PTL

\* Pages, lists, copies and files are what the website has.
THEOREM RightAnswers == ServingSpec /\ DownloadsSpec => []AnswersAreRight
<1>1. CopiesAreCurrent /\ DownloadsAreWhole => AnswersAreRight
  BY DEF AnswersAreRight
<1> QED
  BY <1>1, CurrentCopies, WholeDownloads, PTL

-----------------------------------------------------------------------------
(***************************************************************************)
(* The catalogue.  A request holds what it read; unless another changed    *)
(* its product or coupon since, that is what there is, and what it is      *)
(* about to write keeps pages in place and a coupon as asked.  What was    *)
(* made is never made again, so that what a request names is still of the  *)
(* same product if it is there.                                            *)
(***************************************************************************)
Leaves == [product : ProductIDs, position : Nat, text : Nat \ {0}]
LeafRows == UNION {[S -> Leaves] : S \in SUBSET ProductPageIDs}

\* What requests hold that have read and not yet written, by what they do.
ProductTasks ==
    [op : {"product"}, on : ProductIDs, late : BOOLEAN, stale : BOOLEAN, read : Statuses]
    \cup [op : {"delete product", "order"}, on : ProductIDs, late : BOOLEAN, stale : BOOLEAN]
PageTasks ==
    [op : {"create page"}, on : ProductIDs, late : BOOLEAN, stale : BOOLEAN, position : Nat]
    \cup [op : {"update page"}, on : ProductIDs, late : BOOLEAN, stale : BOOLEAN,
          page : ProductPageIDs, position : Nat]
    \cup [op : {"check page"}, on : ProductIDs, late : BOOLEAN, stale : BOOLEAN,
          page : ProductPageIDs]
    \cup [op : {"delete page"}, on : ProductIDs, late : BOOLEAN, stale : BOOLEAN,
          page : ProductPageIDs, rows : LeafRows]
    \cup [op : {"reorder"}, on : ProductIDs, late : BOOLEAN, stale : BOOLEAN, rows : LeafRows]
CouponTasks ==
    [op : {"create coupon", "update coupon"}, on : CouponIDs, late : BOOLEAN, stale : BOOLEAN,
     code : Codes, diff : [create : SUBSET ProductIDs, remove : SUBSET ProductIDs],
     new : SUBSET ProductIDs]
CatalogueTasks == ProductTasks \cup PageTasks \cup CouponTasks

CouponOps == {"create coupon", "update coupon"}
Started == {p \in ProductIDs : product[p] # "none"}
MadePages == {g \in ProductPageIDs : written[g] > 0}

\* g was made, and if it is still there it is of p.
IsPageOf(g, p) == written[g] > 0 /\ (leaf[g] # NoLeaf => leaf[g].product = p)

\* The rows are those of the pages P, placed anew.
PlacesPages(rows, P) ==
    /\ DOMAIN rows = P
    /\ \A h \in P : rows[h].text = leaf[h].text
    /\ {rows[h].position : h \in P} = 0 .. Cardinality(P) - 1

\* What a request read names what there is or was.
NamesWhatIs(t) ==
    /\ t.stale => t.late
    /\ t.op \notin CouponOps => t.on \in Started
    /\ t.op \in {"update page", "check page", "delete page"} => IsPageOf(t.page, t.on)
    /\ t.op \in {"delete page", "reorder"} =>
         \A h \in DOMAIN t.rows : IsPageOf(h, t.on) /\ t.rows[h].product = t.on
    /\ t.op \in CouponOps =>
         /\ t.new \subseteq Started /\ t.diff.remove \subseteq Started
         /\ t.diff.create \subseteq t.new /\ t.diff.remove \cap t.new = {}

\* Until another changes the pages, it is what there is.
PagesAreAsRead(t) ==
    /\ t.op = "create page" => t.position = Cardinality(PagesOf(t.on))
    /\ t.op = "update page" => (leaf[t.page] # NoLeaf => t.position = leaf[t.page].position)
    /\ t.op = "delete page" => PlacesPages(t.rows, PagesOf(t.on) \ {t.page})
    /\ t.op = "reorder" => PlacesPages(t.rows, PagesOf(t.on))

AnotherIsThere(t) ==
    t.op \in {"check page", "delete page"} => \E h \in PagesOf(t.on) : h # t.page

CouponIsAsRead(t) ==
    t.op \in CouponOps =>
      \A p \in Live : eligible[t.on][p] > 0 <=> p \in (t.new \ t.diff.create) \cup t.diff.remove

TaskIsSound(t) ==
    /\ NamesWhatIs(t)
    /\ ~t.stale => PagesAreAsRead(t) /\ CouponIsAsRead(t)
    /\ ~t.late => AnotherIsThere(t)

LeavesAreTyped ==
    /\ product \in [ProductIDs -> Statuses \cup {"none", "deleted"}]
    /\ leaf \in [ProductPageIDs -> Leaves \cup {NoLeaf}] /\ written \in [ProductPageIDs -> Nat]
    /\ task \in [Managers -> CatalogueTasks \cup {NoTask}]

CouponsAreTyped ==
    /\ coupon \in [CouponIDs -> Coupon \cup {NoCoupon}]
    /\ eligible \in [CouponIDs -> [ProductIDs -> Nat]] /\ asked \in [CouponIDs -> SUBSET ProductIDs]

LeavesAreSound ==
    /\ Cardinality(MadePages) \in Nat /\ MadePages = 1 .. Cardinality(MadePages)
    /\ \A g \in ProductPageIDs : leaf[g] # NoLeaf =>
         /\ leaf[g].product \in Live /\ written[g] > 0
         /\ g \notin overwritten => leaf[g].text = written[g]

ProductIsSound(p) ==
    /\ p \in misplaced \/
         {leaf[g].position : g \in PagesOf(p)} = 0 .. Cardinality(PagesOf(p)) - 1
    /\ p \in emptied \/ PagesOf(p) # {}

CouponIsSound(c) ==
    /\ asked[c] \subseteq Started
    /\ \A p \in ProductIDs : eligible[c][p] > 0 => p \in Live
    /\ c \notin mixed =>
         /\ \A p \in Live : eligible[c][p] > 0 <=> p \in asked[c]
         /\ \A p \in ProductIDs : eligible[c][p] <= 1

CatalogueInv ==
    /\ LeavesAreTyped /\ CouponsAreTyped /\ LeavesAreSound /\ ordered \subseteq Live
    /\ \A p \in Live : ProductIsSound(p)
    /\ \A c \in CouponIDs : CouponIsSound(c)
    /\ \A x \in Managers : task[x] # NoTask => TaskIsSound(task[x])

(* Places. *)

\* Distinct numbers below the size of a finite set are all of them.
LEMMA Onto ==
    ASSUME NEW S, IsFiniteSet(S), NEW f, \A s \in S : f[s] \in 0 .. Cardinality(S) - 1,
           \A s, t \in S : f[s] = f[t] => s = t
    PROVE  {f[s] : s \in S} = 0 .. Cardinality(S) - 1
<1>1. PICK n \in Nat : n = Cardinality(S)
  BY FS_CardinalityType
<1>2. PICK T : T = 0 .. n - 1
  OBVIOUS
<1>3. IsFiniteSet(T) /\ Cardinality(T) = n
  <2>1. IsFiniteSet(0 .. n - 1) /\ Cardinality(0 .. n - 1) = IF 0 > n - 1 THEN 0 ELSE n - 1 - 0 + 1
    BY FS_Interval
  <2> QED
    BY <2>1, <1>2
<1>4. PICK I : I = {f[s] : s \in S}
  OBVIOUS
<1>5. I \subseteq T
  BY <1>1, <1>2, <1>4
<1>6. PICK h : h = [s \in S |-> f[s]]
  OBVIOUS
<1>7. h \in Bijection(S, I)
  <2>1. h \in [S -> I] /\ \A s \in S : h[s] = f[s]
    BY <1>4, <1>6
  <2>2. h \in Injection(S, I)
    BY <2>1 DEF Injection, IsInjective
  <2>3. h \in Surjection(S, I)
    BY <2>1, <1>4 DEF Surjection
  <2> QED
    BY <2>2, <2>3 DEF Bijection
<1>8. IsFiniteSet(I) /\ Cardinality(I) = n
  <2>1. ExistsBijection(S, I)
    BY <1>7 DEF ExistsBijection
  <2> QED
    BY <2>1, <1>1, <1>3, <1>5, FS_Bijection, FS_Subset
<1>9. I = T
  BY <1>3, <1>5, <1>8, FS_Subset
<1> QED
  BY <1>1, <1>2, <1>4, <1>9

\* What each page of a list has before it, counted.
Before(S, list, s) == {i \in S : list[i] < list[s]}

LEMMA Ranked ==
    ASSUME NEW S, IsFiniteSet(S), NEW list, \A s \in S : list[s] \in Nat,
           \A s, t \in S : list[s] = list[t] => s = t,
           NEW f, \A s \in S : f[s] = Cardinality(Before(S, list, s))
    PROVE  {f[s] : s \in S} = 0 .. Cardinality(S) - 1
<1>1. ASSUME NEW s \in S, NEW B, B = Before(S, list, s)
      PROVE  IsFiniteSet(B) /\ Cardinality(B) \in Nat /\ Cardinality(B) < Cardinality(S)
  <2>1. B \subseteq S /\ s \notin B
    BY <1>1 DEF Before
  <2> QED
    BY <2>1, FS_Subset, FS_CardinalityType
<1>2. \A s \in S : f[s] \in 0 .. Cardinality(S) - 1
  BY <1>1, FS_CardinalityType
<1>3. ASSUME NEW s \in S, NEW t \in S, list[s] < list[t]
      PROVE  f[s] # f[t]
  <2>1. PICK B : B = Before(S, list, s)
    OBVIOUS
  <2>2. PICK C : C = Before(S, list, t)
    OBVIOUS
  <2>3. B \subseteq C /\ s \in C /\ s \notin B
    BY <2>1, <2>2, <1>3 DEF Before
  <2>4. IsFiniteSet(C) /\ f[s] = Cardinality(B) /\ f[t] = Cardinality(C)
    BY <2>1, <2>2, <1>1
  <2> QED
    BY <2>3, <2>4, FS_Subset
<1>4. \A s, t \in S : f[s] = f[t] => s = t
  <2> SUFFICES ASSUME NEW s \in S, NEW t \in S, f[s] = f[t] PROVE s = t
    OBVIOUS
  <2>1. ~(list[s] < list[t]) /\ ~(list[t] < list[s])
    BY <1>3
  <2>2. list[s] = list[t]
    BY <2>1
  <2> QED
    BY <2>2
<1> QED
  BY <1>2, <1>4, Onto

-----------------------------------------------------------------------------
(* Pages and tasks. *)

LEMMA LeafTypes ==
    ASSUME CatalogueInv
    PROVE  /\ \A g \in ProductPageIDs : leaf[g] = NoLeaf \/ leaf[g] \in Leaves
           /\ \A g \in ProductPageIDs : leaf[g] # NoLeaf =>
                leaf[g].product \in Live /\ written[g] \in Nat /\ written[g] > 0
           /\ NoLeaf \notin Leaves
<1>1. NoLeaf \notin Leaves
  BY CatalogueAssumption DEF Leaves
<1> QED
  BY <1>1 DEF CatalogueInv, LeavesAreTyped, LeavesAreSound

LEMMA PagesAreFinite ==
    ASSUME CatalogueInv, NEW p
    PROVE  /\ IsFiniteSet(PagesOf(p)) /\ Cardinality(PagesOf(p)) \in Nat
           /\ PagesOf(p) \subseteq ProductPageIDs
           /\ PagesOf(p) # {} => p \in Live
<1>1. PagesOf(p) \subseteq MadePages
  BY LeafTypes DEF PagesOf, MadePages
<1>2. IsFiniteSet(MadePages)
  BY FS_Interval DEF CatalogueInv, LeavesAreSound
<1> QED
  BY <1>1, <1>2, FS_Subset, FS_CardinalityType, LeafTypes DEF PagesOf

\* A new page was never there; the pages made are numbered still.
LEMMA NewPage ==
    ASSUME CatalogueInv, NEW g \in ProductPageIDs, IsNewPage(g),
           written' = [written EXCEPT ![g] = 1]
    PROVE  /\ written[g] = 0 /\ leaf[g] = NoLeaf
           /\ Cardinality(MadePages)' \in Nat /\ MadePages' = (1 .. Cardinality(MadePages))'
           /\ written' \in [ProductPageIDs -> Nat] /\ \A h \in ProductPageIDs : written[h] > 0 => written'[h] > 0
<1>1. PICK n \in Nat : n = Cardinality(MadePages) /\ MadePages = 1 .. n
  BY DEF CatalogueInv, LeavesAreSound
<1>2. g = n + 1
  BY <1>1 DEF IsNewPage, MadePages
<1>3. (1 .. n) \cup {n + 1} = 1 .. n + 1 /\ n + 1 \notin 1 .. n
  OBVIOUS
<1>4. written \in [ProductPageIDs -> Nat]
  BY DEF CatalogueInv, LeavesAreTyped
<1>5. written[g] = 0
  <2>1. g \notin MadePages
    BY <1>1, <1>2, <1>3
  <2>2. written[g] \in Nat
    BY <1>4
  <2> QED
    BY <2>1, <2>2 DEF MadePages
<1>6. MadePages' = 1 .. n + 1
  <2>1. MadePages' = MadePages \cup {g}
    BY <1>4 DEF MadePages
  <2> QED
    BY <2>1, <1>1, <1>2, <1>3
<1>7. Cardinality(1 .. n + 1) = n + 1
  BY FS_Interval
<1> QED
  BY <1>4, <1>5, <1>6, <1>7, LeafTypes

\* What the requests hold.
LEMMA TaskFields ==
    ASSUME NEW t \in CatalogueTasks
    PROVE  /\ t.late \in BOOLEAN /\ t.stale \in BOOLEAN
           /\ t.op \in CouponOps => /\ t.on \in CouponIDs /\ t.code \in Codes
                                    /\ t.new \in SUBSET ProductIDs
                                    /\ t.diff.create \in SUBSET ProductIDs
                                    /\ t.diff.remove \in SUBSET ProductIDs
           /\ t.op \notin CouponOps => t.on \in ProductIDs
           /\ t.op = "product" => t.read \in Statuses
           /\ t.op \in {"create page", "update page"} => t.position \in Nat
           /\ t.op \in {"update page", "check page", "delete page"} => t.page \in ProductPageIDs
           /\ t.op \in {"delete page", "reorder"} =>
                /\ DOMAIN t.rows \subseteq ProductPageIDs
                /\ \A h \in DOMAIN t.rows : t.rows[h] \in Leaves
<1>1. CASE t \in ProductTasks
  BY <1>1 DEF ProductTasks, CouponOps
<1>2. CASE t \in PageTasks
  <2>1. t.rows \in LeafRows => /\ DOMAIN t.rows \subseteq ProductPageIDs
                              /\ \A h \in DOMAIN t.rows : t.rows[h] \in Leaves
    BY DEF LeafRows
  <2>2. t.op \in {"delete page", "reorder"} => t.rows \in LeafRows
    BY <1>2 DEF PageTasks
  <2> QED
    BY <1>2, <2>1, <2>2 DEF PageTasks, CouponOps
<1>3. CASE t \in CouponTasks
  BY <1>3 DEF CouponTasks, CouponOps
<1> QED
  BY <1>1, <1>2, <1>3 DEF CatalogueTasks

\* A request that is disturbed holds what it held.
LEMMA Disturbed ==
    ASSUME NEW t \in CatalogueTasks, NEW u, u = [t EXCEPT !.late = TRUE, !.stale = TRUE]
    PROVE  /\ u \in CatalogueTasks /\ u.late /\ u.stale /\ u.op = t.op /\ u.on = t.on
           /\ t.op \in {"update page", "check page", "delete page"} => u.page = t.page
           /\ t.op \in {"delete page", "reorder"} => u.rows = t.rows
           /\ t.op \in CouponOps => u.diff = t.diff /\ u.new = t.new
<1>1. CASE t \in ProductTasks
  BY <1>1 DEF ProductTasks, CatalogueTasks, CouponOps
<1>2. CASE t \in PageTasks
  BY <1>2 DEF PageTasks, CatalogueTasks, CouponOps
<1>3. CASE t \in CouponTasks
  BY <1>3 DEF CouponTasks, CatalogueTasks, CouponOps
<1> QED
  BY <1>1, <1>2, <1>3 DEF CatalogueTasks

-----------------------------------------------------------------------------
(* What a step leaves alone. *)

SamePages(p) == PagesOf(p)' = PagesOf(p) /\ \A g \in PagesOf(p) : leaf'[g] = leaf[g]

SameCoupon(c) ==
    \A p \in Live' : /\ p \in Live => (eligible'[c][p] > 0 <=> eligible[c][p] > 0)
                     /\ p \notin Live => ~(eligible'[c][p] > 0) /\ p \notin Started

\* What was made stays made, and no page becomes that of another product.
NamesStay ==
    /\ Started \subseteq Started'
    /\ \A g \in ProductPageIDs : written[g] > 0 =>
         /\ written'[g] > 0
         /\ leaf'[g] # NoLeaf => leaf[g] # NoLeaf /\ leaf'[g].product = leaf[g].product

LEMMA NamesStillThere ==
    ASSUME NEW t \in CatalogueTasks, NamesWhatIs(t), NamesStay
    PROVE  NamesWhatIs(t)'
<1>1. ASSUME NEW g \in ProductPageIDs, NEW p, IsPageOf(g, p) PROVE IsPageOf(g, p)'
  BY <1>1 DEF IsPageOf, NamesStay
<1>2. t.op \notin CouponOps => t.on \in Started'
  BY DEF NamesWhatIs, NamesStay
<1>3. t.op \in CouponOps => t.new \subseteq Started' /\ t.diff.remove \subseteq Started'
  BY DEF NamesWhatIs, NamesStay
<1>4. t.op \in {"update page", "check page", "delete page"} => IsPageOf(t.page, t.on)'
  <2> SUFFICES ASSUME t.op \in {"update page", "check page", "delete page"}
               PROVE  IsPageOf(t.page, t.on)'
    OBVIOUS
  <2>1. PICK g \in ProductPageIDs : g = t.page /\ IsPageOf(g, t.on)
    BY TaskFields DEF NamesWhatIs
  <2> QED
    BY <2>1, <1>1
<1>5. t.op \in {"delete page", "reorder"} =>
         \A h \in DOMAIN t.rows : IsPageOf(h, t.on)' /\ t.rows[h].product = t.on
  <2> SUFFICES ASSUME t.op \in {"delete page", "reorder"}, NEW h \in DOMAIN t.rows
               PROVE  IsPageOf(h, t.on)' /\ t.rows[h].product = t.on
    OBVIOUS
  <2>1. h \in ProductPageIDs /\ IsPageOf(h, t.on) /\ t.rows[h].product = t.on
    BY TaskFields DEF NamesWhatIs
  <2> QED
    BY <2>1, <1>1
<1> QED
  BY <1>2, <1>3, <1>4, <1>5 DEF NamesWhatIs

LEMMA PlacesStay ==
    ASSUME NEW rows, NEW P, NEW p, P \subseteq PagesOf(p), SamePages(p), PlacesPages(rows, P)
    PROVE  PlacesPages(rows, P)'
BY DEF PlacesPages, SamePages

\* A request on a product whose pages stay, or on a coupon that does, is as it was.
LEMMA TaskStays ==
    ASSUME NEW t \in CatalogueTasks, TaskIsSound(t), NamesStay,
           t.op \notin CouponOps => SamePages(t.on),
           t.op \in CouponOps => SameCoupon(t.on)
    PROVE  TaskIsSound(t)'
<1>1. NamesWhatIs(t)'
  BY NamesStillThere DEF TaskIsSound
<1>2. ASSUME ~t.stale PROVE PagesAreAsRead(t)'
  <2>1. PagesAreAsRead(t) /\ NamesWhatIs(t)
    BY <1>2 DEF TaskIsSound
  <2>2. CASE t.op = "create page"
    BY <2>1, <2>2 DEF PagesAreAsRead, SamePages, CouponOps
  <2>3. CASE t.op = "update page"
    <3>1. PICK g \in ProductPageIDs : g = t.page
      BY <2>3, TaskFields
    <3>2. IsPageOf(g, t.on) /\ IsPageOf(g, t.on)' /\ SamePages(t.on)
      BY <2>1, <2>3, <3>1, <1>1 DEF NamesWhatIs, CouponOps
    <3>3. leaf'[g] # NoLeaf => leaf'[g] = leaf[g]
      BY <3>2 DEF IsPageOf, SamePages, PagesOf
    <3> QED
      BY <2>1, <2>3, <3>1, <3>3 DEF PagesAreAsRead
  <2>4. CASE t.op = "delete page"
    <3>1. SamePages(t.on) /\ PlacesPages(t.rows, PagesOf(t.on) \ {t.page})
      BY <2>1, <2>4 DEF PagesAreAsRead, CouponOps
    <3>2. PICK P : P = PagesOf(t.on) \ {t.page}
      OBVIOUS
    <3>3. PlacesPages(t.rows, P)'
      BY <3>1, <3>2, PlacesStay
    <3>4. P = PagesOf(t.on)' \ {t.page}
      BY <3>1, <3>2 DEF SamePages
    <3>5. PlacesPages(t.rows, PagesOf(t.on) \ {t.page})'
      BY <3>3, <3>4 DEF PlacesPages
    <3> QED
      BY <2>4, <3>5 DEF PagesAreAsRead
  <2>5. CASE t.op = "reorder"
    <3>1. SamePages(t.on) /\ PlacesPages(t.rows, PagesOf(t.on))
      BY <2>1, <2>5 DEF PagesAreAsRead, CouponOps
    <3>2. PICK P : P = PagesOf(t.on)
      OBVIOUS
    <3>3. PlacesPages(t.rows, P)'
      BY <3>1, <3>2, PlacesStay
    <3>4. P = PagesOf(t.on)'
      BY <3>1, <3>2 DEF SamePages
    <3>5. PlacesPages(t.rows, PagesOf(t.on))'
      BY <3>3, <3>4 DEF PlacesPages
    <3> QED
      BY <2>5, <3>5 DEF PagesAreAsRead
  <2> QED
    BY <2>2, <2>3, <2>4, <2>5 DEF PagesAreAsRead
<1>3. ASSUME ~t.stale PROVE CouponIsAsRead(t)'
  <2> SUFFICES ASSUME t.op \in CouponOps, NEW p \in Live'
               PROVE  eligible'[t.on][p] > 0 <=> p \in (t.new \ t.diff.create) \cup t.diff.remove
    BY DEF CouponIsAsRead
  <2>1. CouponIsAsRead(t) /\ NamesWhatIs(t) /\ SameCoupon(t.on)
    BY <1>3 DEF TaskIsSound
  <2>2. CASE p \in Live
    BY <2>1, <2>2 DEF CouponIsAsRead, SameCoupon
  <2>3. CASE p \notin Live
    BY <2>1, <2>3 DEF NamesWhatIs, SameCoupon
  <2> QED
    BY <2>2, <2>3
<1>4. ASSUME ~t.late PROVE AnotherIsThere(t)'
  <2> SUFFICES ASSUME t.op \in {"check page", "delete page"}
               PROVE  \E h \in PagesOf(t.on)' : h # t.page
    BY DEF AnotherIsThere
  <2>1. SamePages(t.on) /\ \E h \in PagesOf(t.on) : h # t.page
    BY <1>4 DEF TaskIsSound, AnotherIsThere, CouponOps
  <2> QED
    BY <2>1 DEF SamePages
<1> QED
  BY <1>1, <1>2, <1>3, <1>4 DEF TaskIsSound

LEMMA TaskDisturbed ==
    ASSUME NEW t \in CatalogueTasks, TaskIsSound(t), NamesStay,
           NEW u, u = [t EXCEPT !.late = TRUE, !.stale = TRUE]
    PROVE  TaskIsSound(u)' /\ u \in CatalogueTasks
<1>1. /\ u \in CatalogueTasks /\ u.late /\ u.stale /\ u.op = t.op /\ u.on = t.on
      /\ t.op \in {"update page", "check page", "delete page"} => u.page = t.page
      /\ t.op \in {"delete page", "reorder"} => u.rows = t.rows
      /\ t.op \in CouponOps => u.diff = t.diff /\ u.new = t.new
  BY Disturbed
<1>2. NamesWhatIs(t)
  BY DEF TaskIsSound
<1>3. NamesWhatIs(u)
  BY <1>1, <1>2 DEF NamesWhatIs
<1>4. NamesWhatIs(u)'
  BY <1>1, <1>3, NamesStillThere
<1> QED
  BY <1>1, <1>4 DEF TaskIsSound

\* Requests on what the step leaves alone stay, the others are disturbed or over.
LEMMA TasksStay ==
    ASSUME CatalogueInv, NamesStay, NEW T,
           \A p \in Started \ T : SamePages(p), \A c \in CouponIDs \ T : SameCoupon(c),
           NEW y \in Managers,
           \/ task'[y] = NoTask
           \/ task'[y] = task[y] /\ (task[y] = NoTask \/ task[y].on \notin T)
           \/ task[y] # NoTask /\ task'[y] = [task[y] EXCEPT !.late = TRUE, !.stale = TRUE]
    PROVE  /\ task'[y] # NoTask => TaskIsSound(task[y])'
           /\ task'[y] \in CatalogueTasks \cup {NoTask}
<1>1. CASE task'[y] = NoTask
  BY <1>1
<1>2. CASE task'[y] # NoTask
  <2>1. PICK t \in CatalogueTasks : t = task[y] /\ TaskIsSound(t)
    BY <1>2 DEF CatalogueInv, LeavesAreTyped
  <2>2. CASE task'[y] = t /\ t.on \notin T
    <3>1. t.op \notin CouponOps => SamePages(t.on)
      BY <2>1, <2>2 DEF TaskIsSound, NamesWhatIs
    <3>2. t.op \in CouponOps => SameCoupon(t.on)
      BY <2>1, <2>2, TaskFields
    <3>3. TaskIsSound(t)'
      BY <2>1, <3>1, <3>2, TaskStays
    <3> QED
      BY <2>2, <3>3 DEF TaskIsSound, NamesWhatIs, PagesAreAsRead, CouponIsAsRead, AnotherIsThere
  <2>3. CASE task'[y] = [t EXCEPT !.late = TRUE, !.stale = TRUE]
    <3>1. PICK u : u = [t EXCEPT !.late = TRUE, !.stale = TRUE]
      OBVIOUS
    <3>2. TaskIsSound(u)' /\ u \in CatalogueTasks /\ task'[y] = u
      BY <2>1, <2>3, <3>1, TaskDisturbed
    <3> QED
      BY <3>2 DEF TaskIsSound, NamesWhatIs, PagesAreAsRead, CouponIsAsRead, AnotherIsThere
  <2> QED
    BY <2>1, <2>2, <2>3, <1>2
<1> QED
  BY <1>1, <1>2

-----------------------------------------------------------------------------
(* Steps of one request that write nothing. *)

LEMMA OnlyTask ==
    ASSUME CatalogueInv, UNCHANGED <<product, ordered, leafVars, couponVars>>, NEW x \in Managers,
           NEW t, task' = [task EXCEPT ![x] = t],
           t = NoTask \/ (t \in CatalogueTasks /\ TaskIsSound(t))
    PROVE  CatalogueInv'
<1>1. UNCHANGED <<product, ordered, leaf, written, misplaced, emptied, overwritten, coupon,
                  eligible, asked, mixed>>
  BY DEF leafVars, couponVars
<1>2. ASSUME NEW u PROVE TaskIsSound(u) => TaskIsSound(u)'
  BY <1>1 DEF TaskIsSound, NamesWhatIs, PagesAreAsRead, CouponIsAsRead, AnotherIsThere, IsPageOf,
     PlacesPages, PagesOf, Started, Live
<1>3. ASSUME NEW y \in Managers, task'[y] # NoTask PROVE TaskIsSound(task[y])'
  <2>1. PICK u : u = task'[y] /\ TaskIsSound(u)
    BY <1>3 DEF CatalogueInv, LeavesAreTyped
  <2>2. TaskIsSound(u)'
    BY <2>1, <1>2
  <2> QED
    BY <2>1, <2>2 DEF TaskIsSound, NamesWhatIs, PagesAreAsRead, CouponIsAsRead, AnotherIsThere
<1>4. task' \in [Managers -> CatalogueTasks \cup {NoTask}]
  BY DEF CatalogueInv, LeavesAreTyped
<1>5. LeavesAreTyped' /\ CouponsAreTyped' /\ LeavesAreSound' /\ ordered' \subseteq Live'
  BY <1>1, <1>4 DEF CatalogueInv, LeavesAreTyped, CouponsAreTyped, LeavesAreSound, Live, MadePages
<1>6. \A p \in Live' : ProductIsSound(p)'
  BY <1>1 DEF CatalogueInv, ProductIsSound, PagesOf, Live
<1>7. \A c \in CouponIDs : CouponIsSound(c)'
  BY <1>1 DEF CatalogueInv, CouponIsSound, Started, Live
<1> QED
  BY <1>3, <1>5, <1>6, <1>7 DEF CatalogueInv

LEMMA RefuseStep ==
    ASSUME CatalogueInv, NEW x \in Managers, RefuseTask(x)
    PROVE  CatalogueInv'
BY OnlyTask DEF RefuseTask

LEMMA LiveStarted ==
    Live \subseteq Started /\ Live \subseteq ProductIDs /\ \A p \in Live : product[p] \in Statuses
BY DEF Live, Started, Statuses

LEMMA ProductBegins ==
    ASSUME CatalogueInv, NEW x \in Managers, NEW p \in ProductIDs,
           FindProduct(x, p) \/ CheckProduct(x, p) \/ FindOrderedProduct(x, p) \/ CountPages(x, p)
    PROVE  CatalogueInv'
<1>1. p \in Live /\ p \in Started
  BY DEF FindProduct, CheckProduct, FindOrderedProduct, CountPages, Live, Started, Statuses
<1>2. PICK s \in Statuses, n \in Nat : s = product[p] /\ n = Cardinality(PagesOf(p))
  BY <1>1, LiveStarted, PagesAreFinite
<1>3. CASE FindProduct(x, p)
  <2>1. PICK t : t = [op |-> "product", on |-> p, late |-> FALSE, stale |-> FALSE, read |-> s]
    OBVIOUS
  <2>2. t \in CatalogueTasks
    BY <2>1 DEF CatalogueTasks, ProductTasks
  <2>3. TaskIsSound(t)
    BY <1>1, <2>1 DEF TaskIsSound, NamesWhatIs, PagesAreAsRead, CouponIsAsRead, AnotherIsThere, CouponOps
  <2> QED
    BY <1>2, <1>3, <2>1, <2>2, <2>3, OnlyTask DEF FindProduct, StartTask
<1>4. CASE CheckProduct(x, p) \/ FindOrderedProduct(x, p)
  <2>1. PICK op \in {"delete product", "order"} :
          /\ task' = [task EXCEPT ![x] = [op |-> op, on |-> p, late |-> FALSE, stale |-> FALSE]]
          /\ UNCHANGED <<product, ordered, leafVars, couponVars>>
    BY <1>4 DEF CheckProduct, FindOrderedProduct, StartTask
  <2>2. PICK t : t = [op |-> op, on |-> p, late |-> FALSE, stale |-> FALSE]
    OBVIOUS
  <2>3. t \in CatalogueTasks
    BY <2>2 DEF CatalogueTasks, ProductTasks
  <2>4. TaskIsSound(t)
    BY <1>1, <2>2 DEF TaskIsSound, NamesWhatIs, PagesAreAsRead, CouponIsAsRead, AnotherIsThere, CouponOps
  <2> QED
    BY <2>1, <2>2, <2>3, <2>4, OnlyTask
<1>5. CASE CountPages(x, p)
  <2>1. PICK t : t = [op |-> "create page", on |-> p, late |-> FALSE, stale |-> FALSE, position |-> n]
    OBVIOUS
  <2>2. t \in CatalogueTasks
    BY <2>1 DEF CatalogueTasks, PageTasks
  <2>3. TaskIsSound(t)
    BY <1>1, <1>2, <2>1 DEF TaskIsSound, NamesWhatIs, PagesAreAsRead, CouponIsAsRead, AnotherIsThere,
       CouponOps
  <2> QED
    BY <1>2, <1>5, <2>1, <2>2, <2>3, OnlyTask DEF CountPages, StartTask
<1> QED
  BY <1>3, <1>4, <1>5

LEMMA PageBegins ==
    ASSUME CatalogueInv, NEW x \in Managers, NEW g \in ProductPageIDs,
           FindProductPage(x, g) \/ CheckPage(x, g)
    PROVE  CatalogueInv'
<1>1. leaf[g] # NoLeaf /\ leaf[g] \in Leaves /\ leaf[g].product \in Live /\ written[g] > 0
  BY LeafTypes DEF FindProductPage, CheckPage
<1>2. PICK p \in ProductIDs, n \in Nat : p = leaf[g].product /\ n = leaf[g].position /\ p \in Live
  BY <1>1 DEF Leaves
<1>3. IsPageOf(g, p) /\ p \in Started
  BY <1>1, <1>2, LiveStarted DEF IsPageOf
<1>4. CASE FindProductPage(x, g)
  <2>1. PICK t : t = [op |-> "update page", on |-> p, late |-> FALSE, stale |-> FALSE, page |-> g,
                      position |-> n]
    OBVIOUS
  <2>2. t \in CatalogueTasks
    BY <2>1 DEF CatalogueTasks, PageTasks
  <2>3. TaskIsSound(t)
    BY <1>2, <1>3, <2>1 DEF TaskIsSound, NamesWhatIs, PagesAreAsRead, CouponIsAsRead, AnotherIsThere,
       CouponOps
  <2> QED
    BY <1>2, <1>4, <2>1, <2>2, <2>3, OnlyTask DEF FindProductPage, StartTask
<1>5. CASE CheckPage(x, g)
  <2>1. PICK t : t = [op |-> "check page", on |-> p, late |-> FALSE, stale |-> FALSE, page |-> g]
    OBVIOUS
  <2>2. t \in CatalogueTasks
    BY <2>1 DEF CatalogueTasks, PageTasks
  <2>3. \E h \in PagesOf(p) : h # g
    <3> SUFFICES ASSUME PagesOf(p) \subseteq {g} PROVE FALSE
      OBVIOUS
    <3>1. Cardinality(PagesOf(p)) > 1
      BY <1>2, <1>5 DEF CheckPage
    <3>2. IsFiniteSet({g}) /\ Cardinality({g}) = 1
      BY FS_Singleton
    <3> QED
      BY <3>1, <3>2, FS_Subset, PagesAreFinite
  <2>4. TaskIsSound(t)
    BY <1>2, <1>3, <2>1, <2>3 DEF TaskIsSound, NamesWhatIs, PagesAreAsRead, CouponIsAsRead,
       AnotherIsThere, CouponOps
  <2> QED
    BY <1>2, <1>5, <2>1, <2>2, <2>4, OnlyTask DEF CheckPage, StartTask
<1> QED
  BY <1>4, <1>5

LEMMA RenumberBegins ==
    ASSUME CatalogueInv, NEW x \in Managers, FindPagesToRenumber(x)
    PROVE  CatalogueInv'
<1> DEFINE Q == PagesOf(task[x].on) \ {task[x].page}
<1>1. PICK s \in CatalogueTasks : s = task[x] /\ TaskIsSound(s) /\ s.op = "check page"
  BY DEF FindPagesToRenumber, Asks, CatalogueInv, LeavesAreTyped
<1>2. PICK p \in ProductIDs, g \in ProductPageIDs : p = s.on /\ g = s.page
  BY <1>1, TaskFields DEF CouponOps
<1>3. PICK P : P = PagesOf(p)
  OBVIOUS
<1>4. PICK others : others = P \ {g}
  OBVIOUS
<1>5. PICK list \in Orders(PagesOf(task[x].on)) :
         task' = [task EXCEPT ![x] =
               [op |-> "delete page", on |-> task[x].on, late |-> task[x].late, stale |-> FALSE,
                page |-> task[x].page,
                rows |-> [h \in Q |-> [leaf[h] EXCEPT !.position = Cardinality(Before(Q, list, h))]]]]
  BY DEF FindPagesToRenumber, Before
<1>6. PICK rows : rows = [h \in Q |-> [leaf[h] EXCEPT !.position = Cardinality(Before(Q, list, h))]]
  OBVIOUS
<1>7. PICK t : t = [op |-> "delete page", on |-> p, late |-> s.late, stale |-> FALSE, page |-> g,
                    rows |-> rows]
  OBVIOUS
<1>8. task' = [task EXCEPT ![x] = t]
  BY <1>1, <1>2, <1>5, <1>6, <1>7
<1>9. Q = others
  BY <1>1, <1>2, <1>3, <1>4
<1>10. PICK f : f = [h \in others |-> Cardinality(Before(others, list, h))]
  OBVIOUS
<1>11. rows = [h \in others |-> [leaf[h] EXCEPT !.position = f[h]]]
  BY <1>6, <1>9, <1>10
<1>12. list \in Orders(P)
  BY <1>1, <1>2, <1>3
<1> HIDE DEF Q
<1>13. IsFiniteSet(others) /\ others \subseteq ProductPageIDs /\ others \subseteq P
  BY <1>3, <1>4, PagesAreFinite, FS_Subset
<1>14. \A h \in P : leaf[h] \in Leaves /\ leaf[h].product = p /\ written[h] > 0
  BY <1>3, LeafTypes DEF PagesOf
<1>15. {f[h] : h \in others} = 0 .. Cardinality(others) - 1
  <2>1. DOMAIN list = P /\ \A h \in P : list[h] \in Nat
    BY <1>12 DEF Orders
  <2>2. \A h, i \in others : list[h] = list[i] => h = i
    BY <1>12, <1>13, <2>1 DEF Orders, IsInjective
  <2>3. \A h \in others : list[h] \in Nat /\ f[h] = Cardinality(Before(others, list, h))
    BY <1>10, <1>13, <2>1
  <2> QED
    BY <1>13, <2>2, <2>3, Ranked
<1>16. \A h \in others : f[h] \in Nat
  BY <1>15
<1>17. /\ DOMAIN rows = others
       /\ \A h \in others : /\ rows[h] \in Leaves /\ rows[h].product = p
                            /\ rows[h].position = f[h] /\ rows[h].text = leaf[h].text
  BY <1>11, <1>13, <1>14, <1>16 DEF Leaves
<1>18. rows \in LeafRows
  <2>1. rows \in [others -> Leaves]
    BY <1>11, <1>17
  <2> QED
    BY <2>1, <1>13 DEF LeafRows
<1>19. t \in CatalogueTasks
  BY <1>1, <1>2, <1>7, <1>18, TaskFields DEF CatalogueTasks, PageTasks
<1>20. PlacesPages(rows, others)
  BY <1>15, <1>17 DEF PlacesPages
<1>21. \A h \in others : IsPageOf(h, p)
  BY <1>13, <1>14 DEF IsPageOf
<1>22. NamesWhatIs(s) /\ (~s.late => AnotherIsThere(s))
  BY <1>1 DEF TaskIsSound
<1>23. NamesWhatIs(t)
  BY <1>1, <1>2, <1>7, <1>17, <1>21, <1>22 DEF NamesWhatIs, CouponOps
<1>24. PagesAreAsRead(t) /\ CouponIsAsRead(t)
  BY <1>3, <1>4, <1>7, <1>20 DEF PagesAreAsRead, CouponIsAsRead, CouponOps
<1>25. ~t.late => AnotherIsThere(t)
  BY <1>1, <1>2, <1>7, <1>22 DEF AnotherIsThere
<1>26. TaskIsSound(t)
  BY <1>23, <1>24, <1>25 DEF TaskIsSound
<1> QED
  BY <1>8, <1>19, <1>26, OnlyTask DEF FindPagesToRenumber

LEMMA ReorderBegins ==
    ASSUME CatalogueInv, NEW x \in Managers, NEW p \in ProductIDs, FindPagesToReorder(x, p)
    PROVE  CatalogueInv'
<1>1. PICK P : P = PagesOf(p)
  OBVIOUS
<1>2. PICK list \in {f \in [P -> 0 .. Cardinality(P) - 1] : IsInjective(f)} :
         task' = [task EXCEPT ![x] =
               [op |-> "reorder", on |-> p, late |-> FALSE, stale |-> FALSE,
                rows |-> [g \in P |-> [leaf[g] EXCEPT !.position = list[g]]]]]
  BY <1>1 DEF FindPagesToReorder, StartTask
<1>r. PICK rows : rows = [g \in P |-> [leaf[g] EXCEPT !.position = list[g]]]
  OBVIOUS
<1>3. PICK t : t = [op |-> "reorder", on |-> p, late |-> FALSE, stale |-> FALSE, rows |-> rows]
  OBVIOUS
<1>4. p \in Live /\ IsFiniteSet(P) /\ P \subseteq ProductPageIDs
  BY <1>1, PagesAreFinite DEF FindPagesToReorder
<1>5. \A h \in P : leaf[h] \in Leaves /\ leaf[h].product = p /\ written[h] > 0
  BY <1>1, LeafTypes DEF PagesOf
<1>6. \A h \in P : list[h] \in 0 .. Cardinality(P) - 1 /\ list[h] \in Nat
  OBVIOUS
<1>7. {list[h] : h \in P} = 0 .. Cardinality(P) - 1
  <2>1. \A h, i \in P : list[h] = list[i] => h = i
    BY DEF IsInjective
  <2> QED
    BY <1>4, <1>6, <2>1, Onto
<1>8. /\ DOMAIN rows = P
      /\ \A h \in P : /\ rows[h] \in Leaves /\ rows[h].product = p
                      /\ rows[h].position = list[h] /\ rows[h].text = leaf[h].text
  BY <1>r, <1>5, <1>6 DEF Leaves
<1>9. rows \in LeafRows
  <2>1. rows \in [P -> Leaves]
    BY <1>r, <1>8
  <2> QED
    BY <2>1, <1>4 DEF LeafRows
<1>10. t \in CatalogueTasks
  BY <1>3, <1>9 DEF CatalogueTasks, PageTasks
<1>11. PlacesPages(rows, P)
  BY <1>7, <1>8 DEF PlacesPages
<1>12. \A h \in P : IsPageOf(h, p)
  BY <1>5 DEF IsPageOf
<1>13. NamesWhatIs(t)
  BY <1>3, <1>4, <1>8, <1>12, LiveStarted DEF NamesWhatIs, CouponOps
<1>14. TaskIsSound(t)
  BY <1>1, <1>3, <1>11, <1>13 DEF TaskIsSound, PagesAreAsRead, CouponIsAsRead, AnotherIsThere, CouponOps
<1> QED
  BY <1>r, <1>2, <1>3, <1>10, <1>14, OnlyTask DEF FindPagesToReorder

LEMMA CouponBegins ==
    ASSUME CatalogueInv, NEW x \in Managers, NEW c \in CouponIDs, NEW code \in Codes,
           NEW new \in SUBSET ProductIDs, FindCoupon(x, c, code, new)
    PROVE  CatalogueInv'
<1>1. PICK current : current = ProductsOf(c)
  OBVIOUS
<1>2. current \subseteq Live /\ \A p \in Live : eligible[c][p] > 0 <=> p \in current
  BY <1>1, LiveStarted DEF ProductsOf, CatalogueInv, CouponIsSound
<1>3. PICK op \in CouponOps : op = IF coupon[c] = NoCoupon THEN "create coupon" ELSE "update coupon"
  BY DEF CouponOps
<1>4. PICK t : /\ task' = [task EXCEPT ![x] = t]
               /\ t = [op |-> op, on |-> c, late |-> FALSE, stale |-> FALSE, code |-> code,
                       diff |-> [create |-> new \ current, remove |-> current \ new], new |-> new]
  BY <1>1, <1>3 DEF FindCoupon, StartTask, DiffProducts
<1>5. new \ current \subseteq Live
  BY <1>1 DEF FindCoupon, DiffProducts
<1>6. current \subseteq ProductIDs
  BY <1>1 DEF ProductsOf
<1>7. t \in CatalogueTasks
  BY <1>4, <1>6 DEF CatalogueTasks, CouponTasks, CouponOps
<1>8. NamesWhatIs(t)
  BY <1>2, <1>4, <1>5, LiveStarted DEF NamesWhatIs, CouponOps
<1>9. CouponIsAsRead(t)
  BY <1>2, <1>4 DEF CouponIsAsRead
<1>10. TaskIsSound(t)
  BY <1>4, <1>8, <1>9 DEF TaskIsSound, PagesAreAsRead, AnotherIsThere, CouponOps
<1> QED
  BY <1>4, <1>7, <1>10, OnlyTask DEF FindCoupon

-----------------------------------------------------------------------------
(* Steps that write. *)

LEMMA DoneTasks ==
    ASSUME CatalogueInv, NEW x, NEW on, Done(x, on)
    PROVE  /\ task' = [y \in Managers |-> task'[y]]
           /\ \A y \in Managers :
                \/ task'[y] = NoTask
                \/ task'[y] = task[y] /\ (task[y] = NoTask \/ task[y].on \notin {on})
                \/ task[y] # NoTask /\ task'[y] = [task[y] EXCEPT !.late = TRUE, !.stale = TRUE]
BY DEF Done

LEMMA WriteIsSound ==
    ASSUME CatalogueInv, NamesStay, NEW T,
           \A p \in Started \ T : SamePages(p), \A c \in CouponIDs \ T : SameCoupon(c),
           task' = [y \in Managers |-> task'[y]],
           \A y \in Managers :
              \/ task'[y] = NoTask
              \/ task'[y] = task[y] /\ (task[y] = NoTask \/ task[y].on \notin T)
              \/ task[y] # NoTask /\ task'[y] = [task[y] EXCEPT !.late = TRUE, !.stale = TRUE],
           product' \in [ProductIDs -> Statuses \cup {"none", "deleted"}],
           leaf' \in [ProductPageIDs -> Leaves \cup {NoLeaf}], written' \in [ProductPageIDs -> Nat],
           CouponsAreTyped', LeavesAreSound', ordered' \subseteq Live',
           \A p \in Live' : ProductIsSound(p)', \A c \in CouponIDs : CouponIsSound(c)'
    PROVE  CatalogueInv'
<1>1. \A y \in Managers : /\ task'[y] # NoTask => TaskIsSound(task[y])'
                          /\ task'[y] \in CatalogueTasks \cup {NoTask}
  BY TasksStay
<1>2. LeavesAreTyped'
  BY <1>1 DEF LeavesAreTyped
<1> QED
  BY <1>1, <1>2 DEF CatalogueInv

\* A step that disturbs no request.
LEMMA WriteAlone ==
    ASSUME CatalogueInv, NamesStay,
           \A p \in Started : SamePages(p), \A c \in CouponIDs : SameCoupon(c),
           NEW x, task' = [task EXCEPT ![x] = NoTask] \/ task' = task,
           product' \in [ProductIDs -> Statuses \cup {"none", "deleted"}],
           leaf' \in [ProductPageIDs -> Leaves \cup {NoLeaf}], written' \in [ProductPageIDs -> Nat],
           CouponsAreTyped', LeavesAreSound', ordered' \subseteq Live',
           \A p \in Live' : ProductIsSound(p)', \A c \in CouponIDs : CouponIsSound(c)'
    PROVE  CatalogueInv'
<1>1. task \in [Managers -> CatalogueTasks \cup {NoTask}]
  BY DEF CatalogueInv, LeavesAreTyped
<1>2. task' = [y \in Managers |-> task'[y]]
  BY <1>1
<1>3. PICK T : T = {}
  OBVIOUS
<1>4. \A y \in Managers :
         \/ task'[y] = NoTask
         \/ task'[y] = task[y] /\ (task[y] = NoTask \/ task[y].on \notin T)
         \/ task[y] # NoTask /\ task'[y] = [task[y] EXCEPT !.late = TRUE, !.stale = TRUE]
  BY <1>1, <1>3
<1>5. (\A p \in Started \ T : SamePages(p)) /\ (\A c \in CouponIDs \ T : SameCoupon(c))
  OBVIOUS
<1> QED
  BY <1>2, <1>4, <1>5, WriteIsSound

LEMMA ProductStays ==
    ASSUME NEW p, ProductIsSound(p), SamePages(p),
           p \in misplaced => p \in misplaced', p \in emptied => p \in emptied'
    PROVE  ProductIsSound(p)'
BY DEF ProductIsSound, SamePages

LEMMA CouponStays ==
    ASSUME NEW c \in CouponIDs, CouponIsSound(c), UNCHANGED <<product, eligible, asked, mixed>>
    PROVE  CouponIsSound(c)'
BY DEF CouponIsSound, Started, Live

LEMMA UnchangedStays ==
    /\ UNCHANGED <<product, eligible>> => \A c \in CouponIDs : SameCoupon(c)
    /\ UNCHANGED leaf => \A p : SamePages(p)
    /\ UNCHANGED couponVars =>
         UNCHANGED <<coupon, eligible, asked, mixed>> /\ (CouponsAreTyped => CouponsAreTyped')
BY DEF SameCoupon, SamePages, PagesOf, Live, couponVars, CouponsAreTyped

LEMMA CreateProductStep ==
    ASSUME CatalogueInv, NEW p \in ProductIDs, NEW g \in ProductPageIDs, CreateProduct(p, g)
    PROVE  CatalogueInv'
<1>1. /\ product[p] = "none" /\ IsNewPage(g)
      /\ product' = [product EXCEPT ![p] = "draft"] /\ written' = [written EXCEPT ![g] = 1]
      /\ UNCHANGED <<ordered, task, misplaced, emptied, overwritten, couponVars>>
  BY DEF CreateProduct
<1>2. PICK one \in Leaves : /\ one.product = p /\ one.position = 0 /\ one.text = 1
                            /\ leaf' = [leaf EXCEPT ![g] = one]
  <2>1. [product |-> p, position |-> 0, text |-> 1] \in Leaves
    BY DEF Leaves
  <2> QED
    BY <2>1 DEF CreateProduct
<1>3. /\ product \in [ProductIDs -> Statuses \cup {"none", "deleted"}]
      /\ leaf \in [ProductPageIDs -> Leaves \cup {NoLeaf}] /\ written \in [ProductPageIDs -> Nat]
  BY DEF CatalogueInv, LeavesAreTyped
<1>4. /\ written[g] = 0 /\ leaf[g] = NoLeaf
      /\ Cardinality(MadePages)' \in Nat /\ MadePages' = (1 .. Cardinality(MadePages))'
      /\ written' \in [ProductPageIDs -> Nat]
      /\ \A h \in ProductPageIDs : written[h] > 0 => written'[h] > 0
  BY <1>1, NewPage
<1>5. /\ product' \in [ProductIDs -> Statuses \cup {"none", "deleted"}]
      /\ leaf' \in [ProductPageIDs -> Leaves \cup {NoLeaf}]
  BY <1>1, <1>2, <1>3 DEF Statuses
<1>6. /\ Live' = Live \cup {p} /\ Started' = Started \cup {p} /\ p \notin Started /\ p \notin Live
  BY <1>1, <1>3 DEF Live, Started, Statuses
<1>7. NamesStay
  BY <1>2, <1>3, <1>4, <1>6 DEF NamesStay
<1>8. \A q \in ProductIDs \ {p} : SamePages(q)
  BY <1>2, <1>3, <1>4 DEF SamePages, PagesOf
<1>9. \A c \in CouponIDs : SameCoupon(c)
  <2>1. UNCHANGED eligible
    BY <1>1 DEF couponVars
  <2>2. \A c \in CouponIDs : ~(eligible[c][p] > 0)
    BY <1>6 DEF CatalogueInv, CouponIsSound
  <2> QED
    BY <2>1, <2>2, <1>6 DEF SameCoupon
<1>10. LeavesAreSound'
  <2>1. ASSUME NEW h \in ProductPageIDs, leaf'[h] # NoLeaf
        PROVE  /\ leaf'[h].product \in Live' /\ written'[h] > 0
               /\ h \notin overwritten' => leaf'[h].text = written'[h]
    <3>1. CASE h = g
      BY <3>1, <1>1, <1>2, <1>3, <1>6
    <3>2. CASE h # g
      BY <2>1, <3>2, <1>1, <1>2, <1>3, <1>6 DEF CatalogueInv, LeavesAreSound
    <3> QED
      BY <3>1, <3>2
  <2> QED
    BY <2>1, <1>4 DEF LeavesAreSound
<1>11. ordered' \subseteq Live'
  BY <1>1, <1>6 DEF CatalogueInv
<1>12. \A q \in Live' : ProductIsSound(q)'
  <2>1. ASSUME NEW q \in Live PROVE ProductIsSound(q)'
    BY <1>1, <1>6, <1>8, ProductStays, LiveStarted DEF CatalogueInv
  <2>2. ProductIsSound(p)'
    <3>1. PagesOf(p) = {}
      BY <1>6, PagesAreFinite
    <3>2. PagesOf(p)' = {g}
      BY <3>1, <1>2, <1>3, <1>4, LeafTypes DEF PagesOf
    <3>3. {leaf'[h].position : h \in {g}} = {0}
      BY <1>2, <1>3
    <3>4. Cardinality({g}) = 1 /\ 0 .. 1 - 1 = {0}
      <4>1. 0 .. 1 - 1 = {0}
        OBVIOUS
      <4> QED
        BY <4>1, FS_Singleton
    <3> QED
      BY <3>2, <3>3, <3>4 DEF ProductIsSound
  <2> QED
    BY <2>1, <2>2, <1>6
<1>13. \A c \in CouponIDs : CouponIsSound(c)'
  <2> SUFFICES ASSUME NEW c \in CouponIDs PROVE CouponIsSound(c)'
    OBVIOUS
  <2>1. CouponIsSound(c) /\ UNCHANGED <<eligible, asked, mixed>>
    BY <1>1 DEF CatalogueInv, couponVars
  <2> QED
    BY <2>1, <1>6 DEF CouponIsSound
<1>14. CouponsAreTyped'
  BY <1>1, UnchangedStays DEF CatalogueInv
<1>15. \A q \in Started : SamePages(q)
  BY <1>6, <1>8 DEF Started
<1> QED
  BY <1>1, <1>4, <1>5, <1>7, <1>9, <1>10, <1>11, <1>12, <1>13, <1>14, <1>15, WriteAlone

LEMMA UpdateProductStep ==
    ASSUME CatalogueInv, NEW x \in Managers, UpdateProduct(x)
    PROVE  CatalogueInv'
<1>1. PICK t \in CatalogueTasks : t = task[x] /\ TaskIsSound(t) /\ t.op = "product"
  BY DEF UpdateProduct, Asks, CatalogueInv, LeavesAreTyped
<1>2. PICK p \in ProductIDs, s \in Statuses :
        /\ p = t.on /\ product' = IF p \in Live THEN [product EXCEPT ![p] = s] ELSE product
  BY <1>1, TaskFields DEF UpdateProduct, CouponOps
<1>3. /\ task' = [task EXCEPT ![x] = NoTask]
      /\ UNCHANGED <<ordered, leaf, written, misplaced, emptied, overwritten, coupon, eligible,
                     asked, mixed>>
  BY DEF UpdateProduct, leafVars, couponVars
<1>4. /\ product \in [ProductIDs -> Statuses \cup {"none", "deleted"}]
      /\ leaf \in [ProductPageIDs -> Leaves \cup {NoLeaf}] /\ written \in [ProductPageIDs -> Nat]
  BY DEF CatalogueInv, LeavesAreTyped
<1>5. Live' = Live /\ Started' = Started /\ product' \in [ProductIDs -> Statuses \cup {"none", "deleted"}]
  BY <1>2, <1>4 DEF Live, Started, Statuses
<1>6. NamesStay
  BY <1>3, <1>5 DEF NamesStay
<1>7. \A c \in CouponIDs : SameCoupon(c)
  BY <1>3, <1>5 DEF SameCoupon
<1>8. \A q : SamePages(q)
  BY <1>3, UnchangedStays
<1>9. LeavesAreSound' /\ ordered' \subseteq Live' /\ CouponsAreTyped'
  BY <1>3, <1>5 DEF CatalogueInv, LeavesAreSound, MadePages, CouponsAreTyped
<1>10. \A q \in Live' : ProductIsSound(q)'
  BY <1>3, <1>5, <1>8, ProductStays DEF CatalogueInv
<1>11. \A c \in CouponIDs : CouponIsSound(c)'
  BY <1>3, <1>5 DEF CatalogueInv, CouponIsSound
<1>12. leaf' \in [ProductPageIDs -> Leaves \cup {NoLeaf}] /\ written' \in [ProductPageIDs -> Nat]
  BY <1>3, <1>4
<1> QED
  BY <1>3, <1>5, <1>6, <1>7, <1>8, <1>9, <1>10, <1>11, <1>12, WriteAlone

LEMMA PlaceOrderStep ==
    ASSUME CatalogueInv, NEW x \in Managers, PlaceOrder(x)
    PROVE  CatalogueInv'
<1>1. /\ task' = [task EXCEPT ![x] = NoTask] /\ ordered' \subseteq Live
      /\ UNCHANGED <<product, leaf, written, misplaced, emptied, overwritten, coupon, eligible,
                     asked, mixed>>
  BY DEF PlaceOrder, CatalogueInv, leafVars, couponVars
<1>2. /\ product \in [ProductIDs -> Statuses \cup {"none", "deleted"}]
      /\ leaf \in [ProductPageIDs -> Leaves \cup {NoLeaf}] /\ written \in [ProductPageIDs -> Nat]
  BY DEF CatalogueInv, LeavesAreTyped
<1>3. Live' = Live /\ Started' = Started
  BY <1>1 DEF Live, Started
<1>4. NamesStay
  BY <1>1, <1>3 DEF NamesStay
<1>5. (\A c \in CouponIDs : SameCoupon(c)) /\ (\A q : SamePages(q))
  BY <1>1, UnchangedStays
<1>6. LeavesAreSound' /\ ordered' \subseteq Live' /\ CouponsAreTyped'
  BY <1>1, <1>3 DEF CatalogueInv, LeavesAreSound, MadePages, CouponsAreTyped
<1>7. \A q \in Live' : ProductIsSound(q)'
  BY <1>1, <1>3, <1>5, ProductStays DEF CatalogueInv
<1>8. \A c \in CouponIDs : CouponIsSound(c)'
  BY <1>1, CouponStays DEF CatalogueInv
<1> QED
  BY <1>1, <1>2, <1>4, <1>5, <1>6, <1>7, <1>8, WriteAlone

LEMMA DeleteProductStep ==
    ASSUME CatalogueInv, NEW x \in Managers, DeleteProduct(x)
    PROVE  CatalogueInv'
<1>1. PICK t \in CatalogueTasks : t = task[x] /\ TaskIsSound(t) /\ t.op = "delete product"
  BY DEF DeleteProduct, Asks, CatalogueInv, LeavesAreTyped
<1>2. PICK p \in Started : p = t.on
  BY <1>1 DEF TaskIsSound, NamesWhatIs, CouponOps
<1>3. PICK P : P = PagesOf(p)
  OBVIOUS
<1>4. /\ p \notin ordered /\ product' = [product EXCEPT ![p] = "deleted"]
      /\ leaf' = [g \in ProductPageIDs |-> IF g \in P THEN NoLeaf ELSE leaf[g]]
      /\ eligible' = [c \in CouponIDs |-> [eligible[c] EXCEPT ![p] = 0]]
      /\ Done(x, p)
      /\ UNCHANGED <<ordered, coupon, asked, mixed, written, misplaced, emptied, overwritten>>
  BY <1>1, <1>2, <1>3 DEF DeleteProduct
<1>5. /\ product \in [ProductIDs -> Statuses \cup {"none", "deleted"}]
      /\ leaf \in [ProductPageIDs -> Leaves \cup {NoLeaf}] /\ written \in [ProductPageIDs -> Nat]
      /\ eligible \in [CouponIDs -> [ProductIDs -> Nat]] /\ p \in ProductIDs
  BY <1>2 DEF CatalogueInv, LeavesAreTyped, CouponsAreTyped, Started
<1>6. /\ Live' = Live \ {p} /\ Started' = Started
      /\ product' \in [ProductIDs -> Statuses \cup {"none", "deleted"}]
  BY <1>2, <1>4, <1>5 DEF Live, Started, Statuses
<1>7. /\ leaf' \in [ProductPageIDs -> Leaves \cup {NoLeaf}] /\ written' \in [ProductPageIDs -> Nat]
      /\ \A g \in ProductPageIDs :
            leaf'[g] # NoLeaf => leaf'[g] = leaf[g] /\ leaf[g].product # p
  BY <1>3, <1>4, <1>5 DEF PagesOf
<1>8. NamesStay
  BY <1>4, <1>6, <1>7 DEF NamesStay
<1>9. \A q \in Started \ {p} : SamePages(q)
  BY <1>3, <1>4, <1>5 DEF SamePages, PagesOf
<1>10. \A c \in CouponIDs : /\ eligible'[c][p] = 0
                            /\ \A q \in ProductIDs \ {p} : eligible'[c][q] = eligible[c][q]
  BY <1>4, <1>5
<1>11. \A c \in CouponIDs \ {p} : SameCoupon(c)
  BY <1>6, <1>10, LiveStarted DEF SameCoupon
<1>12. LeavesAreSound'
  BY <1>4, <1>6, <1>7 DEF CatalogueInv, LeavesAreSound, MadePages
<1>13. ordered' \subseteq Live' /\ CouponsAreTyped'
  BY <1>4, <1>5, <1>6 DEF CatalogueInv, CouponsAreTyped
<1>14. \A q \in Live' : ProductIsSound(q)'
  BY <1>4, <1>6, <1>9, ProductStays, LiveStarted DEF CatalogueInv
<1>15. \A c \in CouponIDs : CouponIsSound(c)'
  <2> SUFFICES ASSUME NEW c \in CouponIDs PROVE CouponIsSound(c)'
    OBVIOUS
  <2>1. CouponIsSound(c) /\ asked' = asked /\ mixed' = mixed
    BY <1>4 DEF CatalogueInv
  <2>2. \A q \in ProductIDs : eligible'[c][q] > 0 => q # p /\ eligible'[c][q] = eligible[c][q]
    BY <1>10
  <2>3. \A q \in ProductIDs : eligible'[c][q] > 0 => q \in Live'
    BY <2>1, <2>2, <1>6 DEF CouponIsSound
  <2>4. c \notin mixed => \A q \in Live' : eligible'[c][q] > 0 <=> q \in asked[c]
    BY <2>1, <1>6, <1>10, LiveStarted DEF CouponIsSound
  <2>5. c \notin mixed => \A q \in ProductIDs : eligible'[c][q] <= 1
    BY <2>1, <1>10 DEF CouponIsSound
  <2> QED
    BY <2>1, <2>3, <2>4, <2>5, <1>6 DEF CouponIsSound
<1> QED
  BY <1>4, <1>6, <1>7, <1>8, <1>9, <1>11, <1>12, <1>13, <1>14, <1>15, DoneTasks, WriteIsSound

LEMMA CreatePageStep ==
    ASSUME CatalogueInv, NEW x \in Managers, NEW g \in ProductPageIDs, CreateProductPage(x, g)
    PROVE  CatalogueInv'
<1>1. PICK t \in CatalogueTasks : t = task[x] /\ TaskIsSound(t) /\ t.op = "create page"
  BY DEF CreateProductPage, Asks, CatalogueInv, LeavesAreTyped
<1>2. PICK p \in Live, n \in Nat : p = t.on /\ n = t.position
  BY <1>1, TaskFields DEF CreateProductPage
<1>3. PICK one \in Leaves : /\ one.product = p /\ one.position = n /\ one.text = 1
                            /\ leaf' = [leaf EXCEPT ![g] = one]
  <2>1. [product |-> p, position |-> n, text |-> 1] \in Leaves
    BY LiveStarted DEF Leaves
  <2> QED
    BY <2>1, <1>1, <1>2 DEF CreateProductPage
<1>4. /\ IsNewPage(g) /\ written' = [written EXCEPT ![g] = 1]
      /\ misplaced' = (IF t.stale THEN misplaced \cup {p} ELSE misplaced)
      /\ Done(x, p)
      /\ UNCHANGED <<product, ordered, emptied, overwritten, couponVars>>
  BY <1>1, <1>2 DEF CreateProductPage
<1>5. /\ leaf \in [ProductPageIDs -> Leaves \cup {NoLeaf}] /\ written \in [ProductPageIDs -> Nat]
      /\ product' \in [ProductIDs -> Statuses \cup {"none", "deleted"}]
  BY <1>4 DEF CatalogueInv, LeavesAreTyped
<1>6. /\ written[g] = 0 /\ leaf[g] = NoLeaf
      /\ Cardinality(MadePages)' \in Nat /\ MadePages' = (1 .. Cardinality(MadePages))'
      /\ written' \in [ProductPageIDs -> Nat]
      /\ \A h \in ProductPageIDs : written[h] > 0 => written'[h] > 0
  BY <1>4, NewPage
<1>7. Live' = Live /\ Started' = Started /\ leaf' \in [ProductPageIDs -> Leaves \cup {NoLeaf}]
  BY <1>3, <1>4, <1>5 DEF Live, Started
<1>8. NamesStay
  BY <1>3, <1>5, <1>6, <1>7 DEF NamesStay
<1>9. \A q \in Started \ {p} : SamePages(q)
  BY <1>3, <1>5, <1>6 DEF SamePages, PagesOf
<1>10. \A c \in CouponIDs : SameCoupon(c)
  BY <1>4, UnchangedStays
<1>11. LeavesAreSound'
  <2>1. ASSUME NEW h \in ProductPageIDs, leaf'[h] # NoLeaf
        PROVE  /\ leaf'[h].product \in Live' /\ written'[h] > 0
               /\ h \notin overwritten' => leaf'[h].text = written'[h]
    <3>1. CASE h = g
      BY <3>1, <1>3, <1>4, <1>5, <1>7
    <3>2. CASE h # g
      BY <2>1, <3>2, <1>3, <1>4, <1>5, <1>7 DEF CatalogueInv, LeavesAreSound
    <3> QED
      BY <3>1, <3>2
  <2> QED
    BY <2>1, <1>6 DEF LeavesAreSound
<1>12. ordered' \subseteq Live' /\ CouponsAreTyped'
  BY <1>4, <1>7, UnchangedStays DEF CatalogueInv
<1>13. ProductIsSound(p)'
  <2>1. PICK P : P = PagesOf(p)
    OBVIOUS
  <2>2. PagesOf(p)' = P \cup {g} /\ g \notin P
    BY <2>1, <1>3, <1>5, <1>6, LeafTypes DEF PagesOf
  <2>3. Cardinality(P \cup {g}) = Cardinality(P) + 1 /\ Cardinality(P) \in Nat
    BY <2>1, <2>2, PagesAreFinite, FS_AddElement
  <2>4. ASSUME p \notin misplaced'
        PROVE  {leaf'[h].position : h \in P \cup {g}} = 0 .. Cardinality(P \cup {g}) - 1
    <3>1. p \notin misplaced /\ ~t.stale
      BY <2>4, <1>1, <1>4, TaskFields
    <3>2. n = Cardinality(P)
      BY <3>1, <2>1, <1>1, <1>2 DEF TaskIsSound, PagesAreAsRead
    <3>3. {leaf[h].position : h \in P} = 0 .. n - 1
      BY <3>1, <3>2, <2>1 DEF CatalogueInv, ProductIsSound
    <3>4. P \subseteq ProductPageIDs /\ \A h \in P : leaf'[h] = leaf[h]
      BY <2>1, <2>2, <1>3, <1>5, PagesAreFinite
    <3>5. {leaf'[h].position : h \in P \cup {g}} = {leaf[h].position : h \in P} \cup {n}
      BY <3>4, <1>3, <1>5
    <3>6. (0 .. n - 1) \cup {n} = 0 .. n
      OBVIOUS
    <3>7. Cardinality(P \cup {g}) - 1 = n
      BY <2>3, <3>2
    <3> QED
      BY <3>3, <3>5, <3>6, <3>7
  <2> QED
    BY <2>2, <2>4 DEF ProductIsSound
<1>14. \A q \in Live' : ProductIsSound(q)'
  <2>1. ASSUME NEW q \in Live, q # p PROVE ProductIsSound(q)'
    BY <2>1, <1>4, <1>9, ProductStays, LiveStarted DEF CatalogueInv
  <2> QED
    BY <2>1, <1>7, <1>13
<1>15. \A c \in CouponIDs : CouponIsSound(c)'
  BY <1>4, CouponStays DEF CatalogueInv, couponVars
<1> QED
  BY <1>4, <1>5, <1>6, <1>7, <1>8, <1>9, <1>10, <1>11, <1>12, <1>14, <1>15, DoneTasks, WriteIsSound

LEMMA UpdatePageStep ==
    ASSUME CatalogueInv, NEW x \in Managers, UpdateProductPage(x)
    PROVE  CatalogueInv'
<1>1. PICK t \in CatalogueTasks : t = task[x] /\ TaskIsSound(t) /\ t.op = "update page"
  BY DEF UpdateProductPage, Asks, CatalogueInv, LeavesAreTyped
<1>2. PICK g \in ProductPageIDs, p \in ProductIDs, n \in Nat : p = t.on /\ g = t.page /\ n = t.position
  BY <1>1, TaskFields DEF CouponOps
<1>3. leaf[g] # NoLeaf /\ leaf[g].product = p /\ p \in Live /\ leaf[g] \in Leaves
  BY <1>1, <1>2, LeafTypes DEF UpdateProductPage, TaskIsSound, NamesWhatIs, IsPageOf
<1>4. /\ leaf' = [leaf EXCEPT ![g].text = written[g] + 1, ![g].position = n]
      /\ written' = [written EXCEPT ![g] = @ + 1] /\ overwritten' = overwritten \ {g}
      /\ misplaced' = (IF t.stale THEN misplaced \cup {p} ELSE misplaced)
      /\ Done(x, p)
      /\ UNCHANGED <<product, ordered, emptied, couponVars>>
  BY <1>1, <1>2 DEF UpdateProductPage
<1>5. /\ leaf \in [ProductPageIDs -> Leaves \cup {NoLeaf}] /\ written \in [ProductPageIDs -> Nat]
      /\ product' \in [ProductIDs -> Statuses \cup {"none", "deleted"}]
  BY <1>4 DEF CatalogueInv, LeavesAreTyped
<1>6. PICK one \in Leaves : /\ one.product = p /\ one.position = n /\ one.text = written[g] + 1
                            /\ leaf' = [leaf EXCEPT ![g] = one]
  <2>1. PICK one : one = [product |-> p, position |-> n, text |-> written[g] + 1]
    OBVIOUS
  <2>2. one \in Leaves
    BY <2>1, <1>5 DEF Leaves
  <2>3. leaf'[g] = one
    BY <2>1, <1>3, <1>4, <1>5 DEF Leaves
  <2>4. leaf' = [leaf EXCEPT ![g] = one]
    BY <2>3, <1>4, <1>5
  <2> QED
    BY <2>1, <2>2, <2>4
<1>7. /\ Live' = Live /\ Started' = Started
      /\ leaf' \in [ProductPageIDs -> Leaves \cup {NoLeaf}] /\ written' \in [ProductPageIDs -> Nat]
  <2>1. Live' = Live /\ Started' = Started
    BY <1>4 DEF Live, Started
  <2>2. written' \in [ProductPageIDs -> Nat]
    BY <1>4, <1>5
  <2> QED
    BY <2>1, <2>2, <1>5, <1>6
<1>8. NoLeaf \notin Leaves /\ written[g] \in Nat /\ written[g] > 0
  BY <1>3, LeafTypes
<1>9. MadePages' = MadePages
  BY <1>4, <1>5, <1>8 DEF MadePages
<1>10. NamesStay
  BY <1>3, <1>4, <1>5, <1>6, <1>7, <1>8 DEF NamesStay
<1>11. \A q : PagesOf(q)' = PagesOf(q)
  BY <1>3, <1>5, <1>6, <1>8 DEF PagesOf
<1>12. \A q \in Started \ {p} : SamePages(q)
  BY <1>3, <1>5, <1>6, <1>11 DEF SamePages, PagesOf
<1>13. \A c \in CouponIDs : SameCoupon(c)
  BY <1>4, UnchangedStays
<1>14. LeavesAreSound'
  <2>1. ASSUME NEW h \in ProductPageIDs, leaf'[h] # NoLeaf
        PROVE  /\ leaf'[h].product \in Live' /\ written'[h] > 0
               /\ h \notin overwritten' => leaf'[h].text = written'[h]
    <3>1. CASE h = g
      BY <3>1, <1>3, <1>4, <1>5, <1>6, <1>7, <1>8
    <3>2. CASE h # g
      BY <2>1, <3>2, <1>4, <1>5, <1>6, <1>7 DEF CatalogueInv, LeavesAreSound
    <3> QED
      BY <3>1, <3>2
  <2> QED
    BY <2>1, <1>9 DEF LeavesAreSound, CatalogueInv
<1>15. ordered' \subseteq Live' /\ CouponsAreTyped'
  BY <1>4, <1>7, UnchangedStays DEF CatalogueInv
<1>16. ProductIsSound(p)'
  <2>1. PICK P : P = PagesOf(p)
    OBVIOUS
  <2>2. PagesOf(p)' = P /\ P \subseteq ProductPageIDs /\ ProductIsSound(p)
    BY <2>1, <1>3, <1>11, PagesAreFinite DEF CatalogueInv
  <2>3. ASSUME p \notin misplaced' PROVE {leaf'[h].position : h \in P} = 0 .. Cardinality(P) - 1
    <3>1. p \notin misplaced /\ ~t.stale
      BY <2>3, <1>1, <1>4, TaskFields
    <3>2. n = leaf[g].position
      BY <3>1, <1>1, <1>2, <1>3 DEF TaskIsSound, PagesAreAsRead
    <3>3. \A h \in P : leaf'[h].position = leaf[h].position
      BY <3>2, <2>2, <1>5, <1>6
    <3>4. {leaf'[h].position : h \in P} = {leaf[h].position : h \in P}
      BY <3>3
    <3> QED
      BY <3>1, <3>4, <2>1, <2>2 DEF ProductIsSound
  <2>4. p \in emptied' \/ P # {}
    BY <2>1, <2>2, <1>4 DEF ProductIsSound
  <2> QED
    BY <2>2, <2>3, <2>4 DEF ProductIsSound
<1>17. \A q \in Live' : ProductIsSound(q)'
  <2>1. ASSUME NEW q \in Live, q # p PROVE ProductIsSound(q)'
    BY <2>1, <1>4, <1>12, ProductStays, LiveStarted DEF CatalogueInv
  <2> QED
    BY <2>1, <1>7, <1>16
<1>18. \A c \in CouponIDs : CouponIsSound(c)'
  BY <1>4, CouponStays DEF CatalogueInv, couponVars
<1> QED
  BY <1>4, <1>5, <1>7, <1>10, <1>12, <1>13, <1>14, <1>15, <1>17, <1>18, DoneTasks, WriteIsSound

\* The rows that were read are written, and those of Gone are deleted.
PlacedLeaves(rows, Gone) ==
    [g \in ProductPageIDs |-> IF g \in Gone THEN NoLeaf ELSE WrittenBack(rows)[g]]

\* The request t of x is one that reorders the pages of p or deletes Gone.
PlacesLeaves(x, t, p, rows, Gone) ==
    /\ t = task[x] /\ TaskIsSound(t)
    /\ t.op \in {"delete page", "reorder"} /\ p = t.on /\ rows = t.rows
    /\ \A g \in Gone : IsPageOf(g, p)
    /\ leaf' = PlacedLeaves(rows, Gone) /\ Placed(x, p, rows)
    /\ ~t.stale => PlacesPages(rows, PagesOf(p) \ Gone)
    /\ p \in Live => p \in emptied' \/ PagesOf(p) \ Gone # {}
    /\ emptied \subseteq emptied' /\ UNCHANGED <<product, ordered, written, couponVars>>

LEMMA PlacedStep ==
    ASSUME CatalogueInv, NEW x \in Managers, NEW t \in CatalogueTasks, NEW p, NEW rows,
           NEW Gone \in SUBSET ProductPageIDs, PlacesLeaves(x, t, p, rows, Gone)
    PROVE  CatalogueInv'
<1> USE DEF PlacesLeaves
<1>1. /\ misplaced' = (IF t.stale THEN misplaced \cup {p} ELSE misplaced \ {p})
      /\ overwritten' = (IF t.stale THEN overwritten \cup DOMAIN rows ELSE overwritten)
      /\ Done(x, p)
  BY DEF Placed
<1>2. /\ leaf \in [ProductPageIDs -> Leaves \cup {NoLeaf}] /\ written \in [ProductPageIDs -> Nat]
      /\ product' \in [ProductIDs -> Statuses \cup {"none", "deleted"}]
      /\ written' \in [ProductPageIDs -> Nat]
  BY DEF CatalogueInv, LeavesAreTyped
<1>3. /\ DOMAIN rows \subseteq ProductPageIDs
      /\ \A h \in DOMAIN rows : rows[h] \in Leaves /\ IsPageOf(h, p) /\ rows[h].product = p
  BY TaskFields DEF TaskIsSound, NamesWhatIs
<1>4. \A g \in ProductPageIDs :
         leaf'[g] = (IF g \in Gone THEN NoLeaf
                     ELSE IF g \in DOMAIN rows /\ leaf[g] # NoLeaf THEN rows[g] ELSE leaf[g])
  BY DEF WrittenBack, PlacedLeaves
<1>5. /\ Live' = Live /\ Started' = Started
      /\ leaf' = [g \in ProductPageIDs |-> leaf'[g]]
      /\ \A g \in ProductPageIDs : leaf'[g] \in Leaves \cup {NoLeaf}
  BY <1>2, <1>3, <1>4 DEF Live, Started, PlacedLeaves
<1>6. leaf' \in [ProductPageIDs -> Leaves \cup {NoLeaf}]
  BY <1>5
<1>7. \A g \in ProductPageIDs :
         /\ leaf'[g] # NoLeaf <=> leaf[g] # NoLeaf /\ g \notin Gone
         /\ leaf'[g] # NoLeaf => leaf'[g].product = leaf[g].product
         /\ leaf[g] # NoLeaf /\ leaf[g].product # p => leaf'[g] = leaf[g]
         /\ leaf[g] # NoLeaf /\ g \notin DOMAIN rows \cup Gone => leaf'[g] = leaf[g]
         /\ leaf[g] # NoLeaf /\ g \in DOMAIN rows \ Gone => leaf'[g] = rows[g]
  BY <1>3, <1>4, LeafTypes DEF IsPageOf
<1>8. NamesStay
  BY <1>5, <1>7 DEF NamesStay
<1>9. \A q \in Started \ {p} : SamePages(q)
  BY <1>7 DEF SamePages, PagesOf, IsPageOf
<1>10. \A c \in CouponIDs : SameCoupon(c)
  BY UnchangedStays DEF couponVars
<1>11. PagesOf(p)' = PagesOf(p) \ Gone
  BY <1>7 DEF PagesOf
<1>12. ASSUME ~t.stale
       PROVE  \A h \in PagesOf(p) \ Gone : leaf'[h] = rows[h] /\ rows[h].text = leaf[h].text
  BY <1>7, <1>12 DEF PlacesPages, PagesOf
<1>13. LeavesAreSound'
  <2>1. ASSUME NEW h \in ProductPageIDs, leaf'[h] # NoLeaf
        PROVE  /\ leaf'[h].product \in Live' /\ written'[h] > 0
               /\ h \notin overwritten' => leaf'[h].text = written'[h]
    <3>1. /\ leaf[h] # NoLeaf /\ h \notin Gone /\ leaf'[h].product = leaf[h].product
          /\ leaf[h].product \in Live /\ written[h] > 0
          /\ h \notin overwritten => leaf[h].text = written[h]
      BY <2>1, <1>7 DEF CatalogueInv, LeavesAreSound
    <3>2. h \notin overwritten' => leaf'[h].text = leaf[h].text /\ h \notin overwritten
      <4>1. CASE h \notin DOMAIN rows
        BY <3>1, <4>1, <1>1, <1>7
      <4>2. CASE h \in DOMAIN rows /\ ~t.stale
        <5>1. h \in PagesOf(p)
          BY <3>1, <4>2, <1>3 DEF PagesOf, IsPageOf
        <5> QED
          BY <3>1, <4>2, <5>1, <1>1, <1>12
      <4>3. CASE h \in DOMAIN rows /\ t.stale
        BY <4>3, <1>1
      <4> QED
        BY <4>1, <4>2, <4>3
    <3> QED
      BY <3>1, <3>2, <1>5
  <2>2. MadePages' = MadePages
    BY DEF MadePages
  <2> QED
    BY <2>1, <2>2 DEF LeavesAreSound, CatalogueInv
<1>14. ordered' \subseteq Live' /\ CouponsAreTyped'
  BY <1>5, UnchangedStays DEF CatalogueInv
<1>15. p \in Live => ProductIsSound(p)'
  <2>1. PICK P : P = PagesOf(p) \ Gone
    OBVIOUS
  <2>2. PagesOf(p)' = P
    BY <2>1, <1>11
  <2>3. ASSUME p \notin misplaced' PROVE {leaf'[h].position : h \in P} = 0 .. Cardinality(P) - 1
    <3>1. ~t.stale /\ PlacesPages(rows, P)
      BY <2>1, <2>3, <1>1
    <3>2. \A h \in P : leaf'[h].position = rows[h].position
      BY <3>1, <2>1, <1>12
    <3>3. {leaf'[h].position : h \in P} = {rows[h].position : h \in P}
      BY <3>2
    <3> QED
      BY <3>1, <3>3 DEF PlacesPages
  <2> QED
    BY <2>1, <2>2, <2>3 DEF ProductIsSound
<1>16. \A q \in Live' : ProductIsSound(q)'
  <2>1. ASSUME NEW q \in Live, q # p PROVE ProductIsSound(q)'
    <3>1. q \in misplaced => q \in misplaced'
      BY <2>1, <1>1
    <3> QED
      BY <2>1, <3>1, <1>9, ProductStays, LiveStarted DEF CatalogueInv
  <2> QED
    BY <2>1, <1>5, <1>15
<1>17. \A c \in CouponIDs : CouponIsSound(c)'
  BY CouponStays DEF CatalogueInv, couponVars
<1> QED
  BY <1>1, <1>2, <1>6, <1>8, <1>9, <1>10, <1>13, <1>14, <1>16, <1>17, DoneTasks, WriteIsSound

LEMMA DeletePageStep ==
    ASSUME CatalogueInv, NEW x \in Managers, DeleteProductPage(x)
    PROVE  CatalogueInv'
<1>1. PICK t \in CatalogueTasks : t = task[x] /\ TaskIsSound(t) /\ t.op = "delete page"
  BY DEF DeleteProductPage, Asks, CatalogueInv, LeavesAreTyped
<1>2. PICK g \in ProductPageIDs : g = t.page
  BY <1>1, TaskFields
<1>3. PICK p, rows : p = t.on /\ rows = t.rows
  OBVIOUS
<1>4. /\ leaf' = [WrittenBack(rows) EXCEPT ![g] = NoLeaf]
      /\ emptied' = (IF t.late THEN emptied \cup {p} ELSE emptied) /\ Placed(x, p, rows)
      /\ UNCHANGED <<product, ordered, written, couponVars>>
  BY <1>1, <1>2, <1>3 DEF DeleteProductPage
<1>5. PICK Gone \in SUBSET ProductPageIDs : Gone = {g}
  OBVIOUS
<1>6. \A h \in Gone : IsPageOf(h, p)
  BY <1>1, <1>2, <1>3, <1>5 DEF TaskIsSound, NamesWhatIs
<1>7. leaf' = PlacedLeaves(rows, Gone)
  BY <1>4, <1>5 DEF WrittenBack, PlacedLeaves
<1>8. ~t.stale => PlacesPages(rows, PagesOf(p) \ Gone)
  BY <1>1, <1>2, <1>3, <1>5 DEF TaskIsSound, PagesAreAsRead
<1>9. p \in emptied' \/ PagesOf(p) \ Gone # {}
  BY <1>1, <1>2, <1>3, <1>4, <1>5 DEF TaskIsSound, AnotherIsThere
<1>10. emptied \subseteq emptied' /\ (p \in Live => p \in emptied' \/ PagesOf(p) \ Gone # {})
  BY <1>4, <1>9
<1>11. t.op \in {"delete page", "reorder"}
  BY <1>1
<1>12. UNCHANGED <<product, ordered, written, couponVars>> /\ Placed(x, p, rows)
  BY <1>4
<1> QED
  BY <1>1, <1>3, <1>6, <1>7, <1>8, <1>10, <1>11, <1>12, PlacedStep DEF PlacesLeaves

LEMMA ReorderStep ==
    ASSUME CatalogueInv, NEW x \in Managers, ReorderProductPages(x)
    PROVE  CatalogueInv'
<1>1. PICK t \in CatalogueTasks : t = task[x] /\ TaskIsSound(t) /\ t.op = "reorder"
  BY DEF ReorderProductPages, Asks, CatalogueInv, LeavesAreTyped
<1>2. PICK p, rows : p = t.on /\ rows = t.rows
  OBVIOUS
<1>3. /\ leaf' = WrittenBack(rows) /\ Placed(x, p, rows)
      /\ UNCHANGED <<product, ordered, written, emptied, couponVars>>
  BY <1>1, <1>2 DEF ReorderProductPages
<1>4. PICK Gone \in SUBSET ProductPageIDs : Gone = {}
  OBVIOUS
<1>5. PagesOf(p) \ Gone = PagesOf(p)
  BY <1>4
<1>6. leaf' = PlacedLeaves(rows, Gone)
  BY <1>3, <1>4 DEF WrittenBack, PlacedLeaves
<1>7. ~t.stale => PlacesPages(rows, PagesOf(p) \ Gone)
  BY <1>1, <1>2, <1>5 DEF TaskIsSound, PagesAreAsRead
<1>8. p \in Live => p \in emptied' \/ PagesOf(p) \ Gone # {}
  BY <1>3, <1>5 DEF CatalogueInv, ProductIsSound
<1>9. \A h \in Gone : IsPageOf(h, p)
  BY <1>4
<1>10. emptied \subseteq emptied' /\ t.op \in {"delete page", "reorder"}
  BY <1>1, <1>3
<1>11. UNCHANGED <<product, ordered, written, couponVars>> /\ Placed(x, p, rows)
  BY <1>3
<1> QED
  BY <1>1, <1>2, <1>6, <1>7, <1>8, <1>9, <1>10, <1>11, PlacedStep DEF PlacesLeaves

\* The coupon is for the products it was saved with, if it was read since another change.
LEMMA CouponStep ==
    ASSUME CatalogueInv, NEW x \in Managers, NEW archived \in BOOLEAN,
           CreateCoupon(x, archived) \/ UpdateCoupon(x, archived)
    PROVE  CatalogueInv'
<1>1. PICK t \in CatalogueTasks : t = task[x] /\ TaskIsSound(t) /\ t.op \in CouponOps
  BY DEF CreateCoupon, UpdateCoupon, Asks, CatalogueInv, LeavesAreTyped, CouponOps
<1>2. PICK c \in CouponIDs, code \in Codes, new \in SUBSET ProductIDs :
         c = t.on /\ code = t.code /\ new = t.new
  BY <1>1, TaskFields
<1>3. PICK create \in SUBSET ProductIDs, remove \in SUBSET ProductIDs :
         create = t.diff.create /\ remove = t.diff.remove
  BY <1>1, TaskFields
<1>4. coupon' = [coupon EXCEPT ![c] = [code |-> code, archived |-> archived]] /\ CommitCoupon(x)
  BY <1>1, <1>2 DEF CreateCoupon, UpdateCoupon
<1>5. /\ create \subseteq Live
      /\ eligible' = [eligible EXCEPT ![c] =
           [p \in ProductIDs |-> IF p \in remove THEN 0
                                 ELSE IF p \in create THEN eligible[c][p] + 1 ELSE eligible[c][p]]]
      /\ asked' = [asked EXCEPT ![c] = new]
      /\ mixed' = (IF t.stale THEN mixed \cup {c} ELSE mixed)
      /\ Done(x, c) /\ UNCHANGED <<product, ordered, leafVars>>
  BY <1>1, <1>2, <1>3, <1>4 DEF CommitCoupon, AssociateProductsToCoupon
<1>6. UNCHANGED <<leaf, written, misplaced, emptied, overwritten>>
  BY <1>5 DEF leafVars
<1>7. /\ coupon \in [CouponIDs -> Coupon \cup {NoCoupon}]
      /\ eligible \in [CouponIDs -> [ProductIDs -> Nat]] /\ asked \in [CouponIDs -> SUBSET ProductIDs]
  BY DEF CatalogueInv, CouponsAreTyped
<1>8. /\ \A d \in CouponIDs \ {c} : eligible'[d] = eligible[d] /\ asked'[d] = asked[d]
      /\ asked'[c] = new
      /\ \A p \in ProductIDs :
            eligible'[c][p] = (IF p \in remove THEN 0
                               ELSE IF p \in create THEN eligible[c][p] + 1 ELSE eligible[c][p])
  BY <1>5, <1>7
<1>9. \A p \in ProductIDs : eligible[c][p] \in Nat /\ eligible'[c][p] \in Nat
  BY <1>7, <1>8
<1>10. CouponsAreTyped'
  <2>1. coupon' \in [CouponIDs -> Coupon \cup {NoCoupon}]
    <3>1. PICK one \in Coupon : one = [code |-> code, archived |-> archived]
      BY DEF Coupon
    <3> QED
      BY <3>1, <1>4, <1>7
  <2>2. PICK e : e = [p \in ProductIDs |-> IF p \in remove THEN 0
                                           ELSE IF p \in create THEN eligible[c][p] + 1 ELSE eligible[c][p]]
    OBVIOUS
  <2>3. e \in [ProductIDs -> Nat] /\ eligible' = [eligible EXCEPT ![c] = e]
    BY <2>2, <1>5, <1>9
  <2>4. eligible' \in [CouponIDs -> [ProductIDs -> Nat]]
    BY <2>3, <1>7
  <2>5. asked' \in [CouponIDs -> SUBSET ProductIDs]
    BY <1>5, <1>7
  <2> QED
    BY <2>1, <2>4, <2>5 DEF CouponsAreTyped
<1>11. Live' = Live /\ Started' = Started
  BY <1>5 DEF Live, Started
<1>12. NamesStay /\ \A p : SamePages(p)
  BY <1>6, <1>11, UnchangedStays DEF NamesStay
<1>13. \A d \in CouponIDs \ {c} : SameCoupon(d)
  BY <1>8, <1>11 DEF SameCoupon
<1>14. LeavesAreSound' /\ ordered' \subseteq Live'
  BY <1>5, <1>6, <1>11 DEF CatalogueInv, LeavesAreSound, MadePages
<1>15. /\ product' \in [ProductIDs -> Statuses \cup {"none", "deleted"}]
       /\ leaf' \in [ProductPageIDs -> Leaves \cup {NoLeaf}] /\ written' \in [ProductPageIDs -> Nat]
  BY <1>5, <1>6 DEF CatalogueInv, LeavesAreTyped
<1>16. \A p \in Live' : ProductIsSound(p)'
  BY <1>6, <1>11, <1>12, ProductStays DEF CatalogueInv
<1>17. CouponIsSound(c)'
  <2>1. CouponIsSound(c)
    BY DEF CatalogueInv
  <2>2. new \subseteq Started /\ create \subseteq new /\ remove \cap new = {}
    BY <1>1, <1>2, <1>3 DEF TaskIsSound, NamesWhatIs
  <2>3. \A p \in ProductIDs : eligible'[c][p] > 0 => p \in Live'
    BY <2>1, <1>5, <1>8, <1>9, <1>11 DEF CouponIsSound
  <2>4. ASSUME c \notin mixed'
        PROVE  /\ \A p \in Live' : eligible'[c][p] > 0 <=> p \in asked'[c]
               /\ \A p \in ProductIDs : eligible'[c][p] <= 1
    <3>1. ~t.stale /\ c \notin mixed
      BY <2>4, <1>1, <1>5, TaskFields
    <3>2. \A p \in Live : eligible[c][p] > 0 <=> p \in (new \ create) \cup remove
      BY <3>1, <1>1, <1>2, <1>3 DEF TaskIsSound, CouponIsAsRead
    <3>3. \A p \in ProductIDs : eligible[c][p] <= 1 /\ (p \notin Live => ~(eligible[c][p] > 0))
      BY <3>1, <2>1 DEF CouponIsSound
    <3>4. ASSUME NEW p \in Live' PROVE eligible'[c][p] > 0 <=> p \in asked'[c]
      <4>1. p \in Live /\ p \in ProductIDs
        BY <1>11, LiveStarted
      <4> QED
        BY <4>1, <3>2, <2>2, <1>8, <1>9
    <3>5. ASSUME NEW p \in ProductIDs PROVE eligible'[c][p] <= 1
      <4>1. p \in create => eligible[c][p] = 0
        BY <3>2, <2>2, <1>5, <1>9
      <4> QED
        BY <4>1, <3>3, <1>8, <1>9
    <3> QED
      BY <3>4, <3>5
  <2> QED
    BY <2>2, <2>3, <2>4, <1>8, <1>11 DEF CouponIsSound
<1>18. \A d \in CouponIDs : CouponIsSound(d)'
  <2>1. ASSUME NEW d \in CouponIDs, d # c PROVE CouponIsSound(d)'
    <3>1. CouponIsSound(d) /\ eligible'[d] = eligible[d] /\ asked'[d] = asked[d]
      BY <2>1, <1>8 DEF CatalogueInv
    <3>2. d \notin mixed' => d \notin mixed
      BY <2>1, <1>5
    <3> QED
      BY <3>1, <3>2, <1>11 DEF CouponIsSound
  <2> QED
    BY <2>1, <1>17
<1>19. \A p \in Started \ {c} : SamePages(p)
  BY <1>12
<1> QED
  BY <1>5, <1>10, <1>12, <1>13, <1>14, <1>15, <1>16, <1>18, <1>19, DoneTasks, WriteIsSound

-----------------------------------------------------------------------------
LEMMA CatalogueInitInv == CatalogueInit => CatalogueInv
<1> SUFFICES ASSUME CatalogueInit PROVE CatalogueInv
  OBVIOUS
<1>1. LeavesAreTyped /\ CouponsAreTyped
  BY DEF CatalogueInit, LeavesAreTyped, CouponsAreTyped, Statuses
<1>2. Live = {} /\ MadePages = {}
  BY DEF CatalogueInit, Live, Statuses, MadePages
<1>3. LeavesAreSound
  <2>1. 1 .. 0 = {}
    OBVIOUS
  <2> QED
    BY <2>1, <1>2, FS_EmptySet DEF CatalogueInit, LeavesAreSound
<1>4. \A c \in CouponIDs : CouponIsSound(c)
  BY <1>2 DEF CatalogueInit, CouponIsSound
<1> QED
  BY <1>1, <1>2, <1>3, <1>4 DEF CatalogueInv, CatalogueInit

LEMMA CatalogueStepInv == CatalogueInv /\ [CatalogueNext]_catalogueVars => CatalogueInv'
<1> SUFFICES ASSUME CatalogueInv, [CatalogueNext]_catalogueVars PROVE CatalogueInv'
  OBVIOUS
<1>1. CASE ProductsNext
  BY <1>1, CreateProductStep, ProductBegins, DeleteProductStep, RefuseStep DEF ProductsNext
<1>2. CASE SalesNext
  BY <1>2, ProductBegins, UpdateProductStep, PlaceOrderStep DEF SalesNext
<1>3. CASE ProductPagesNext
  BY <1>3, ProductBegins, ReorderBegins, CreatePageStep, PageBegins, RenumberBegins, DeletePageStep,
     UpdatePageStep, ReorderStep DEF ProductPagesNext
<1>4. CASE CouponsNext
  BY <1>4, CouponBegins, CouponStep DEF CouponsNext
<1>5. CASE UNCHANGED catalogueVars
  <2>1. UNCHANGED <<product, ordered, task, leafVars, couponVars>>
    BY <1>5 DEF catalogueVars
  <2>2. UNCHANGED <<leaf, written, misplaced, emptied, overwritten>>
    BY <2>1 DEF leafVars
  <2>3. Live' = Live /\ Started' = Started
    BY <2>1 DEF Live, Started
  <2>4. NamesStay /\ (\A p : SamePages(p)) /\ \A c \in CouponIDs : SameCoupon(c)
    BY <2>1, <2>2, <2>3, UnchangedStays DEF NamesStay, couponVars
  <2>5. LeavesAreSound' /\ ordered' \subseteq Live' /\ CouponsAreTyped'
    BY <2>1, <2>2, <2>3, UnchangedStays DEF CatalogueInv, LeavesAreSound, MadePages
  <2>6. /\ product' \in [ProductIDs -> Statuses \cup {"none", "deleted"}]
        /\ leaf' \in [ProductPageIDs -> Leaves \cup {NoLeaf}] /\ written' \in [ProductPageIDs -> Nat]
    BY <2>1, <2>2 DEF CatalogueInv, LeavesAreTyped
  <2>7. \A p \in Live' : ProductIsSound(p)'
    BY <2>2, <2>3, <2>4, ProductStays DEF CatalogueInv
  <2>8. \A c \in CouponIDs : CouponIsSound(c)'
    BY <2>1, CouponStays DEF CatalogueInv, couponVars
  <2> QED
    BY <2>1, <2>4, <2>5, <2>6, <2>7, <2>8, WriteAlone
<1> QED
  BY <1>1, <1>2, <1>3, <1>4, <1>5 DEF CatalogueNext

\* What requests hold is what there is, unless another changed it since.
THEOREM CatalogueInvariance == CatalogueSpec => []CatalogueInv
<1> QED
  BY CatalogueInitInv, CatalogueStepInv, PTL DEF CatalogueSpec

\* Rows have their types, pages are those of products that are there.
THEOREM CatalogueTypes == CatalogueSpec => []CatalogueTypeOK
<1>1. CatalogueInv => CatalogueTypeOK
  <2> SUFFICES ASSUME CatalogueInv PROVE CatalogueTypeOK
    OBVIOUS
  <2>1. \A g \in ProductPageIDs : leaf[g] = NoLeaf \/ leaf[g] \in ProductPage
    BY LeafTypes DEF Leaves, ProductPage
  <2>2. \A x \in Managers : task[x] = NoTask \/ task[x].on \in ProductIDs \cup CouponIDs
    BY TaskFields DEF CatalogueInv, LeavesAreTyped
  <2>3. ordered \subseteq ProductIDs
    BY LiveStarted DEF CatalogueInv
  <2> QED
    BY <2>1, <2>2, <2>3 DEF CatalogueInv, LeavesAreTyped, CouponsAreTyped, CatalogueTypeOK
<1> QED
  BY <1>1, CatalogueInvariance, PTL

\* Pages are in order and hold the text saved last, and coupons are for the products
\* they were saved with, but where requests overlapped.
THEOREM KeptCatalogue == CatalogueSpec => []CatalogueIsKept
<1>1. CatalogueInv => CatalogueIsKept
  <2> SUFFICES ASSUME CatalogueInv PROVE CatalogueIsKept
    OBVIOUS
  <2>1. PagesAreInOrder
    BY DEF CatalogueInv, ProductIsSound, LeavesAreSound, PagesAreInOrder, PagesOf
  <2>2. ASSUME NEW c \in CouponIDs \ mixed PROVE ProductsOf(c) = asked[c] \cap Live
    <3>1. CouponIsSound(c) /\ asked[c] \subseteq ProductIDs
      BY DEF CatalogueInv, CouponsAreTyped
    <3> QED
      BY <3>1, LiveStarted DEF CouponIsSound, ProductsOf
  <2>3. \A c \in CouponIDs \ mixed : \A p \in ProductIDs : eligible[c][p] <= 1
    BY DEF CatalogueInv, CouponIsSound
  <2>4. CouponsAreAsAsked
    BY <2>2, <2>3 DEF CatalogueInv, CouponsAreAsAsked
  <2> QED
    BY <2>1, <2>4 DEF CatalogueIsKept
<1> QED
  BY <1>1, CatalogueInvariance, PTL

\* All the rows and requests of the servers have their types.
THEOREM PlatformTypes ==
    ServersSpec /\ EventsSpec /\ ServingSpec /\ DownloadsSpec /\ CatalogueSpec => []PlatformTypeOK
<1>1. ServersTypeOK /\ EventsTypeOK /\ ServingTypeOK /\ DownloadsTypeOK /\ CatalogueTypeOK
      => PlatformTypeOK
  BY DEF PlatformTypeOK
<1> QED
  BY <1>1, ServersTypes, EventsTypes, ServingTypes, DownloadsTypes, CatalogueTypes, PTL
=============================================================================
