------------------------ MODULE Organizations_proofs ------------------------
(***************************************************************************)
(* Who is in an organization was asked in, within its limits, and an       *)
(* organization is run until it is deleted: for any number of users and    *)
(* of requests at a time, and every limit.                                 *)
(*                                                                         *)
(* A request counts first and writes later.  What makes that right is that *)
(* whatever changes the count marks the requests that have read it; so one *)
(* that isn't marked writes what it has counted.                           *)
(***************************************************************************)
EXTENDS Organizations, FiniteSetTheorems, TLAPS

\* Who has an invitation was asked in.
InvitedAreGranted ==
    \A o \in OrganizationIDs, u \in Users : invitation[o][u] # 0 => <<o, u>> \in granted

NewIsEmpty ==
    \A o \in OrganizationIDs : organization[o].state = "new" =>
        /\ StaffOf(o) = {} /\ Invited(o) = {}
        /\ organization[o].websites = 0 /\ organization[o].keys = 0

\* What a request has counted is so when it writes, unless something changed meanwhile.
Counted(x) ==
    /\ acting[x].op # "none" => acting[x].organization \in OrganizationIDs
    /\ acting[x].op = "accept" => acting[x].id # 0
    /\ \A o \in OrganizationIDs : acting[x].op # "none" /\ acting[x].organization = o =>
         /\ organization[o].state # "new"
         /\ Running(o) /\ ~acting[x].stale =>
              /\ acting[x].op = "invite" => Cardinality(acting[x].users) + Cardinality(StaffOf(o))
                                            + Cardinality(Invited(o)) <= Limit(o)
              /\ acting[x].op = "website" => organization[o].websites < Limit(o)
              /\ acting[x].op = "key" => organization[o].keys < MaxApiKeys
              /\ acting[x].op = "remove" => StaffOf(o) \ acting[x].users # {}
              /\ acting[x].op = "delete" => organization[o].websites = 0 /\ ~organization[o].paid

OrganizationsInv ==
    /\ OrganizationsTypeOK /\ StaffAreInvited /\ InvitedAreGranted /\ NewIsEmpty
    /\ \A x \in Actors : Counted(x)
    /\ LimitsAreKept /\ OrganizationsAreRun

-----------------------------------------------------------------------------
LEMMA OrganizationsConstants ==
    /\ MaxSlots \in Nat /\ MaxApiKeys \in Nat /\ MaxInvitations \in Nat
    /\ NoOrganization \notin OrganizationIDs /\ IsFiniteSet(Users)
BY OrganizationsAssumption

LEMMA OrganizationsVariables ==
    ASSUME OrganizationsTypeOK
    PROVE  /\ organization \in [OrganizationIDs -> Organization]
           /\ staff \subseteq OrganizationIDs \X Users /\ granted \subseteq OrganizationIDs \X Users
           /\ revived \subseteq OrganizationIDs \X Users
           /\ invitation \in [OrganizationIDs -> [Users -> 0 .. MaxInvitations]]
           /\ sent \in [OrganizationIDs -> [Users -> 0 .. MaxInvitations]]
           /\ scheduled \subseteq OrganizationIDs /\ relaxed \subseteq OrganizationIDs
           /\ crossed \subseteq OrganizationIDs /\ halved \subseteq OrganizationIDs
BY DEF OrganizationsTypeOK

Request == [op : Acts, organization : OrganizationIDs \cup {NoOrganization},
            users : SUBSET Users, id : 0 .. MaxInvitations, stale : BOOLEAN]

LEMMA RequestTypes ==
    ASSUME OrganizationsTypeOK
    PROVE  acting \in [Actors -> Request]
BY DEF OrganizationsTypeOK, Request

\* The counts of an organization are numbers.
LEMMA CountsAreNumbers ==
    /\ \A us \in SUBSET Users : IsFiniteSet(us) /\ Cardinality(us) \in Nat
    /\ \A o : StaffOf(o) \subseteq Users /\ Invited(o) \subseteq Users
    /\ \A o : /\ IsFiniteSet(StaffOf(o)) /\ Cardinality(StaffOf(o)) \in Nat
              /\ IsFiniteSet(Invited(o)) /\ Cardinality(Invited(o)) \in Nat
<1>1. \A us \in SUBSET Users : IsFiniteSet(us) /\ Cardinality(us) \in Nat
  BY OrganizationsConstants, FS_Subset, FS_CardinalityType
<1>2. \A o : StaffOf(o) \subseteq Users /\ Invited(o) \subseteq Users
  BY DEF StaffOf, Invited
<1>3. QED BY <1>1, <1>2

LEMMA NumbersOfARow ==
    ASSUME OrganizationsTypeOK, NEW o \in OrganizationIDs
    PROVE  /\ organization[o].slots \in Nat /\ organization[o].slots \in 0 .. MaxSlots
           /\ organization[o].websites \in Nat /\ organization[o].keys \in Nat
           /\ organization[o].paid \in BOOLEAN /\ Limit(o) \in Nat
           /\ organization[o].state \in {"new", "live", "gone"}
<1>1. organization[o] \in Organization
  BY OrganizationsVariables
<1>2. organization[o].slots \in 0 .. MaxSlots
  BY <1>1 DEF Organization
<1>3. organization[o].slots \in Nat
  BY <1>2, OrganizationsConstants
<1>4. QED BY <1>1, <1>2, <1>3 DEF Organization, Limit

-----------------------------------------------------------------------------
(* What becomes of the requests when one begins, ends, or what they have   *)
(* read changes.                                                           *)

\* The request y is what it was, and if it isn't marked it wasn't about ops of o.
Kept(y, o, ops) ==
    /\ acting'[y].op = acting[y].op /\ acting'[y].organization = acting[y].organization
    /\ acting'[y].users = acting[y].users /\ acting'[y].id = acting[y].id
    /\ ~acting'[y].stale => ~acting[y].stale
                            /\ (acting[y].organization = o => acting[y].op \notin ops)

LEMMA ChangedIs ==
    ASSUME OrganizationsTypeOK, NEW y \in Actors, NEW o, NEW ops
    PROVE  /\ Changed(y, o, ops) \in Request
           /\ Changed(y, o, ops).op = acting[y].op
           /\ Changed(y, o, ops).organization = acting[y].organization
           /\ Changed(y, o, ops).users = acting[y].users /\ Changed(y, o, ops).id = acting[y].id
           /\ ~Changed(y, o, ops).stale => ~acting[y].stale
                /\ (acting[y].organization = o => acting[y].op \notin ops)
<1>1. acting[y] \in Request
  BY RequestTypes
<1> DEFINE a == acting[y]
           m == a.stale \/ (a.organization = o /\ a.op \in ops)
<1>2. Changed(y, o, ops) = [a EXCEPT !.stale = m]
  BY DEF Changed
<1>3. m \in BOOLEAN
  BY <1>1 DEF Request
<1>4. ~m => ~a.stale /\ (a.organization = o => a.op \notin ops)
  OBVIOUS
<1> HIDE DEF m, a
<1>5. a \in Request
  BY <1>1 DEF a
<1>6. [a EXCEPT !.stale = m].stale = m
  BY <1>5 DEF Request
<1>7. QED BY <1>2, <1>3, <1>4, <1>5, <1>6 DEF Request, a

LEMMA DoneKeeps ==
    ASSUME OrganizationsTypeOK, NEW x \in Actors, NEW o, NEW ops, Done(x, o, ops)
    PROVE  /\ acting' \in [Actors -> Request] /\ acting'[x] = Rest
           /\ \A y \in Actors \ {x} : Kept(y, o, ops)
<1>1. acting' = [y \in Actors |-> IF y = x THEN Rest ELSE Changed(y, o, ops)]
  BY DEF Done
<1>2. Rest \in Request
  <2>1. 0 \in 0 .. MaxInvitations
    BY OrganizationsConstants
  <2> QED BY <2>1 DEF Rest, Request, Acts
<1>3. QED BY <1>1, <1>2, ChangedIs DEF Kept

LEMMA MeanwhileKeeps ==
    ASSUME OrganizationsTypeOK, NEW o, NEW ops, Meanwhile(o, ops)
    PROVE  acting' \in [Actors -> Request] /\ \A y \in Actors : Kept(y, o, ops)
BY ChangedIs DEF Meanwhile, Kept

-----------------------------------------------------------------------------
(* A step changes one organization.                                        *)

Elsewhere(o) ==
    \A p \in OrganizationIDs \ {o} :
        /\ organization'[p] = organization[p]
        /\ StaffOf(p)' = StaffOf(p) /\ Invited(p)' = Invited(p)

\* What isn't about ops is as it was counted.
Unread(o, ops) ==
    /\ "invite" \notin ops => /\ StaffOf(o)' = StaffOf(o) /\ Invited(o)' = Invited(o)
                              /\ organization'[o].slots = organization[o].slots
    /\ "website" \notin ops => /\ organization'[o].websites <= organization[o].websites
                               /\ organization'[o].slots = organization[o].slots
    /\ "key" \notin ops => organization'[o].keys <= organization[o].keys
    /\ "remove" \notin ops => StaffOf(o) \subseteq StaffOf(o)'
    /\ "delete" \notin ops => /\ organization[o].websites = 0 => organization'[o].websites = 0
                              /\ organization'[o].paid = organization[o].paid

\* Whoever isn't marked can still write what it has counted.
LEMMA CountedStays ==
    ASSUME OrganizationsTypeOK, OrganizationsTypeOK',
           NEW o \in OrganizationIDs, NEW ops, NEW y \in Actors, Counted(y), Kept(y, o, ops),
           Elsewhere(o), organization'[o].state # "new",
           Running(o)' => Running(o) /\ Unread(o, ops)
    PROVE  Counted(y)'
<1>1. /\ acting'[y].op = acting[y].op /\ acting'[y].organization = acting[y].organization
      /\ acting'[y].users = acting[y].users /\ acting'[y].id = acting[y].id
      /\ ~acting'[y].stale => ~acting[y].stale
                              /\ (acting[y].organization = o => acting[y].op \notin ops)
  BY DEF Kept
<1>2. ASSUME NEW p \in OrganizationIDs, acting[y].op # "none", acting[y].organization = p
      PROVE  /\ organization'[p].state # "new"
             /\ Running(p)' /\ ~acting'[y].stale =>
                  /\ acting[y].op = "invite" =>
                       Cardinality(acting[y].users) + Cardinality(StaffOf(p)')
                         + Cardinality(Invited(p)') <= Limit(p)'
                  /\ acting[y].op = "website" => organization'[p].websites < Limit(p)'
                  /\ acting[y].op = "key" => organization'[p].keys < MaxApiKeys
                  /\ acting[y].op = "remove" => StaffOf(p)' \ acting[y].users # {}
                  /\ acting[y].op = "delete" => organization'[p].websites = 0 /\ ~organization'[p].paid
  <2>1. /\ organization[p].state # "new"
        /\ Running(p) /\ ~acting[y].stale =>
             /\ acting[y].op = "invite" =>
                  Cardinality(acting[y].users) + Cardinality(StaffOf(p))
                    + Cardinality(Invited(p)) <= Limit(p)
             /\ acting[y].op = "website" => organization[p].websites < Limit(p)
             /\ acting[y].op = "key" => organization[p].keys < MaxApiKeys
             /\ acting[y].op = "remove" => StaffOf(p) \ acting[y].users # {}
             /\ acting[y].op = "delete" => organization[p].websites = 0 /\ ~organization[p].paid
    BY <1>2 DEF Counted
  <2>2. CASE p = o
    <3> SUFFICES ASSUME Running(o)', ~acting'[y].stale
                 PROVE  /\ acting[y].op = "invite" =>
                             Cardinality(acting[y].users) + Cardinality(StaffOf(o)')
                               + Cardinality(Invited(o)') <= Limit(o)'
                        /\ acting[y].op = "website" => organization'[o].websites < Limit(o)'
                        /\ acting[y].op = "key" => organization'[o].keys < MaxApiKeys
                        /\ acting[y].op = "remove" => StaffOf(o)' \ acting[y].users # {}
                        /\ acting[y].op = "delete" =>
                             organization'[o].websites = 0 /\ ~organization'[o].paid
      BY <2>2
    <3>1. Running(o) /\ ~acting[y].stale /\ acting[y].op \notin ops /\ Unread(o, ops)
      BY <1>1, <1>2, <2>2
    <3>2. /\ organization[o].slots \in Nat /\ organization[o].websites \in Nat
          /\ organization[o].keys \in Nat
          /\ organization'[o].websites \in Nat /\ organization'[o].keys \in Nat
      <4>1. organization \in [OrganizationIDs -> Organization]
            /\ organization' \in [OrganizationIDs -> Organization]
        BY DEF OrganizationsTypeOK
      <4> QED BY <4>1, NumbersOfARow DEF Organization
    <3>3. CASE acting[y].op = "invite"
      BY <2>1, <2>2, <3>1, <3>3 DEF Limit, Unread
    <3>4. CASE acting[y].op = "website"
      BY <2>1, <2>2, <3>1, <3>2, <3>4 DEF Limit, Unread
    <3>5. CASE acting[y].op = "key"
      BY <2>1, <2>2, <3>1, <3>2, <3>5, OrganizationsConstants DEF Unread
    <3>6. CASE acting[y].op = "remove"
      BY <2>1, <2>2, <3>1, <3>6 DEF Unread
    <3>7. CASE acting[y].op = "delete"
      <4>1. organization[o].websites = 0 /\ ~organization[o].paid
        BY <2>1, <2>2, <3>1, <3>7
      <4>2. organization'[o].websites = 0 /\ organization'[o].paid = organization[o].paid
        BY <3>1, <3>7, <4>1 DEF Unread
      <4> QED BY <3>7, <4>1, <4>2
    <3>8. QED BY <3>3, <3>4, <3>5, <3>6, <3>7
  <2>3. CASE p # o
    <3>1. organization'[p] = organization[p] /\ StaffOf(p)' = StaffOf(p) /\ Invited(p)' = Invited(p)
      BY <2>3 DEF Elsewhere
    <3> QED BY <1>1, <2>1, <3>1 DEF Running, Limit
  <2>4. QED BY <2>2, <2>3
<1>3. QED BY <1>1, <1>2 DEF Counted, Running, Limit

LEMMA AtRestIsCounted ==
    ASSUME NEW x \in Actors, acting'[x] = Rest
    PROVE  Counted(x)'
BY DEF Rest, Counted

\* What an organization must be, of LimitsAreKept and of OrganizationsAreRun.
Limited(o) ==
    Running(o) /\ o \notin relaxed =>
        /\ Cardinality(StaffOf(o)) + Cardinality(Invited(o)) <= Limit(o)
        /\ organization[o].websites <= Limit(o)
        /\ organization[o].keys <= MaxApiKeys

Scheduling(o) == \E x \in Actors : acting[x].op = "schedule" /\ acting[x].organization = o

IsRun(o) ==
    /\ Running(o) => StaffOf(o) # {} \/ o \in crossed
    /\ organization[o].state = "gone" =>
         /\ (organization[o].websites = 0 /\ ~organization[o].paid) \/ o \in crossed
         /\ o \in scheduled \cup halved \/ Scheduling(o)

LEMMA OneByOne ==
    /\ LimitsAreKept <=> \A o \in OrganizationIDs : Limited(o)
    /\ OrganizationsAreRun <=> \A o \in OrganizationIDs : IsRun(o)
BY DEF LimitsAreKept, Limited, OrganizationsAreRun, IsRun, Scheduling

\* A step that writes to o keeps the invariant when it does so for o.
LEMMA StepOf ==
    ASSUME OrganizationsInv, NEW o \in OrganizationIDs, Elsewhere(o),
           OrganizationsTypeOK', StaffAreInvited', InvitedAreGranted',
           organization'[o].state # "new",
           \A y \in Actors : Counted(y)',
           relaxed \subseteq relaxed', crossed \subseteq crossed', scheduled \subseteq scheduled',
           halved \subseteq halved',
           \A p \in OrganizationIDs \ {o} : Scheduling(p) => Scheduling(p)',
           Limited(o)', IsRun(o)'
    PROVE  OrganizationsInv'
<1>1. ASSUME NEW p \in OrganizationIDs \ {o}
      PROVE  /\ organization'[p] = organization[p]
             /\ StaffOf(p)' = StaffOf(p) /\ Invited(p)' = Invited(p)
  BY <1>1 DEF Elsewhere
<1>2. NewIsEmpty'
  BY <1>1 DEF OrganizationsInv, NewIsEmpty
<1>3. ASSUME NEW p \in OrganizationIDs \ {o} PROVE Limited(p)' /\ IsRun(p)'
  <2>1. Limited(p) /\ IsRun(p)
    BY OneByOne DEF OrganizationsInv
  <2>2. Limited(p)'
    BY <1>1, <2>1 DEF Limited, Running, Limit
  <2>3. IsRun(p)'
    BY <1>1, <2>1 DEF IsRun, Running
  <2>4. QED BY <2>2, <2>3
<1>4. LimitsAreKept' /\ OrganizationsAreRun'
  <2>1. \A p \in OrganizationIDs : Limited(p)' /\ IsRun(p)'
    BY <1>3
  <2> QED BY <2>1 DEF LimitsAreKept, Limited, OrganizationsAreRun, IsRun, Scheduling
<1>5. QED BY <1>2, <1>4 DEF OrganizationsInv

\* A request that begins writes nothing yet.
LEMMA BegunRequest ==
    ASSUME OrganizationsInv, NEW x \in Actors, NEW o \in OrganizationIDs,
           NEW op \in Acts \ {"none", "schedule"}, NEW us \in SUBSET Users,
           NEW id \in 0 .. MaxInvitations, Act(x, op, o, us, id),
           UNCHANGED <<organization, staff, invitation, scheduled, ghostVars>>,
           organization[o].state # "new", op = "accept" => id # 0,
           op = "invite" => Cardinality(us) + Cardinality(StaffOf(o)) + Cardinality(Invited(o))
                            <= Limit(o),
           op = "website" => organization[o].websites < Limit(o),
           op = "key" => organization[o].keys < MaxApiKeys,
           op = "remove" => StaffOf(o) \ us # {},
           op = "delete" => organization[o].websites = 0 /\ ~organization[o].paid
    PROVE  OrganizationsInv'
<1> DEFINE a == [op |-> op, organization |-> o, users |-> us, id |-> id, stale |-> FALSE]
<1>1. acting[x].op = "none" /\ acting' = [acting EXCEPT ![x] = a] /\ acting \in [Actors -> Request]
  BY RequestTypes DEF Act, OrganizationsInv
<1>2. a \in Request
  BY DEF Request
<1>3. acting' \in [Actors -> Request] /\ acting'[x] = a
      /\ \A y \in Actors \ {x} : acting'[y] = acting[y]
  BY <1>1, <1>2
<1>4. \A p : /\ StaffOf(p)' = StaffOf(p) /\ Invited(p)' = Invited(p) /\ Limit(p)' = Limit(p)
             /\ Running(p)' <=> Running(p)
  BY DEF StaffOf, Invited, Limit, Running
<1>5. OrganizationsTypeOK'
  BY <1>3 DEF OrganizationsInv, OrganizationsTypeOK, ghostVars, Request
<1>6. Counted(x)'
  BY <1>3, <1>4 DEF Counted
<1>7. \A y \in Actors \ {x} : Counted(y)'
  BY <1>3, <1>4 DEF OrganizationsInv, Counted
<1>8. \A p \in OrganizationIDs : Scheduling(p) => Scheduling(p)'
  BY <1>1, <1>3 DEF Scheduling
<1>9. OrganizationsAreRun'
  <2>1. \A p \in OrganizationIDs : IsRun(p)
    BY OneByOne DEF OrganizationsInv
  <2>2. \A p \in OrganizationIDs : IsRun(p)'
    BY <1>4, <1>8, <2>1 DEF IsRun, ghostVars
  <2> QED BY <2>2 DEF OrganizationsAreRun, IsRun, Scheduling
<1>10. StaffAreInvited' /\ InvitedAreGranted' /\ NewIsEmpty' /\ LimitsAreKept'
  BY <1>4 DEF OrganizationsInv, StaffAreInvited, InvitedAreGranted, NewIsEmpty, LimitsAreKept,
              ghostVars
<1>11. QED BY <1>5, <1>6, <1>7, <1>9, <1>10 DEF OrganizationsInv

\* The invariant of Organizations holds when there is none.
THEOREM OrganizationsInitInv == OrganizationsInit => OrganizationsInv
<1> SUFFICES ASSUME OrganizationsInit PROVE OrganizationsInv
  OBVIOUS
<1> USE DEF OrganizationsInit
<1>0. 0 \in 0 .. MaxSlots /\ 0 \in 0 .. MaxInvitations
  BY OrganizationsConstants
<1>1. OrganizationsTypeOK
  <2>1. organization \in [OrganizationIDs -> Organization]
    BY <1>0 DEF Organization
  <2>2. acting \in [Actors -> Request]
    BY <1>0 DEF Rest, Request, Acts
  <2>3. /\ invitation \in [OrganizationIDs -> [Users -> 0 .. MaxInvitations]]
        /\ sent \in [OrganizationIDs -> [Users -> 0 .. MaxInvitations]]
    BY <1>0
  <2>4. QED BY <2>1, <2>2, <2>3 DEF OrganizationsTypeOK, Request
<1>2. StaffAreInvited /\ InvitedAreGranted
  BY DEF StaffAreInvited, InvitedAreGranted
<1>3. NewIsEmpty
  BY DEF NewIsEmpty, StaffOf, Invited
<1>4. \A x \in Actors : Counted(x)
  BY DEF Counted, Rest
<1>5. LimitsAreKept /\ OrganizationsAreRun
  BY DEF LimitsAreKept, OrganizationsAreRun, Running
<1>6. QED BY <1>1, <1>2, <1>3, <1>4, <1>5 DEF OrganizationsInv

-----------------------------------------------------------------------------
(* What counts do when staff and invitations change.                       *)

LEMMA CountsGrow ==
    ASSUME NEW S \in SUBSET Users, NEW T \in SUBSET Users
    PROVE  /\ Cardinality(S \cup T) \in Nat /\ Cardinality(S \cup T) <= Cardinality(S) + Cardinality(T)
           /\ Cardinality(S \ T) \in Nat /\ Cardinality(S \ T) <= Cardinality(S)
           /\ S \cap T = {} => Cardinality(S \cup T) = Cardinality(S) + Cardinality(T)
           /\ T \subseteq S => Cardinality(S \ T) = Cardinality(S) - Cardinality(T)
<1>1. /\ IsFiniteSet(S) /\ Cardinality(S) \in Nat /\ IsFiniteSet(T) /\ Cardinality(T) \in Nat
      /\ Cardinality(S \cup T) \in Nat /\ Cardinality(S \ T) \in Nat
      /\ Cardinality(S \cap T) \in Nat
  BY CountsAreNumbers
<1>2. Cardinality(S \cup T) = Cardinality(S) + Cardinality(T) - Cardinality(S \cap T)
  BY <1>1, FS_Union
<1>3. Cardinality(S \ T) = Cardinality(S) - Cardinality(S \cap T)
  BY <1>1, FS_Difference
<1>4. S \cap T = {} => Cardinality(S \cap T) = 0
  BY FS_EmptySet
<1>5. T \subseteq S => Cardinality(S \cap T) = Cardinality(T)
  <2> SUFFICES ASSUME T \subseteq S PROVE Cardinality(S \cap T) = Cardinality(T)
    OBVIOUS
  <2>1. S \cap T = T
    OBVIOUS
  <2> QED BY <2>1
<1> DEFINE cS == Cardinality(S) cT == Cardinality(T) both == Cardinality(S \cap T)
           joined == Cardinality(S \cup T) rest == Cardinality(S \ T)
<1>6. /\ cS \in Nat /\ cT \in Nat /\ both \in Nat /\ joined \in Nat /\ rest \in Nat
      /\ joined = cS + cT - both /\ rest = cS - both
  BY <1>1, <1>2, <1>3
<1>7. joined <= cS + cT /\ rest <= cS
  <2> HIDE DEF cS, cT, both, joined, rest
  <2> QED BY <1>6
<1>8. /\ both = 0 => joined = cS + cT
      /\ both = cT => rest = cS - cT
  <2> HIDE DEF cS, cT, both, joined, rest
  <2> QED BY <1>6
<1>9. QED BY <1>4, <1>5, <1>6, <1>7, <1>8

-----------------------------------------------------------------------------
\* The requests that only check and begin.
LEMMA ChecksInv ==
    ASSUME OrganizationsInv, NEW x \in Actors, NEW o \in OrganizationIDs,
           \/ DeleteOrganization(x, o) \/ CreateWebsite(x, o) \/ CreateApiKey(x, o)
           \/ \E us \in SUBSET Users : InviteStaffs(x, o, us)
           \/ \E u \in Users : \/ RemoveStaff(x, o, u) \/ AcceptStaffInvitation(x, o, u)
                               \/ DeleteStaffInvitation(x, o, u)
    PROVE  OrganizationsInv'
<1>0. 0 \in 0 .. MaxInvitations /\ OrganizationsTypeOK
  BY OrganizationsConstants DEF OrganizationsInv
<1>1. ASSUME DeleteOrganization(x, o) PROVE OrganizationsInv'
  BY <1>0, <1>1, BegunRequest DEF DeleteOrganization, CheckUserIsStaff, Running, Acts
<1>2. ASSUME CreateWebsite(x, o) PROVE OrganizationsInv'
  BY <1>0, <1>2, BegunRequest DEF CreateWebsite, CheckUserIsStaff, Running, Acts
<1>3. ASSUME CreateApiKey(x, o) PROVE OrganizationsInv'
  BY <1>0, <1>3, BegunRequest DEF CreateApiKey, CheckUserIsStaff, Running, Acts
<1>4. ASSUME NEW us \in SUBSET Users, InviteStaffs(x, o, us) PROVE OrganizationsInv'
  <2> DEFINE new == us \ (StaffOf(o) \cup Invited(o))
  <2>1. /\ Running(o) /\ Act(x, "invite", o, new, 0)
        /\ Cardinality(us) + Cardinality(StaffOf(o)) + Cardinality(Invited(o)) <= Limit(o)
        /\ UNCHANGED <<organization, staff, invitation, scheduled, ghostVars>>
    BY <1>4 DEF InviteStaffs, CheckUserIsStaff
  <2>2. new \in SUBSET Users /\ Cardinality(new) <= Cardinality(us) /\ Cardinality(new) \in Nat
    BY CountsGrow, CountsAreNumbers
  <2>3. Cardinality(new) + Cardinality(StaffOf(o)) + Cardinality(Invited(o)) <= Limit(o)
    BY <1>0, <2>1, <2>2, CountsAreNumbers, NumbersOfARow
  <2>4. organization[o].state # "new" /\ "invite" \in Acts
    BY <2>1 DEF Running, Acts
  <2> HIDE DEF new
  <2>5. QED BY <1>0, <2>1, <2>2, <2>3, <2>4, BegunRequest
<1>5. ASSUME NEW u \in Users, RemoveStaff(x, o, u) PROVE OrganizationsInv'
  <2>1. /\ Running(o) /\ u \in StaffOf(o) /\ Cardinality(StaffOf(o)) >= 2
        /\ Act(x, "remove", o, {u}, 0)
        /\ UNCHANGED <<organization, staff, invitation, scheduled, ghostVars>>
    BY <1>5 DEF RemoveStaff, CheckUserIsStaff
  <2>2. StaffOf(o) \ {u} # {}
    <3>1. Cardinality({u}) = 1
      BY FS_Singleton
    <3>2. StaffOf(o) # {u}
      BY <2>1, <3>1
    <3> QED BY <2>1, <3>2
  <2>3. organization[o].state # "new" /\ "remove" \in Acts
    BY <2>1 DEF Running, Acts
  <2>4. QED BY <1>0, <2>1, <2>2, <2>3, BegunRequest
<1>6. ASSUME NEW u \in Users, AcceptStaffInvitation(x, o, u) \/ DeleteStaffInvitation(x, o, u)
      PROVE  OrganizationsInv'
  <2>1. PICK op \in {"accept", "decline"} : Act(x, op, o, {u}, invitation[o][u])
    BY <1>6 DEF AcceptStaffInvitation, DeleteStaffInvitation
  <2>2. /\ u \in Invited(o)
        /\ UNCHANGED <<organization, staff, invitation, scheduled, ghostVars>>
    BY <1>6 DEF AcceptStaffInvitation, DeleteStaffInvitation
  <2>3. invitation[o][u] # 0 /\ organization[o].state # "new"
    BY <2>2 DEF OrganizationsInv, NewIsEmpty, Invited
  <2>4. invitation[o][u] \in 0 .. MaxInvitations
    BY <1>0, OrganizationsVariables
  <2>5. op \in Acts \ {"none", "schedule"}
    BY <2>1 DEF Acts
  <2>6. op \notin {"invite", "website", "key", "remove", "delete"}
    BY <2>1
  <2>7. QED BY <2>1, <2>2, <2>3, <2>4, <2>5, <2>6, BegunRequest
<1>7. QED BY <1>1, <1>2, <1>3, <1>4, <1>5, <1>6

-----------------------------------------------------------------------------
(* What a request writes is about its organization.                        *)

LEMMA OneOrganization ==
    ASSUME OrganizationsInv, NEW x \in Actors, acting[x].op # "none"
    PROVE  \E o \in OrganizationIDs : o = acting[x].organization /\ organization[o].state # "new"
BY DEF OrganizationsInv, Counted

\* A step that writes one row, and nothing of staff and invitations.
LEMMA RowElsewhere ==
    ASSUME OrganizationsTypeOK, NEW o \in OrganizationIDs, NEW r \in Organization,
           organization' = [organization EXCEPT ![o] = r], UNCHANGED <<staff, invitation>>
    PROVE  /\ organization' \in [OrganizationIDs -> Organization] /\ organization'[o] = r
           /\ Elsewhere(o) /\ \A p : StaffOf(p)' = StaffOf(p) /\ Invited(p)' = Invited(p)
BY OrganizationsVariables DEF Elsewhere, StaffOf, Invited

\* A step that writes staff and invitations, and no row.
LEMMA StaffElsewhere ==
    ASSUME OrganizationsTypeOK, NEW o \in OrganizationIDs, UNCHANGED organization,
           \A g \in OrganizationIDs \X Users : g[1] # o => (g \in staff' <=> g \in staff),
           staff' \subseteq OrganizationIDs \X Users,
           \A p \in OrganizationIDs \ {o} : invitation'[p] = invitation[p]
    PROVE  Elsewhere(o)
<1> SUFFICES ASSUME NEW p \in OrganizationIDs, p # o
             PROVE  StaffOf(p)' = StaffOf(p) /\ Invited(p)' = Invited(p)
  BY DEF Elsewhere
<1>1. \A u \in Users : <<p, u>> \in staff' <=> <<p, u>> \in staff
  OBVIOUS
<1>2. QED BY <1>1 DEF StaffOf, Invited

LEMMA CreateOrganizationInv ==
    ASSUME OrganizationsInv, NEW o \in OrganizationIDs, NEW u \in Users, CreateOrganization(o, u)
    PROVE  OrganizationsInv'
<1>0. OrganizationsTypeOK /\ StaffAreInvited /\ InvitedAreGranted /\ NewIsEmpty
  BY DEF OrganizationsInv
<1>1. /\ organization[o].state = "new"
      /\ organization' = [organization EXCEPT ![o].state = "live"]
      /\ staff' = staff \cup {<<o, u>>} /\ granted' = granted \cup {<<o, u>>}
      /\ UNCHANGED <<invitation, acting, scheduled, sent, revived, relaxed, crossed, halved>>
  BY DEF CreateOrganization
<1>2. organization[o] \in Organization
  BY <1>0, OrganizationsVariables
<1>3. /\ organization' \in [OrganizationIDs -> Organization] /\ organization'[o].state = "live"
      /\ organization'[o].websites = 0 /\ organization'[o].keys = 0
      /\ organization'[o].slots = organization[o].slots
      /\ \A p \in OrganizationIDs \ {o} : organization'[p] = organization[p]
  BY <1>0, <1>1, <1>2, OrganizationsVariables DEF Organization, NewIsEmpty
<1>4. OrganizationsTypeOK'
  BY <1>0, <1>1, <1>3 DEF OrganizationsTypeOK
<1>5. StaffOf(o)' = {u} /\ Invited(o)' = {}
  BY <1>0, <1>1 DEF NewIsEmpty, StaffOf, Invited
<1>6. Elsewhere(o)
  BY <1>1, <1>3 DEF Elsewhere, StaffOf, Invited
<1>7. StaffAreInvited' /\ InvitedAreGranted'
  BY <1>0, <1>1 DEF StaffAreInvited, InvitedAreGranted
<1>8. \A y \in Actors : Counted(y)'
  <2> SUFFICES ASSUME NEW y \in Actors PROVE Counted(y)'
    OBVIOUS
  <2>1. Counted(y)
    BY DEF OrganizationsInv
  <2>2. \A p \in OrganizationIDs : acting[y].op # "none" /\ acting[y].organization = p => p # o
    BY <1>1, <2>1 DEF Counted
  <2>3. \A p \in OrganizationIDs \ {o} :
           /\ organization'[p] = organization[p]
           /\ StaffOf(p)' = StaffOf(p) /\ Invited(p)' = Invited(p)
           /\ Limit(p)' = Limit(p) /\ (Running(p)' <=> Running(p))
    BY <1>6 DEF Elsewhere, Limit, Running
  <2>4. QED BY <1>1, <2>1, <2>2, <2>3 DEF Counted
<1>9. Limited(o)'
  <2>1. Cardinality({u}) = 1 /\ Cardinality({}) = 0
    BY FS_Singleton, FS_EmptySet
  <2>2. organization[o].slots \in Nat /\ MaxApiKeys \in Nat
    BY <1>0, NumbersOfARow, OrganizationsConstants
  <2>3. Limit(o)' = 1 + organization[o].slots
    BY <1>3 DEF Limit
  <2>4. QED BY <1>3, <1>5, <2>1, <2>2, <2>3 DEF Limited
<1>10. IsRun(o)'
  BY <1>3, <1>5 DEF IsRun, Running
<1>11. \A p : Scheduling(p) => Scheduling(p)'
  BY <1>1 DEF Scheduling
<1>12. QED BY <1>1, <1>3, <1>4, <1>6, <1>7, <1>8, <1>9, <1>10, <1>11, StepOf

LEMMA UpdateOrganizationInv ==
    ASSUME OrganizationsInv, NEW o \in OrganizationIDs, NEW paid \in BOOLEAN,
           NEW slots \in 0 .. MaxSlots, UpdateOrganization(o, paid, slots)
    PROVE  OrganizationsInv'
<1>0. OrganizationsTypeOK /\ StaffAreInvited /\ InvitedAreGranted
  BY DEF OrganizationsInv
<1>1. /\ Running(o) /\ organization' = [organization EXCEPT ![o].paid = paid, ![o].slots = slots]
      /\ relaxed' = IF slots < organization[o].slots THEN relaxed \cup {o} ELSE relaxed
      /\ Meanwhile(o, {"invite", "website", "delete"})
      /\ UNCHANGED <<staff, invitation, scheduled, sent, granted, revived, crossed, halved>>
  BY DEF UpdateOrganization
<1> DEFINE r == [organization[o] EXCEPT !.paid = paid, !.slots = slots]
<1>2. organization[o] \in Organization /\ organization \in [OrganizationIDs -> Organization]
  BY <1>0, OrganizationsVariables
<1>3. r \in Organization /\ organization' = [organization EXCEPT ![o] = r]
      /\ r.state = organization[o].state /\ r.slots = slots /\ r.paid = paid
      /\ r.websites = organization[o].websites /\ r.keys = organization[o].keys
  BY <1>1, <1>2 DEF Organization
<1> HIDE DEF r
<1>4. /\ organization' \in [OrganizationIDs -> Organization] /\ organization'[o] = r
      /\ Elsewhere(o) /\ \A p : StaffOf(p)' = StaffOf(p) /\ Invited(p)' = Invited(p)
  BY <1>0, <1>1, <1>3, RowElsewhere
<1>5. acting' \in [Actors -> Request] /\ \A y \in Actors : Kept(y, o, {"invite", "website", "delete"})
  BY <1>0, <1>1, MeanwhileKeeps
<1>6. OrganizationsTypeOK'
  BY <1>0, <1>1, <1>4, <1>5 DEF OrganizationsTypeOK, Request
<1>7. StaffAreInvited' /\ InvitedAreGranted'
  BY <1>0, <1>1 DEF StaffAreInvited, InvitedAreGranted
<1>8. organization'[o].state # "new" /\ Running(o)'
  BY <1>1, <1>3, <1>4 DEF Running
<1>9. \A y \in Actors : Counted(y)'
  <2>1. Unread(o, {"invite", "website", "delete"})
    <3>1. organization[o].keys <= organization[o].keys
      BY <1>0, NumbersOfARow
    <3> QED BY <1>3, <1>4, <3>1 DEF Unread
  <2> QED BY <1>0, <1>1, <1>4, <1>5, <1>6, <1>8, <2>1, CountedStays DEF OrganizationsInv
<1>10. Limited(o)'
  <2> SUFFICES ASSUME o \notin relaxed' PROVE Limited(o)'
    BY DEF Limited
  <2>1. o \notin relaxed /\ ~(slots < organization[o].slots)
    BY <1>1
  <2>2. Limited(o)
    BY OneByOne DEF OrganizationsInv
  <2>3. /\ Cardinality(StaffOf(o)) + Cardinality(Invited(o)) <= 1 + organization[o].slots
        /\ organization[o].websites <= 1 + organization[o].slots
        /\ organization[o].keys <= MaxApiKeys
    BY <1>1, <2>1, <2>2 DEF Limited, Limit
  <2>4. slots \in Nat /\ organization[o].slots \in Nat /\ organization[o].websites \in Nat
        /\ Cardinality(StaffOf(o)) \in Nat /\ Cardinality(Invited(o)) \in Nat
    BY <1>0, NumbersOfARow, CountsAreNumbers, OrganizationsConstants
  <2>5. Limit(o)' = 1 + slots
    BY <1>3, <1>4 DEF Limit
  <2>6. /\ Cardinality(StaffOf(o)) + Cardinality(Invited(o)) <= 1 + slots
        /\ organization[o].websites <= 1 + slots
    BY <2>1, <2>3, <2>4
  <2>7. QED BY <1>3, <1>4, <2>3, <2>5, <2>6 DEF Limited
<1>11. IsRun(o)'
  <2>1. IsRun(o)
    BY OneByOne DEF OrganizationsInv
  <2> QED BY <1>1, <1>4, <1>8, <2>1 DEF IsRun, Running
<1>12. \A p : Scheduling(p) => Scheduling(p)'
  BY <1>5 DEF Scheduling, Kept
<1>13. relaxed \subseteq relaxed'
  BY <1>1
<1>14. QED BY <1>1, <1>4, <1>6, <1>7, <1>8, <1>9, <1>10, <1>11, <1>12, <1>13, StepOf

LEMMA DeleteOrganizationRowInv ==
    ASSUME OrganizationsInv, NEW x \in Actors, DeleteOrganizationRow(x)
    PROVE  OrganizationsInv'
<1>0. OrganizationsTypeOK /\ StaffAreInvited /\ InvitedAreGranted
  BY DEF OrganizationsInv
<1>1. PICK o \in OrganizationIDs : o = acting[x].organization
  BY OneOrganization DEF DeleteOrganizationRow
<1>2. /\ acting[x].op = "delete" /\ Running(o)
      /\ organization' = [organization EXCEPT ![o].state = "gone"]
      /\ staff' = staff \ ({o} \X Users)
      /\ invitation' = [invitation EXCEPT ![o] = [u \in Users |-> 0]]
      /\ crossed' = IF acting[x].stale THEN crossed \cup {o} ELSE crossed
      /\ acting' = [acting EXCEPT ![x].op = "schedule"]
      /\ UNCHANGED <<scheduled, sent, granted, revived, relaxed, halved>>
  BY <1>1 DEF DeleteOrganizationRow
<1>3. /\ organization[o] \in Organization /\ organization \in [OrganizationIDs -> Organization]
      /\ acting \in [Actors -> Request] /\ staff \subseteq OrganizationIDs \X Users
      /\ invitation \in [OrganizationIDs -> [Users -> 0 .. MaxInvitations]]
      /\ crossed \subseteq OrganizationIDs
  BY <1>0, OrganizationsVariables, RequestTypes
<1>4. /\ organization' \in [OrganizationIDs -> Organization] /\ organization'[o].state = "gone"
      /\ organization'[o].websites = organization[o].websites
      /\ organization'[o].paid = organization[o].paid
      /\ \A p \in OrganizationIDs \ {o} : organization'[p] = organization[p]
  BY <1>2, <1>3 DEF Organization
<1>5. /\ acting' \in [Actors -> Request] /\ acting'[x].op = "schedule"
      /\ acting'[x].organization = o
      /\ \A y \in Actors \ {x} : acting'[y] = acting[y]
  BY <1>1, <1>2, <1>3 DEF Request, Acts
<1>6. /\ invitation' \in [OrganizationIDs -> [Users -> 0 .. MaxInvitations]]
      /\ \A p \in OrganizationIDs \ {o} : invitation'[p] = invitation[p]
      /\ \A u \in Users : invitation'[o][u] = 0
  <2>1. 0 \in 0 .. MaxInvitations
    BY OrganizationsConstants
  <2> QED BY <1>2, <1>3, <2>1
<1>7. OrganizationsTypeOK'
  <2>1. crossed' \subseteq OrganizationIDs /\ staff' \subseteq OrganizationIDs \X Users
    BY <1>2, <1>3
  <2>2. /\ {staff', granted', revived'} \subseteq SUBSET (OrganizationIDs \X Users)
        /\ {scheduled', relaxed', crossed', halved'} \subseteq SUBSET OrganizationIDs
    BY <1>0, <1>2, <2>1, OrganizationsVariables
  <2>3. {invitation', sent'} \subseteq [OrganizationIDs -> [Users -> 0 .. MaxInvitations]]
    BY <1>0, <1>2, <1>6, OrganizationsVariables
  <2>4. QED BY <1>4, <1>5, <2>2, <2>3 DEF OrganizationsTypeOK, Request
<1>8. Elsewhere(o)
  <2> SUFFICES ASSUME NEW p \in OrganizationIDs, p # o
               PROVE  StaffOf(p)' = StaffOf(p) /\ Invited(p)' = Invited(p)
    BY <1>4 DEF Elsewhere
  <2>1. \A u \in Users : <<p, u>> \in staff' <=> <<p, u>> \in staff
    BY <1>2
  <2>2. QED BY <1>6, <2>1 DEF StaffOf, Invited
<1>9. StaffAreInvited' /\ InvitedAreGranted'
  BY <1>0, <1>2, <1>6 DEF StaffAreInvited, InvitedAreGranted
<1>10. ~Running(o)' /\ organization'[o].state # "new"
  BY <1>4 DEF Running
<1>11. \A y \in Actors : Counted(y)'
  <2>1. Counted(x)'
    BY <1>1, <1>5, <1>10 DEF Counted
  <2>2. ASSUME NEW y \in Actors \ {x} PROVE Counted(y)'
    <3>1. Kept(y, o, {})
      BY <1>5 DEF Kept
    <3> QED BY <1>0, <1>7, <1>8, <1>10, <3>1, CountedStays DEF OrganizationsInv
  <2>3. QED BY <2>1, <2>2
<1>12. IsRun(o)'
  <2>1. Counted(x)
    BY DEF OrganizationsInv
  <2>2. acting[x].stale \/ (organization[o].websites = 0 /\ ~organization[o].paid)
    BY <1>1, <1>2, <2>1 DEF Counted
  <2>3. (organization'[o].websites = 0 /\ ~organization'[o].paid) \/ o \in crossed'
    BY <1>2, <1>4, <2>2
  <2>4. Scheduling(o)'
    BY <1>5 DEF Scheduling
  <2>5. QED BY <1>10, <2>3, <2>4 DEF IsRun
<1>13. \A p \in OrganizationIDs \ {o} : Scheduling(p) => Scheduling(p)'
  BY <1>1, <1>5 DEF Scheduling
<1>14. Limited(o)' /\ crossed \subseteq crossed'
  BY <1>2, <1>10 DEF Limited
<1>15. QED BY <1>2, <1>7, <1>8, <1>9, <1>10, <1>11, <1>12, <1>13, <1>14, StepOf

\* Websites and API keys, of which only the number changes.
LEMMA RowCountsInv ==
    ASSUME OrganizationsInv, NEW o \in OrganizationIDs, NEW r \in Organization, Running(o),
           r.state = "live", r.slots = organization[o].slots, r.paid = organization[o].paid,
           organization' = [organization EXCEPT ![o] = r],
           UNCHANGED <<staff, invitation, scheduled, sent, granted, revived, crossed, halved>>,
           relaxed' \in {relaxed, relaxed \cup {o}},
           acting' \in [Actors -> Request], \A y \in Actors : Counted(y)',
           \A p : Scheduling(p) => Scheduling(p)',
           o \notin relaxed' => r.websites <= Limit(o) /\ r.keys <= MaxApiKeys
    PROVE  OrganizationsInv'
<1>0. OrganizationsTypeOK /\ StaffAreInvited /\ InvitedAreGranted /\ relaxed \subseteq OrganizationIDs
  BY OrganizationsVariables DEF OrganizationsInv
<1>1. /\ organization' \in [OrganizationIDs -> Organization] /\ organization'[o] = r
      /\ Elsewhere(o) /\ \A p : StaffOf(p)' = StaffOf(p) /\ Invited(p)' = Invited(p)
  BY <1>0, RowElsewhere
<1>2. OrganizationsTypeOK'
  BY <1>0, <1>1 DEF OrganizationsTypeOK, Request
<1>3. StaffAreInvited' /\ InvitedAreGranted'
  BY <1>0 DEF StaffAreInvited, InvitedAreGranted
<1>4. Limited(o)'
  <2> SUFFICES ASSUME o \notin relaxed' PROVE Limited(o)'
    BY DEF Limited
  <2>1. Limited(o) /\ o \notin relaxed
    BY OneByOne DEF OrganizationsInv
  <2>2. Limit(o)' = Limit(o)
    BY <1>1 DEF Limit
  <2>3. QED BY <1>1, <2>1, <2>2 DEF Limited
<1>5. IsRun(o)'
  <2>1. IsRun(o)
    BY OneByOne DEF OrganizationsInv
  <2> QED BY <1>1, <2>1 DEF IsRun, Running
<1>6. organization'[o].state # "new"
  BY <1>1
<1>7. QED BY <1>1, <1>2, <1>3, <1>4, <1>5, <1>6, StepOf

LEMMA InsertsInv ==
    ASSUME OrganizationsInv, NEW x \in Actors, InsertWebsite(x) \/ InsertApiKey(x)
    PROVE  OrganizationsInv'
<1>0. OrganizationsTypeOK
  BY DEF OrganizationsInv
<1>1. PICK o \in OrganizationIDs : o = acting[x].organization
  BY OneOrganization DEF InsertWebsite, InsertApiKey
<1>2. /\ organization[o].websites \in Nat /\ organization[o].keys \in Nat /\ Limit(o) \in Nat
      /\ MaxApiKeys \in Nat /\ organization[o] \in Organization
      /\ organization \in [OrganizationIDs -> Organization]
  BY <1>0, NumbersOfARow, OrganizationsConstants, OrganizationsVariables
<1>3. Counted(x) /\ Limited(o)
  BY OneByOne DEF OrganizationsInv
<1>4. CASE InsertWebsite(x)
  <2> DEFINE r == [organization[o] EXCEPT !.websites = @ + 1]
  <2>1. /\ acting[x].op = "website" /\ Running(o)
        /\ organization' = [organization EXCEPT ![o].websites = @ + 1]
        /\ relaxed' = IF acting[x].stale THEN relaxed \cup {o} ELSE relaxed
        /\ Done(x, o, {"website", "delete"})
        /\ UNCHANGED <<staff, invitation, scheduled, sent, granted, revived, crossed, halved>>
    BY <1>1, <1>4 DEF InsertWebsite, Excess
  <2>2. /\ r \in Organization /\ organization' = [organization EXCEPT ![o] = r]
        /\ r.state = "live" /\ r.slots = organization[o].slots /\ r.paid = organization[o].paid
        /\ r.websites = organization[o].websites + 1 /\ r.keys = organization[o].keys
    BY <1>2, <2>1 DEF Organization, Running
  <2> HIDE DEF r
  <2>3. /\ organization' \in [OrganizationIDs -> Organization] /\ organization'[o] = r
        /\ Elsewhere(o) /\ \A p : StaffOf(p)' = StaffOf(p) /\ Invited(p)' = Invited(p)
    BY <1>0, <2>1, <2>2, RowElsewhere
  <2>4. /\ acting' \in [Actors -> Request] /\ acting'[x] = Rest
        /\ \A y \in Actors \ {x} : Kept(y, o, {"website", "delete"})
    BY <1>0, <2>1, DoneKeeps
  <2>5. relaxed \subseteq OrganizationIDs /\ relaxed' \in {relaxed, relaxed \cup {o}}
    BY <1>0, <2>1, OrganizationsVariables
  <2>6. OrganizationsTypeOK'
    BY <1>0, <2>1, <2>3, <2>4, <2>5 DEF OrganizationsTypeOK, Request
  <2>7. \A y \in Actors : Counted(y)'
    <3>1. Unread(o, {"website", "delete"})
      <4>1. r.keys <= organization[o].keys
        BY <1>2, <2>2
      <4> QED BY <2>2, <2>3, <4>1 DEF Unread
    <3>2. organization'[o].state # "new"
      BY <2>2, <2>3
    <3> QED BY <1>0, <2>1, <2>3, <2>4, <2>6, <3>1, <3>2, CountedStays, AtRestIsCounted
            DEF OrganizationsInv
  <2>8. \A p : Scheduling(p) => Scheduling(p)'
    BY <2>1, <2>4 DEF Scheduling, Kept
  <2>9. o \notin relaxed' => r.websites <= Limit(o) /\ r.keys <= MaxApiKeys
    <3> SUFFICES ASSUME o \notin relaxed' PROVE r.websites <= Limit(o) /\ r.keys <= MaxApiKeys
      OBVIOUS
    <3>1. ~acting[x].stale /\ o \notin relaxed
      BY <2>1
    <3>2. organization[o].websites < Limit(o)
      BY <1>1, <1>3, <2>1, <3>1 DEF Counted
    <3>3. organization[o].keys <= MaxApiKeys
      BY <1>3, <2>1, <3>1 DEF Limited
    <3>4. QED BY <1>2, <2>2, <3>2, <3>3
  <2>10. QED BY <2>1, <2>2, <2>4, <2>5, <2>7, <2>8, <2>9, RowCountsInv
<1>5. CASE InsertApiKey(x)
  <2> DEFINE r == [organization[o] EXCEPT !.keys = @ + 1]
  <2>1. /\ acting[x].op = "key" /\ Running(o)
        /\ organization' = [organization EXCEPT ![o].keys = @ + 1]
        /\ relaxed' = IF acting[x].stale THEN relaxed \cup {o} ELSE relaxed
        /\ Done(x, o, {"key"})
        /\ UNCHANGED <<staff, invitation, scheduled, sent, granted, revived, crossed, halved>>
    BY <1>1, <1>5 DEF InsertApiKey, Excess
  <2>2. /\ r \in Organization /\ organization' = [organization EXCEPT ![o] = r]
        /\ r.state = "live" /\ r.slots = organization[o].slots /\ r.paid = organization[o].paid
        /\ r.websites = organization[o].websites /\ r.keys = organization[o].keys + 1
    BY <1>2, <2>1 DEF Organization, Running
  <2> HIDE DEF r
  <2>3. /\ organization' \in [OrganizationIDs -> Organization] /\ organization'[o] = r
        /\ Elsewhere(o) /\ \A p : StaffOf(p)' = StaffOf(p) /\ Invited(p)' = Invited(p)
    BY <1>0, <2>1, <2>2, RowElsewhere
  <2>4. /\ acting' \in [Actors -> Request] /\ acting'[x] = Rest
        /\ \A y \in Actors \ {x} : Kept(y, o, {"key"})
    BY <1>0, <2>1, DoneKeeps
  <2>5. relaxed \subseteq OrganizationIDs /\ relaxed' \in {relaxed, relaxed \cup {o}}
    BY <1>0, <2>1, OrganizationsVariables
  <2>6. OrganizationsTypeOK'
    BY <1>0, <2>1, <2>3, <2>4, <2>5 DEF OrganizationsTypeOK, Request
  <2>7. \A y \in Actors : Counted(y)'
    <3>1. Unread(o, {"key"})
      <4>1. r.websites <= organization[o].websites
        BY <1>2, <2>2
      <4> QED BY <2>1, <2>2, <2>3, <4>1 DEF Unread
    <3>2. organization'[o].state # "new"
      BY <2>2, <2>3
    <3> QED BY <1>0, <2>1, <2>3, <2>4, <2>6, <3>1, <3>2, CountedStays, AtRestIsCounted
            DEF OrganizationsInv
  <2>8. \A p : Scheduling(p) => Scheduling(p)'
    BY <2>1, <2>4 DEF Scheduling, Kept
  <2>9. o \notin relaxed' => r.websites <= Limit(o) /\ r.keys <= MaxApiKeys
    <3> SUFFICES ASSUME o \notin relaxed' PROVE r.websites <= Limit(o) /\ r.keys <= MaxApiKeys
      OBVIOUS
    <3>1. ~acting[x].stale /\ o \notin relaxed
      BY <2>1
    <3>2. organization[o].keys < MaxApiKeys
      BY <1>1, <1>3, <2>1, <3>1 DEF Counted
    <3>3. organization[o].websites <= Limit(o)
      BY <1>3, <2>1, <3>1 DEF Limited
    <3>4. QED BY <1>2, <2>2, <3>2, <3>3
  <2>10. QED BY <2>1, <2>2, <2>4, <2>5, <2>7, <2>8, <2>9, RowCountsInv
<1>6. QED BY <1>4, <1>5

LEMMA DeletesInv ==
    ASSUME OrganizationsInv, NEW o \in OrganizationIDs, DeleteWebsite(o) \/ DeleteApiKey(o)
    PROVE  OrganizationsInv'
<1>0. OrganizationsTypeOK
  BY DEF OrganizationsInv
<1>1. Running(o) /\ UNCHANGED <<staff, invitation, acting, scheduled, ghostVars>>
  BY DEF DeleteWebsite, DeleteApiKey
<1>2. /\ organization[o].websites \in Nat /\ organization[o].keys \in Nat /\ Limit(o) \in Nat
      /\ MaxApiKeys \in Nat /\ organization[o] \in Organization
      /\ organization \in [OrganizationIDs -> Organization] /\ acting \in [Actors -> Request]
  BY <1>0, NumbersOfARow, OrganizationsConstants, OrganizationsVariables, RequestTypes
<1>3. PICK r \in Organization :
        /\ organization' = [organization EXCEPT ![o] = r]
        /\ r.state = "live" /\ r.slots = organization[o].slots /\ r.paid = organization[o].paid
        /\ r.websites <= organization[o].websites /\ r.keys <= organization[o].keys
  <2>1. CASE DeleteWebsite(o)
    <3> DEFINE n == organization[o].websites - 1
               r == [organization[o] EXCEPT !.websites = n]
    <3>1. organization' = [organization EXCEPT ![o] = r] /\ organization[o].websites > 0
      BY <1>2, <2>1 DEF DeleteWebsite
    <3>2. n \in Nat /\ n <= organization[o].websites
      BY <1>2, <3>1
    <3> HIDE DEF n
    <3>3. /\ r \in Organization /\ r.state = "live" /\ r.slots = organization[o].slots
          /\ r.paid = organization[o].paid /\ r.websites = n /\ r.keys = organization[o].keys
      BY <1>1, <1>2, <3>2 DEF Organization, Running
    <3> HIDE DEF r
    <3>4. r.websites <= organization[o].websites /\ r.keys <= organization[o].keys
      BY <1>2, <3>2, <3>3
    <3> QED BY <3>1, <3>3, <3>4
  <2>2. CASE DeleteApiKey(o)
    <3> DEFINE n == organization[o].keys - 1
               r == [organization[o] EXCEPT !.keys = n]
    <3>1. organization' = [organization EXCEPT ![o] = r] /\ organization[o].keys > 0
      BY <1>2, <2>2 DEF DeleteApiKey
    <3>2. n \in Nat /\ n <= organization[o].keys
      BY <1>2, <3>1
    <3> HIDE DEF n
    <3>3. /\ r \in Organization /\ r.state = "live" /\ r.slots = organization[o].slots
          /\ r.paid = organization[o].paid /\ r.keys = n /\ r.websites = organization[o].websites
      BY <1>1, <1>2, <3>2 DEF Organization, Running
    <3> HIDE DEF r
    <3>4. r.websites <= organization[o].websites /\ r.keys <= organization[o].keys
      BY <1>2, <3>2, <3>3
    <3> QED BY <3>1, <3>3, <3>4
  <2>3. QED BY <2>1, <2>2
<1>4. /\ organization' \in [OrganizationIDs -> Organization] /\ organization'[o] = r
      /\ Elsewhere(o) /\ \A p : StaffOf(p)' = StaffOf(p) /\ Invited(p)' = Invited(p)
  BY <1>0, <1>1, <1>3, RowElsewhere
<1>5. OrganizationsTypeOK'
  BY <1>0, <1>1, <1>4 DEF OrganizationsTypeOK, ghostVars
<1>6. r.websites \in Nat /\ r.keys \in Nat
  BY DEF Organization
<1>7. \A y \in Actors : Counted(y)'
  <2>1. organization[o].websites = 0 => r.websites = 0
    BY <1>2, <1>3, <1>6
  <2>2. Unread(o, {})
    BY <1>3, <1>4, <2>1 DEF Unread
  <2>3. \A y \in Actors : Kept(y, o, {})
    BY <1>1 DEF Kept
  <2>4. organization'[o].state # "new"
    BY <1>3, <1>4
  <2> QED BY <1>0, <1>1, <1>4, <1>5, <2>2, <2>3, <2>4, CountedStays DEF OrganizationsInv
<1>8. o \notin relaxed' => r.websites <= Limit(o) /\ r.keys <= MaxApiKeys
  <2> SUFFICES ASSUME o \notin relaxed PROVE r.websites <= Limit(o) /\ r.keys <= MaxApiKeys
    BY <1>1 DEF ghostVars
  <2>1. Limited(o)
    BY OneByOne DEF OrganizationsInv
  <2>2. organization[o].websites <= Limit(o) /\ organization[o].keys <= MaxApiKeys
    BY <1>1, <2>1 DEF Limited
  <2>3. QED BY <1>2, <1>3, <1>6, <2>2
<1>9. \A p : Scheduling(p) => Scheduling(p)'
  BY <1>1 DEF Scheduling
<1>10. QED BY <1>1, <1>2, <1>3, <1>7, <1>8, <1>9, RowCountsInv DEF ghostVars

\* A deletion that is over: its events are to be deleted, or it has failed.
LEMMA EndsInv ==
    ASSUME OrganizationsInv, NEW x \in Actors,
           ScheduleDeletionOfOrganizationData(x) \/ Abort(x)
    PROVE  OrganizationsInv'
<1>0. OrganizationsTypeOK /\ StaffAreInvited /\ InvitedAreGranted
  BY DEF OrganizationsInv
<1>1. PICK o \in OrganizationIDs : o = acting[x].organization /\ organization[o].state # "new"
  BY OneOrganization DEF ScheduleDeletionOfOrganizationData, Abort
<1>2. /\ Done(x, o, {}) /\ scheduled' \in {scheduled, scheduled \cup {o}}
      /\ halved' \in {halved, halved \cup {o}}
      /\ acting[x].op = "schedule" => o \in scheduled' \cup halved'
      /\ UNCHANGED <<organization, staff, invitation, sent, granted, revived, relaxed, crossed>>
  BY <1>1 DEF ScheduleDeletionOfOrganizationData, Abort, ghostVars
<1>3. /\ acting' \in [Actors -> Request] /\ acting'[x] = Rest
      /\ \A y \in Actors \ {x} : Kept(y, o, {})
  BY <1>0, <1>2, DoneKeeps
<1>4. \A p : StaffOf(p)' = StaffOf(p) /\ Invited(p)' = Invited(p)
  BY <1>2 DEF StaffOf, Invited
<1>5. OrganizationsTypeOK'
  <2>1. scheduled' \subseteq OrganizationIDs /\ halved' \subseteq OrganizationIDs
    BY <1>0, <1>2, OrganizationsVariables
  <2> QED BY <1>0, <1>2, <1>3, <2>1 DEF OrganizationsTypeOK, Request
<1>6. Elsewhere(o)
  BY <1>2, <1>4 DEF Elsewhere
<1>7. \A y \in Actors : Counted(y)'
  <2>1. Unread(o, {})
    <3>1. organization[o].websites <= organization[o].websites
          /\ organization[o].keys <= organization[o].keys
      BY <1>0, NumbersOfARow
    <3> QED BY <1>2, <1>4, <3>1 DEF Unread
  <2>2. organization'[o].state # "new" /\ (Running(o)' => Running(o))
    BY <1>1, <1>2 DEF Running
  <2> QED BY <1>0, <1>3, <1>5, <1>6, <2>1, <2>2, CountedStays, AtRestIsCounted DEF OrganizationsInv
<1>8. StaffAreInvited' /\ InvitedAreGranted'
  BY <1>0, <1>2 DEF StaffAreInvited, InvitedAreGranted
<1>9. Limited(o)'
  <2>1. Limited(o)
    BY OneByOne DEF OrganizationsInv
  <2> QED BY <1>2, <1>4, <2>1 DEF Limited, Running, Limit
<1>10. \A p \in OrganizationIDs \ {o} : Scheduling(p) => Scheduling(p)'
  BY <1>1, <1>3 DEF Scheduling, Kept
<1>11. IsRun(o)'
  <2>1. IsRun(o)
    BY OneByOne DEF OrganizationsInv
  <2>2. Scheduling(o) => Scheduling(o)' \/ o \in scheduled' \cup halved'
    BY <1>2, <1>3 DEF Scheduling, Kept
  <2> QED BY <1>2, <1>4, <2>1, <2>2 DEF IsRun, Running
<1>12. scheduled \subseteq scheduled' /\ halved \subseteq halved'
  BY <1>2
<1>13. QED BY <1>1, <1>2, <1>5, <1>6, <1>7, <1>8, <1>9, <1>10, <1>11, <1>12, StepOf

-----------------------------------------------------------------------------
(* Staff and invitations.                                                  *)

\* What a step that writes staff and invitations of o, and no row, has left to show.
LEMMA StaffStep ==
    ASSUME OrganizationsInv, NEW o \in OrganizationIDs, organization[o].state # "new",
           UNCHANGED <<organization, scheduled, halved>>, Elsewhere(o),
           {staff', granted', revived'} \subseteq SUBSET (OrganizationIDs \X Users),
           {invitation', sent'} \subseteq [OrganizationIDs -> [Users -> 0 .. MaxInvitations]],
           relaxed' \in {relaxed, relaxed \cup {o}}, crossed' \in {crossed, crossed \cup {o}},
           acting' \in [Actors -> Request],
           \A y \in Actors : acting'[y] = Rest \/ Kept(y, o, {"remove", "invite"}) 
                             \/ (Kept(y, o, {"invite"}) /\ StaffOf(o) \subseteq StaffOf(o)'),
           \A y \in Actors : acting[y].op = "schedule" => Kept(y, o, {}),
           StaffAreInvited', InvitedAreGranted', Limited(o)',
           Running(o) => StaffOf(o)' # {} \/ o \in crossed'
    PROVE  OrganizationsInv'
<1>0. OrganizationsTypeOK /\ relaxed \subseteq OrganizationIDs /\ crossed \subseteq OrganizationIDs
  BY OrganizationsVariables DEF OrganizationsInv
<1>1. OrganizationsTypeOK'
  BY <1>0 DEF OrganizationsTypeOK, Request
<1>2. organization[o].websites <= organization[o].websites /\ organization[o].keys <= organization[o].keys
  BY <1>0, NumbersOfARow
<1>3. organization'[o].state # "new" /\ (Running(o)' <=> Running(o))
  BY DEF Running
<1>4. \A y \in Actors : Counted(y)'
  <2> SUFFICES ASSUME NEW y \in Actors PROVE Counted(y)'
    OBVIOUS
  <2>1. Counted(y)
    BY DEF OrganizationsInv
  <2>2. CASE acting'[y] = Rest
    BY <2>2, AtRestIsCounted
  <2>3. CASE Kept(y, o, {"remove", "invite"})
    <3>1. Unread(o, {"remove", "invite"})
      BY <1>2 DEF Unread
    <3> QED BY <1>0, <1>1, <1>3, <2>1, <2>3, <3>1, CountedStays
  <2>4. CASE Kept(y, o, {"invite"}) /\ StaffOf(o) \subseteq StaffOf(o)'
    <3>1. Unread(o, {"invite"})
      BY <1>2, <2>4 DEF Unread
    <3> QED BY <1>0, <1>1, <1>3, <2>1, <2>4, <3>1, CountedStays
  <2>5. QED BY <2>2, <2>3, <2>4
<1>5. \A p : Scheduling(p) => Scheduling(p)'
  BY DEF Scheduling, Kept
<1>6. IsRun(o)'
  <2>1. IsRun(o)
    BY OneByOne DEF OrganizationsInv
  <2> QED BY <1>3, <1>5, <2>1 DEF IsRun
<1>7. relaxed \subseteq relaxed' /\ crossed \subseteq crossed'
  OBVIOUS
<1>8. QED BY <1>1, <1>3, <1>4, <1>5, <1>6, <1>7, StepOf

LEMMA DeleteStaffInv ==
    ASSUME OrganizationsInv, NEW x \in Actors, DeleteStaff(x)
    PROVE  OrganizationsInv'
<1>0. OrganizationsTypeOK /\ StaffAreInvited /\ InvitedAreGranted
  BY DEF OrganizationsInv
<1>1. PICK o \in OrganizationIDs : o = acting[x].organization /\ organization[o].state # "new"
  BY OneOrganization DEF DeleteStaff
<1>2. PICK us \in SUBSET Users : us = acting[x].users
  BY <1>0, RequestTypes DEF Request
<1>3. /\ acting[x].op = "remove" /\ staff' = staff \ ({o} \X us)
      /\ granted' = granted \ {g \in {o} \X us : invitation[o][g[2]] = 0}
      /\ crossed' = IF acting[x].stale THEN crossed \cup {o} ELSE crossed
      /\ Done(x, o, {"remove", "invite"})
      /\ UNCHANGED <<organization, invitation, scheduled, sent, revived, relaxed, halved>>
  BY <1>1, <1>2 DEF DeleteStaff
<1>4. /\ acting' \in [Actors -> Request] /\ acting'[x] = Rest
      /\ \A y \in Actors \ {x} : Kept(y, o, {"remove", "invite"})
  BY <1>0, <1>3, DoneKeeps
<1>5. /\ staff' \subseteq OrganizationIDs \X Users /\ granted' \subseteq OrganizationIDs \X Users
      /\ {staff', granted', revived'} \subseteq SUBSET (OrganizationIDs \X Users)
      /\ {invitation', sent'} \subseteq [OrganizationIDs -> [Users -> 0 .. MaxInvitations]]
  BY <1>0, <1>3, OrganizationsVariables
<1>6. Elsewhere(o)
  BY <1>0, <1>3, <1>5, StaffElsewhere
<1>7. StaffOf(o)' = StaffOf(o) \ us /\ Invited(o)' = Invited(o)
  BY <1>3 DEF StaffOf, Invited
<1>8. StaffAreInvited'
  BY <1>0, <1>3 DEF StaffAreInvited
<1>9. InvitedAreGranted'
  <2> SUFFICES ASSUME NEW p \in OrganizationIDs, NEW u \in Users, invitation[p][u] # 0
               PROVE  <<p, u>> \in granted'
    BY <1>3 DEF InvitedAreGranted
  <2>1. <<p, u>> \in granted
    BY <1>0 DEF InvitedAreGranted
  <2>2. <<p, u>> \in {o} \X us => p = o /\ <<p, u>>[2] = u
    OBVIOUS
  <2> QED BY <1>3, <2>1, <2>2
<1>10. Limited(o)'
  <2>1. Limited(o)
    BY OneByOne DEF OrganizationsInv
  <2>2. Cardinality(StaffOf(o) \ us) <= Cardinality(StaffOf(o)) /\ Cardinality(StaffOf(o) \ us) \in Nat
    BY CountsGrow, CountsAreNumbers
  <2>3. Cardinality(StaffOf(o)) \in Nat /\ Cardinality(Invited(o)) \in Nat /\ Limit(o) \in Nat
    BY <1>0, CountsAreNumbers, NumbersOfARow
  <2>4. Limit(o)' = Limit(o) /\ (Running(o)' <=> Running(o))
    BY <1>3 DEF Limit, Running
  <2>5. Cardinality(StaffOf(o)) + Cardinality(Invited(o)) <= Limit(o) =>
          Cardinality(StaffOf(o) \ us) + Cardinality(Invited(o)) <= Limit(o)
    BY <2>2, <2>3
  <2>6. QED BY <1>3, <1>7, <2>1, <2>4, <2>5 DEF Limited
<1>11. Running(o) => StaffOf(o)' # {} \/ o \in crossed'
  <2>1. Counted(x)
    BY DEF OrganizationsInv
  <2> QED BY <1>1, <1>2, <1>3, <1>7, <2>1 DEF Counted
<1>12. \A y \in Actors : acting[y].op = "schedule" => Kept(y, o, {})
  BY <1>3, <1>4 DEF Kept
<1>13. relaxed' = relaxed /\ crossed' \in {crossed, crossed \cup {o}}
  BY <1>3
<1>14. \A y \in Actors : acting'[y] = Rest \/ Kept(y, o, {"remove", "invite"})
  BY <1>4
<1>15. QED BY <1>1, <1>3, <1>4, <1>5, <1>6, <1>8, <1>9, <1>10, <1>11, <1>12, <1>13, <1>14, StaffStep

LEMMA AddStaffsInv ==
    ASSUME OrganizationsInv, NEW o \in OrganizationIDs, NEW u \in Users, AddStaffs(o, u)
    PROVE  OrganizationsInv'
<1>0. OrganizationsTypeOK /\ StaffAreInvited /\ InvitedAreGranted
  BY DEF OrganizationsInv
<1>1. /\ Running(o) /\ staff' = staff \cup {<<o, u>>} /\ granted' = granted \cup {<<o, u>>}
      /\ relaxed' = relaxed \cup {o} /\ Meanwhile(o, {"remove", "invite"})
      /\ UNCHANGED <<organization, invitation, scheduled, sent, revived, crossed, halved>>
  BY DEF AddStaffs
<1>2. acting' \in [Actors -> Request] /\ \A y \in Actors : Kept(y, o, {"remove", "invite"})
  BY <1>0, <1>1, MeanwhileKeeps
<1>3. /\ staff' \subseteq OrganizationIDs \X Users /\ granted' \subseteq OrganizationIDs \X Users
      /\ {staff', granted', revived'} \subseteq SUBSET (OrganizationIDs \X Users)
      /\ {invitation', sent'} \subseteq [OrganizationIDs -> [Users -> 0 .. MaxInvitations]]
  BY <1>0, <1>1, OrganizationsVariables
<1>4. Elsewhere(o)
  BY <1>0, <1>1, <1>3, StaffElsewhere
<1>5. StaffAreInvited' /\ InvitedAreGranted'
  BY <1>0, <1>1 DEF StaffAreInvited, InvitedAreGranted
<1>6. StaffOf(o)' # {}
  BY <1>1 DEF StaffOf
<1>7. Limited(o)'
  BY <1>1 DEF Limited
<1>8. organization[o].state # "new"
  BY <1>1 DEF Running
<1>9. \A y \in Actors : acting[y].op = "schedule" => Kept(y, o, {})
  BY <1>2 DEF Kept
<1>10. QED BY <1>1, <1>2, <1>3, <1>4, <1>5, <1>6, <1>7, <1>8, <1>9, StaffStep

LEMMA CreateStaffInvitationsInv ==
    ASSUME OrganizationsInv, NEW x \in Actors, CreateStaffInvitations(x)
    PROVE  OrganizationsInv'
<1>0. OrganizationsTypeOK /\ StaffAreInvited /\ InvitedAreGranted /\ MaxInvitations \in Nat
  BY OrganizationsConstants DEF OrganizationsInv
<1>1. PICK o \in OrganizationIDs : o = acting[x].organization /\ organization[o].state # "new"
  BY OneOrganization DEF CreateStaffInvitations
<1>2. PICK us \in SUBSET Users : us = acting[x].users
  BY <1>0, RequestTypes DEF Request
<1> DEFINE counts == [u \in Users |-> IF u \in us THEN sent[o][u] + 1 ELSE sent[o][u]]
           invited == [u \in Users |-> IF u \in us THEN counts[u] ELSE invitation[o][u]]
<1>3. /\ acting[x].op = "invite" /\ Running(o) /\ us \cap Invited(o) = {}
      /\ \A u \in us : sent[o][u] < MaxInvitations
      /\ granted' = granted \cup ({o} \X us)
      /\ relaxed' = IF acting[x].stale THEN relaxed \cup {o} ELSE relaxed
      /\ Done(x, o, {"invite"})
      /\ UNCHANGED <<organization, staff, scheduled, revived, crossed, halved>>
  BY <1>1, <1>2 DEF CreateStaffInvitations, Excess
<1>4. /\ invitation \in [OrganizationIDs -> [Users -> 0 .. MaxInvitations]]
      /\ sent \in [OrganizationIDs -> [Users -> 0 .. MaxInvitations]]
  BY <1>0, OrganizationsVariables
<1>5. sent' = [sent EXCEPT ![o] = counts]
  BY <1>1, <1>2, <1>4 DEF CreateStaffInvitations
<1>6. sent'[o] = counts
  BY <1>4, <1>5
<1>7. invitation' = [invitation EXCEPT ![o] = invited]
  BY <1>1, <1>2, <1>4, <1>6 DEF CreateStaffInvitations
<1>8. \A u \in Users : /\ counts[u] \in 0 .. MaxInvitations
                       /\ u \in us => counts[u] # 0
  <2> SUFFICES ASSUME NEW u \in Users
               PROVE  counts[u] \in 0 .. MaxInvitations /\ (u \in us => counts[u] # 0)
    OBVIOUS
  <2>1. sent[o][u] \in 0 .. MaxInvitations
    BY <1>4
  <2> QED BY <1>0, <1>3, <2>1
<1>9. counts \in [Users -> 0 .. MaxInvitations] /\ invited \in [Users -> 0 .. MaxInvitations]
      /\ \A u \in Users : invited[u] # 0 <=> u \in us \/ invitation[o][u] # 0
  BY <1>4, <1>8
<1> HIDE DEF counts, invited
<1>10. /\ invitation' \in [OrganizationIDs -> [Users -> 0 .. MaxInvitations]]
       /\ sent' \in [OrganizationIDs -> [Users -> 0 .. MaxInvitations]]
       /\ invitation'[o] = invited
       /\ \A p \in OrganizationIDs \ {o} : invitation'[p] = invitation[p]
  BY <1>4, <1>5, <1>7, <1>9
<1>11. /\ acting' \in [Actors -> Request] /\ acting'[x] = Rest
       /\ \A y \in Actors \ {x} : Kept(y, o, {"invite"})
  BY <1>0, <1>3, DoneKeeps
<1>12. {staff', granted', revived'} \subseteq SUBSET (OrganizationIDs \X Users)
       /\ {invitation', sent'} \subseteq [OrganizationIDs -> [Users -> 0 .. MaxInvitations]]
  BY <1>0, <1>3, <1>10, OrganizationsVariables
<1>13. Elsewhere(o)
  BY <1>0, <1>3, <1>10, <1>12, StaffElsewhere
<1>14. StaffOf(o)' = StaffOf(o) /\ Invited(o)' = Invited(o) \cup us
  BY <1>3, <1>9, <1>10 DEF StaffOf, Invited
<1>15. StaffAreInvited'
  BY <1>0, <1>3 DEF StaffAreInvited
<1>16. InvitedAreGranted'
  <2> SUFFICES ASSUME NEW p \in OrganizationIDs, NEW u \in Users, invitation'[p][u] # 0
               PROVE  <<p, u>> \in granted'
    BY DEF InvitedAreGranted
  <2>1. (p = o /\ u \in us) \/ invitation[p][u] # 0
    BY <1>9, <1>10
  <2>2. invitation[p][u] # 0 => <<p, u>> \in granted
    BY <1>0 DEF InvitedAreGranted
  <2> QED BY <1>3, <2>1, <2>2
<1>17. Limited(o)'
  <2> SUFFICES ASSUME o \notin relaxed' PROVE Limited(o)'
    BY DEF Limited
  <2>1. ~acting[x].stale /\ o \notin relaxed
    BY <1>3
  <2>2. Counted(x) /\ Limited(o)
    BY OneByOne DEF OrganizationsInv
  <2>3. Cardinality(us) + Cardinality(StaffOf(o)) + Cardinality(Invited(o)) <= Limit(o)
    BY <1>1, <1>2, <1>3, <2>1, <2>2 DEF Counted
  <2>4. Cardinality(Invited(o) \cup us) = Cardinality(Invited(o)) + Cardinality(us)
    BY <1>3, CountsGrow, CountsAreNumbers
  <2>5. /\ Cardinality(StaffOf(o)) \in Nat /\ Cardinality(Invited(o)) \in Nat
        /\ Cardinality(us) \in Nat /\ Limit(o) \in Nat
    BY <1>0, CountsAreNumbers, NumbersOfARow
  <2>6. Cardinality(StaffOf(o)) + Cardinality(Invited(o) \cup us) <= Limit(o)
    BY <2>3, <2>4, <2>5
  <2>7. Limit(o)' = Limit(o)
    BY <1>3 DEF Limit
  <2>8. QED BY <1>3, <1>14, <2>1, <2>2, <2>6, <2>7 DEF Limited
<1>18. Running(o) => StaffOf(o)' # {} \/ o \in crossed'
  <2>1. IsRun(o)
    BY OneByOne DEF OrganizationsInv
  <2> QED BY <1>3, <1>14, <2>1 DEF IsRun
<1>19. \A y \in Actors : acting[y].op = "schedule" => Kept(y, o, {})
  BY <1>3, <1>11 DEF Kept
<1>20. \A y \in Actors : acting'[y] = Rest \/ Kept(y, o, {"invite"})
  BY <1>11
<1>21. relaxed' \in {relaxed, relaxed \cup {o}} /\ StaffOf(o) \subseteq StaffOf(o)'
  BY <1>3, <1>14
<1>22. QED BY <1>1, <1>3, <1>11, <1>12, <1>13, <1>15, <1>16, <1>17, <1>18, <1>19, <1>20, <1>21, StaffStep

\* An invitation that is withdrawn was there; the others stay.
LEMMA Withdrawn ==
    ASSUME OrganizationsInv, NEW x \in Actors, NEW o \in OrganizationIDs,
           o = acting[x].organization, NEW us \in SUBSET Users, us = acting[x].users,
           invitation' = Withdraw(x)
    PROVE  /\ invitation' \in [OrganizationIDs -> [Users -> 0 .. MaxInvitations]]
           /\ \A p \in OrganizationIDs \ {o} : invitation'[p] = invitation[p]
           /\ \A u \in Users : invitation'[o][u] = IF u \in us /\ invitation[o][u] = acting[x].id
                                                   THEN 0 ELSE invitation[o][u]
<1>1. invitation \in [OrganizationIDs -> [Users -> 0 .. MaxInvitations]] /\ MaxInvitations \in Nat
  BY OrganizationsVariables, OrganizationsConstants DEF OrganizationsInv
<1> DEFINE left == [u \in Users |-> IF u \in us /\ invitation[o][u] = acting[x].id
                                    THEN 0 ELSE invitation[o][u]]
<1>2. invitation' = [invitation EXCEPT ![o] = left]
  BY <1>1 DEF Withdraw
<1>3. left \in [Users -> 0 .. MaxInvitations]
  BY <1>1
<1>4. \A u \in Users : left[u] = IF u \in us /\ invitation[o][u] = acting[x].id
                                 THEN 0 ELSE invitation[o][u]
  OBVIOUS
<1> HIDE DEF left
<1>5. invitation'[o] = left
  BY <1>1, <1>2
<1>6. QED BY <1>1, <1>2, <1>3, <1>4, <1>5

LEMMA DeclineInvitationInv ==
    ASSUME OrganizationsInv, NEW x \in Actors, DeclineInvitation(x)
    PROVE  OrganizationsInv'
<1>0. OrganizationsTypeOK /\ StaffAreInvited /\ InvitedAreGranted
  BY DEF OrganizationsInv
<1>1. PICK o \in OrganizationIDs : o = acting[x].organization /\ organization[o].state # "new"
  BY OneOrganization DEF DeclineInvitation
<1>2. PICK us \in SUBSET Users : us = acting[x].users
  BY <1>0, RequestTypes DEF Request
<1> DEFINE out == {v \in us \ StaffOf(o) : invitation'[o][v] = 0}
<1>3. /\ acting[x].op = "decline" /\ invitation' = Withdraw(x)
      /\ granted' = granted \ {<<o, u>> : u \in out}
      /\ Done(x, o, {"invite"})
      /\ UNCHANGED <<organization, staff, scheduled, sent, revived, relaxed, crossed, halved>>
  BY <1>1, <1>2 DEF DeclineInvitation
<1>4. /\ invitation' \in [OrganizationIDs -> [Users -> 0 .. MaxInvitations]]
      /\ \A p \in OrganizationIDs \ {o} : invitation'[p] = invitation[p]
      /\ \A u \in Users : invitation'[o][u] # 0 => invitation[o][u] # 0
  BY <1>1, <1>2, <1>3, Withdrawn
<1>5. /\ acting' \in [Actors -> Request] /\ acting'[x] = Rest
      /\ \A y \in Actors \ {x} : Kept(y, o, {"invite"})
  BY <1>0, <1>3, DoneKeeps
<1>6. {staff', granted', revived'} \subseteq SUBSET (OrganizationIDs \X Users)
      /\ {invitation', sent'} \subseteq [OrganizationIDs -> [Users -> 0 .. MaxInvitations]]
  BY <1>0, <1>3, <1>4, OrganizationsVariables
<1>7. Elsewhere(o)
  BY <1>0, <1>3, <1>4, <1>6, StaffElsewhere
<1>8. StaffOf(o)' = StaffOf(o) /\ Invited(o)' \subseteq Invited(o)
  BY <1>3, <1>4 DEF StaffOf, Invited
<1>9. \A u \in out : u \in Users /\ <<o, u>> \notin staff /\ invitation'[o][u] = 0
  BY DEF StaffOf
<1> HIDE DEF out
<1>10. StaffAreInvited'
  BY <1>0, <1>3, <1>9 DEF StaffAreInvited
<1>11. InvitedAreGranted'
  <2> SUFFICES ASSUME NEW p \in OrganizationIDs, NEW u \in Users, invitation'[p][u] # 0
               PROVE  <<p, u>> \in granted'
    BY DEF InvitedAreGranted
  <2>1. invitation[p][u] # 0
    BY <1>4
  <2>2. <<p, u>> \notin {<<o, v>> : v \in out}
    BY <1>9
  <2>3. QED BY <1>0, <1>3, <2>1, <2>2 DEF InvitedAreGranted
<1>12. Limited(o)'
  <2>1. Limited(o)
    BY OneByOne DEF OrganizationsInv
  <2>2. Cardinality(Invited(o)') <= Cardinality(Invited(o)) /\ Cardinality(Invited(o)') \in Nat
    BY <1>8, CountsAreNumbers, FS_Subset
  <2>3. Cardinality(StaffOf(o)) \in Nat /\ Cardinality(Invited(o)) \in Nat /\ Limit(o) \in Nat
    BY <1>0, CountsAreNumbers, NumbersOfARow
  <2>4. Limit(o)' = Limit(o) /\ (Running(o)' <=> Running(o))
    BY <1>3 DEF Limit, Running
  <2>5. Cardinality(StaffOf(o)) + Cardinality(Invited(o)) <= Limit(o) =>
          Cardinality(StaffOf(o)) + Cardinality(Invited(o)') <= Limit(o)
    BY <2>2, <2>3
  <2>6. QED BY <1>3, <1>8, <2>1, <2>4, <2>5 DEF Limited
<1>13. Running(o) => StaffOf(o)' # {} \/ o \in crossed'
  <2>1. IsRun(o)
    BY OneByOne DEF OrganizationsInv
  <2> QED BY <1>3, <1>8, <2>1 DEF IsRun
<1>14. \A y \in Actors : acting[y].op = "schedule" => Kept(y, o, {})
  BY <1>3, <1>5 DEF Kept
<1>15. \A y \in Actors : acting'[y] = Rest \/ Kept(y, o, {"invite"})
  BY <1>5
<1>16. QED BY <1>1, <1>3, <1>5, <1>6, <1>7, <1>8, <1>10, <1>11, <1>12, <1>13, <1>14, <1>15, StaffStep

\* An invitation that is still there becomes staff, and counts as before.
LEMMA CreateStaffInv ==
    ASSUME OrganizationsInv, NEW x \in Actors, CreateStaff(x)
    PROVE  OrganizationsInv'
<1>0. OrganizationsTypeOK /\ StaffAreInvited /\ InvitedAreGranted
  BY DEF OrganizationsInv
<1>1. PICK o \in OrganizationIDs : o = acting[x].organization /\ organization[o].state # "new"
  BY OneOrganization DEF CreateStaff
<1>2. PICK us \in SUBSET Users : us = acting[x].users
  BY <1>0, RequestTypes DEF Request
<1> DEFINE withdrawn == {u \in us : invitation[o][u] # acting[x].id}
<1>3. /\ acting[x].op = "accept" /\ Running(o) /\ us \cap StaffOf(o) = {}
      /\ invitation' = Withdraw(x) /\ staff' = staff \cup ({o} \X us)
      /\ revived' = revived \cup ({o} \X withdrawn)
      /\ relaxed' = IF withdrawn = {} THEN relaxed ELSE relaxed \cup {o}
      /\ Done(x, o, {"remove", "invite"})
      /\ UNCHANGED <<organization, scheduled, sent, granted, crossed, halved>>
  BY <1>1, <1>2 DEF CreateStaff
<1>4. /\ invitation' \in [OrganizationIDs -> [Users -> 0 .. MaxInvitations]]
      /\ \A p \in OrganizationIDs \ {o} : invitation'[p] = invitation[p]
      /\ \A u \in Users : invitation'[o][u] = IF u \in us /\ u \notin withdrawn
                                              THEN 0 ELSE invitation[o][u]
  BY <1>1, <1>2, <1>3, Withdrawn
<1>5. /\ acting' \in [Actors -> Request] /\ acting'[x] = Rest
      /\ \A y \in Actors \ {x} : Kept(y, o, {"remove", "invite"})
  BY <1>0, <1>3, DoneKeeps
<1>6. acting[x].id # 0
  BY <1>3 DEF OrganizationsInv, Counted
<1>7. withdrawn \subseteq us /\ \A u \in us \ withdrawn : invitation[o][u] # 0
  BY <1>6
<1> HIDE DEF withdrawn
<1>8. {staff', granted', revived'} \subseteq SUBSET (OrganizationIDs \X Users)
      /\ {invitation', sent'} \subseteq [OrganizationIDs -> [Users -> 0 .. MaxInvitations]]
  BY <1>0, <1>3, <1>4, <1>7, OrganizationsVariables
<1>9. Elsewhere(o)
  <2>1. staff' \subseteq OrganizationIDs \X Users
    BY <1>8
  <2>2. \A g \in OrganizationIDs \X Users : g[1] # o => (g \in staff' <=> g \in staff)
    BY <1>3
  <2> QED BY <1>0, <1>3, <1>4, <2>1, <2>2, StaffElsewhere
<1>10. StaffOf(o)' = StaffOf(o) \cup us
  BY <1>3 DEF StaffOf
<1>11. withdrawn = {} => us \subseteq Invited(o) /\ Invited(o)' = Invited(o) \ us
  BY <1>4, <1>7 DEF Invited
<1>12. StaffAreInvited'
  <2> SUFFICES ASSUME NEW g \in staff' PROVE g \in granted' \cup revived'
    BY DEF StaffAreInvited
  <2>1. CASE g \in staff
    BY <1>0, <1>3, <2>1 DEF StaffAreInvited
  <2>2. CASE g \in {o} \X withdrawn
    BY <1>3, <2>2
  <2>3. CASE g \in {o} \X (us \ withdrawn)
    <3>1. PICK u \in us \ withdrawn : g = <<o, u>>
      BY <2>3
    <3> QED BY <1>0, <1>3, <1>7, <3>1 DEF InvitedAreGranted
  <2>4. QED BY <1>3, <1>7, <2>1, <2>2, <2>3
<1>13. InvitedAreGranted'
  <2>1. \A p \in OrganizationIDs, u \in Users : invitation'[p][u] # 0 => invitation[p][u] # 0
    BY <1>4
  <2> QED BY <1>0, <1>3, <2>1 DEF InvitedAreGranted
<1>14. Limited(o)'
  <2> SUFFICES ASSUME o \notin relaxed' PROVE Limited(o)'
    BY DEF Limited
  <2>1. withdrawn = {} /\ o \notin relaxed
    BY <1>3
  <2>2. Limited(o)
    BY OneByOne DEF OrganizationsInv
  <2>3. Cardinality(StaffOf(o) \cup us) = Cardinality(StaffOf(o)) + Cardinality(us)
    BY <1>3, CountsGrow, CountsAreNumbers
  <2>4. Cardinality(Invited(o) \ us) = Cardinality(Invited(o)) - Cardinality(us)
    BY <1>11, <2>1, CountsGrow, CountsAreNumbers
  <2>5. /\ Cardinality(StaffOf(o)) \in Nat /\ Cardinality(Invited(o)) \in Nat
        /\ Cardinality(us) \in Nat /\ Limit(o) \in Nat
    BY <1>0, CountsAreNumbers, NumbersOfARow
  <2>6. Cardinality(StaffOf(o) \cup us) + Cardinality(Invited(o) \ us)
          = Cardinality(StaffOf(o)) + Cardinality(Invited(o))
    BY <2>3, <2>4, <2>5
  <2>7. Limit(o)' = Limit(o)
    BY <1>3 DEF Limit
  <2>8. StaffOf(o)' = StaffOf(o) \cup us /\ Invited(o)' = Invited(o) \ us
    BY <1>10, <1>11, <2>1
  <2>9. QED BY <1>3, <2>1, <2>2, <2>6, <2>7, <2>8 DEF Limited
<1>15. Running(o) => StaffOf(o)' # {} \/ o \in crossed'
  <2>1. IsRun(o)
    BY OneByOne DEF OrganizationsInv
  <2> QED BY <1>3, <1>10, <2>1 DEF IsRun
<1>16. \A y \in Actors : acting[y].op = "schedule" => Kept(y, o, {})
  BY <1>3, <1>5 DEF Kept
<1>17. \A y \in Actors : acting'[y] = Rest \/ Kept(y, o, {"remove", "invite"})
  BY <1>5
<1>18. relaxed' \in {relaxed, relaxed \cup {o}} /\ crossed' = crossed
  BY <1>3
<1>19. QED BY <1>1, <1>3, <1>5, <1>8, <1>9, <1>12, <1>13, <1>14, <1>15, <1>16, <1>17, <1>18, StaffStep

-----------------------------------------------------------------------------
(***************************************************************************)
(* Every request, whatever others do between its check and its write,      *)
(* leaves the organizations as they must be: what the requests of          *)
(* pkg/services/organizations do, and their failures.                      *)
(***************************************************************************)
THEOREM OrganizationsStepInv ==
    OrganizationsInv /\ [OrganizationsNext]_organizationsVars => OrganizationsInv'
<1> SUFFICES ASSUME OrganizationsInv, [OrganizationsNext]_organizationsVars
             PROVE  OrganizationsInv'
  OBVIOUS
<1>1. CASE UNCHANGED organizationsVars
  <2> USE <1>1 DEF organizationsVars, Running, StaffOf, Invited, Limit
  <2>1. OrganizationsTypeOK' /\ StaffAreInvited' /\ InvitedAreGranted' /\ NewIsEmpty'
    BY DEF OrganizationsInv, OrganizationsTypeOK, StaffAreInvited, InvitedAreGranted, NewIsEmpty
  <2>2. \A x \in Actors : Counted(x)'
    BY DEF OrganizationsInv, Counted
  <2>3. LimitsAreKept'
    BY DEF OrganizationsInv, LimitsAreKept
  <2>4. OrganizationsAreRun'
    BY DEF OrganizationsInv, OrganizationsAreRun
  <2>5. QED BY <2>1, <2>2, <2>3, <2>4 DEF OrganizationsInv
<1>2. ASSUME NEW o \in OrganizationIDs,
             \/ DeleteWebsite(o) \/ DeleteApiKey(o)
             \/ \E u \in Users : CreateOrganization(o, u) \/ AddStaffs(o, u)
             \/ \E paid \in BOOLEAN, slots \in 0 .. MaxSlots : UpdateOrganization(o, paid, slots)
      PROVE  OrganizationsInv'
  BY <1>2, DeletesInv, CreateOrganizationInv, AddStaffsInv, UpdateOrganizationInv
<1>3. ASSUME NEW x \in Actors, NEW o \in OrganizationIDs,
             \/ DeleteOrganization(x, o) \/ CreateWebsite(x, o) \/ CreateApiKey(x, o)
             \/ \E us \in SUBSET Users : InviteStaffs(x, o, us)
             \/ \E u \in Users : \/ RemoveStaff(x, o, u) \/ AcceptStaffInvitation(x, o, u)
                                 \/ DeleteStaffInvitation(x, o, u)
      PROVE  OrganizationsInv'
  BY <1>3, ChecksInv
<1>4. ASSUME NEW x \in Actors,
             \/ DeleteOrganizationRow(x) \/ ScheduleDeletionOfOrganizationData(x)
             \/ DeleteStaff(x) \/ CreateStaffInvitations(x) \/ DeclineInvitation(x)
             \/ CreateStaff(x) \/ InsertWebsite(x) \/ InsertApiKey(x) \/ Abort(x)
      PROVE  OrganizationsInv'
  BY <1>4, DeleteOrganizationRowInv, EndsInv, DeleteStaffInv, CreateStaffInvitationsInv,
     DeclineInvitationInv, CreateStaffInv, InsertsInv
<1>5. QED BY <1>1, <1>2, <1>3, <1>4 DEF OrganizationsNext

(***************************************************************************)
(* The rows, staff, invitations and requests are always what the tables    *)
(* and the handlers of organizations hold.                                 *)
(***************************************************************************)
THEOREM OrganizationsTypes == OrganizationsSpec => []OrganizationsTypeOK
<1>1. OrganizationsInv => OrganizationsTypeOK
  BY DEF OrganizationsInv
<1>2. QED BY <1>1, OrganizationsInitInv, OrganizationsStepInv, PTL DEF OrganizationsSpec

(***************************************************************************)
(* Nobody is staff who wasn't asked in, and no organization has more       *)
(* staff, websites or API keys than it may, but for the requests that were *)
(* counted at the same time: InviteStaffs, AcceptStaffInvitation and       *)
(* CreateWebsite count without a lock, and write later.                    *)
(***************************************************************************)
THEOREM StaffWithinLimits == OrganizationsSpec => []StaffAreInvitedWithinLimits
<1>1. OrganizationsInv => StaffAreInvitedWithinLimits
  BY DEF OrganizationsInv, StaffAreInvitedWithinLimits
<1>2. QED BY <1>1, OrganizationsInitInv, OrganizationsStepInv, PTL DEF OrganizationsSpec

(***************************************************************************)
(* An organization that isn't deleted has staff, and one that is deleted   *)
(* leaves no website and no plan to pay, and its events are to be deleted, *)
(* unless two of its requests crossed or the transaction failed, which     *)
(* doesn't undo the deletion of its row.                                   *)
(***************************************************************************)
THEOREM OrganizationsHaveStaff == OrganizationsSpec => []OrganizationsAreRun
<1>1. OrganizationsInv => OrganizationsAreRun
  BY DEF OrganizationsInv
<1>2. QED BY <1>1, OrganizationsInitInv, OrganizationsStepInv, PTL DEF OrganizationsSpec

=============================================================================
