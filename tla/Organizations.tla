--------------------------- MODULE Organizations ---------------------------
(***************************************************************************)
(* Organizations and who runs them, pkg/services/organizations: staff and  *)
(* invitations, the limits of a plan, API keys, and the deletion of an     *)
(* organization.                                                           *)
(*                                                                         *)
(* Each request reads what it checks without a lock and then writes.  All  *)
(* staff are administrators, which is the only role that is given.  Left   *)
(* out: names, the lookup of emails and users at Pingoo, the emails of     *)
(* invitations, the limit on free organizations (an organization starts    *)
(* free whatever plan was asked for) and payments that are due.  A user is *)
(* known by one email.                                                     *)
(***************************************************************************)
EXTENDS Naturals, FiniteSets

CONSTANTS
    OrganizationIDs, Users, Actors,
    MaxSlots,        \* bound: extra slots of a plan
    MaxApiKeys,      \* how many API keys an organization may have
    MaxInvitations,  \* bound: invitations of a user by an organization
    NoOrganization

ASSUME OrganizationsAssumption ==
    /\ {MaxSlots, MaxApiKeys, MaxInvitations} \subseteq Nat
    /\ NoOrganization \notin OrganizationIDs /\ IsFiniteSet(Users)

VARIABLES
    organization,  \* organization[o]: the row, and how many websites and keys it has
    staff,         \* <<o, u>>: u is staff of o
    invitation,    \* invitation[o][u]: the ID of the invitation, 0 if none
    acting,        \* acting[x]: what the request x is about to write
    scheduled,     \* organizations whose events are to be deleted
    sent,          \* sent[o][u]: invitations so far
    granted,       \* <<o, u>>: u was asked in, and not out since
    revived,       \* who accepted an invitation that was withdrawn meanwhile
    relaxed,       \* organizations that got more than was counted
    crossed,       \* organizations where a removal or deletion had read what was no more
    halved         \* organizations deleted by a transaction that failed

organizationsVars == <<organization, staff, invitation, acting, scheduled, sent, granted,
                       revived, relaxed, crossed, halved>>

ghostVars == <<sent, granted, revived, relaxed, crossed, halved>>

Organization == [state : {"new", "live", "gone"}, paid : BOOLEAN, slots : 0 .. MaxSlots,
                 websites : Nat, keys : Nat]

Rest == [op |-> "none", organization |-> NoOrganization, users |-> {}, id |-> 0,
         stale |-> FALSE]

OrganizationsInit ==
    /\ organization = [o \in OrganizationIDs |-> [state |-> "new", paid |-> FALSE, slots |-> 0,
                                                  websites |-> 0, keys |-> 0]]
    /\ staff = {} /\ scheduled = {}
    /\ invitation = [o \in OrganizationIDs |-> [u \in Users |-> 0]]
    /\ acting = [x \in Actors |-> Rest]
    /\ sent = [o \in OrganizationIDs |-> [u \in Users |-> 0]]
    /\ granted = {} /\ revived = {} /\ relaxed = {} /\ crossed = {} /\ halved = {}

Running(o) == organization[o].state = "live"
StaffOf(o) == {u \in Users : <<o, u>> \in staff}
Invited(o) == {u \in Users : invitation[o][u] # 0}

\* 1 + organization.ExtraSlots, for staff and for websites.
Limit(o) == 1 + organization[o].slots

\* CheckUserIsStaff: somebody of the organization asks.
CheckUserIsStaff(o) == Running(o) /\ StaffOf(o) # {}

Act(x, op, o, us, id) ==
    /\ acting[x].op = "none"
    /\ acting' = [acting EXCEPT ![x] = [op |-> op, organization |-> o, users |-> us, id |-> id,
                                        stale |-> FALSE]]

Changed(y, o, ops) ==
    [acting[y] EXCEPT !.stale = @ \/ (acting[y].organization = o /\ acting[y].op \in ops)]

\* The request x is over; what others about ops had read of o is no more.
Done(x, o, ops) ==
    acting' = [y \in Actors |-> IF y = x THEN Rest ELSE Changed(y, o, ops)]

Meanwhile(o, ops) == acting' = [y \in Actors |-> Changed(y, o, ops)]

Excess(x, o) == relaxed' = IF acting[x].stale THEN relaxed \cup {o} ELSE relaxed

-----------------------------------------------------------------------------
(* Organizations.                                                          *)

CreateOrganization(o, u) ==
    /\ organization[o].state = "new"
    /\ organization' = [organization EXCEPT ![o].state = "live"]
    /\ staff' = staff \cup {<<o, u>>} /\ granted' = granted \cup {<<o, u>>}
    /\ UNCHANGED <<invitation, acting, scheduled, sent, revived, relaxed, crossed, halved>>

\* The plan and its slots, as a site administrator or a subscription sets them.
UpdateOrganization(o, paid, slots) ==
    /\ Running(o)
    /\ organization' = [organization EXCEPT ![o].paid = paid, ![o].slots = slots]
    /\ relaxed' = IF slots < organization[o].slots THEN relaxed \cup {o} ELSE relaxed
    /\ Meanwhile(o, {"invite", "website", "delete"})
    /\ UNCHANGED <<staff, invitation, scheduled, sent, granted, revived, crossed, halved>>

\* Fault: the websites that are left aren't looked at.
DeleteWithWebsites(x, o) ==
    /\ CheckUserIsStaff(o) /\ ~organization[o].paid
    /\ Act(x, "delete", o, {}, 0)
    /\ UNCHANGED <<organization, staff, invitation, scheduled, ghostVars>>

DeleteOrganization(x, o) ==
    /\ CheckUserIsStaff(o)
    /\ organization[o].websites = 0 /\ ~organization[o].paid
    /\ Act(x, "delete", o, {}, 0)
    /\ UNCHANGED <<organization, staff, invitation, scheduled, ghostVars>>

\* Not in the transaction in which the deletion of its events is scheduled.
DeleteOrganizationRow(x) ==
    LET o == acting[x].organization IN
    /\ acting[x].op = "delete" /\ Running(o)
    /\ organization' = [organization EXCEPT ![o].state = "gone"]
    /\ staff' = staff \ ({o} \X Users)
    /\ invitation' = [invitation EXCEPT ![o] = [u \in Users |-> 0]]
    /\ crossed' = IF acting[x].stale THEN crossed \cup {o} ELSE crossed
    /\ acting' = [acting EXCEPT ![x].op = "schedule"]
    /\ UNCHANGED <<scheduled, sent, granted, revived, relaxed, halved>>

ScheduleDeletionOfOrganizationData(x) ==
    LET o == acting[x].organization IN
    /\ acting[x].op = "schedule"
    /\ scheduled' = scheduled \cup {o}
    /\ Done(x, o, {})
    /\ UNCHANGED <<organization, staff, invitation, ghostVars>>

-----------------------------------------------------------------------------
(* Staff and invitations.                                                  *)

\* Fault: the last administrator may go too.
RemoveAnyStaff(x, o, u) ==
    /\ CheckUserIsStaff(o) /\ u \in StaffOf(o)
    /\ Act(x, "remove", o, {u}, 0)
    /\ UNCHANGED <<organization, staff, invitation, scheduled, ghostVars>>

RemoveStaff(x, o, u) ==
    /\ CheckUserIsStaff(o) /\ u \in StaffOf(o)
    /\ Cardinality(StaffOf(o)) >= 2
    /\ Act(x, "remove", o, {u}, 0)
    /\ UNCHANGED <<organization, staff, invitation, scheduled, ghostVars>>

DeleteStaff(x) ==
    LET o    == acting[x].organization
        gone == {o} \X acting[x].users
    IN
    /\ acting[x].op = "remove"
    /\ staff' = staff \ gone
    /\ granted' = granted \ {g \in gone : invitation[o][g[2]] = 0}
    /\ crossed' = IF acting[x].stale THEN crossed \cup {o} ELSE crossed
    /\ Done(x, o, {"remove", "invite"})
    /\ UNCHANGED <<organization, invitation, scheduled, sent, revived, relaxed, halved>>

\* By a site administrator, whatever the limit.
AddStaffs(o, u) ==
    /\ Running(o) /\ u \notin StaffOf(o)
    /\ staff' = staff \cup {<<o, u>>} /\ granted' = granted \cup {<<o, u>>}
    /\ relaxed' = relaxed \cup {o}
    /\ Meanwhile(o, {"remove", "invite"})
    /\ UNCHANGED <<organization, invitation, scheduled, sent, revived, crossed, halved>>

\* Fault: invitations that weren't accepted aren't counted.
InviteUncounted(x, o, us) ==
    /\ CheckUserIsStaff(o) /\ us # {}
    /\ Cardinality(us) + Cardinality(StaffOf(o)) <= Limit(o)
    /\ Act(x, "invite", o, us \ (StaffOf(o) \cup Invited(o)), 0)
    /\ UNCHANGED <<organization, staff, invitation, scheduled, ghostVars>>

\* Users who are staff, or invited, count once more, and get no invitation.
InviteStaffs(x, o, us) ==
    /\ CheckUserIsStaff(o) /\ us # {}
    /\ Cardinality(us) + Cardinality(StaffOf(o)) + Cardinality(Invited(o)) <= Limit(o)
    /\ Act(x, "invite", o, us \ (StaffOf(o) \cup Invited(o)), 0)
    /\ UNCHANGED <<organization, staff, invitation, scheduled, ghostVars>>

\* All or none.
CreateStaffInvitations(x) ==
    LET o  == acting[x].organization
        us == acting[x].users
    IN
    /\ acting[x].op = "invite" /\ Running(o) /\ us \cap Invited(o) = {}
    /\ \A u \in us : sent[o][u] < MaxInvitations
    /\ sent' = [sent EXCEPT ![o] = [u \in Users |-> IF u \in us THEN @[u] + 1 ELSE @[u]]]
    /\ invitation' = [invitation EXCEPT ![o] = [u \in Users |-> IF u \in us THEN sent'[o][u]
                                                                ELSE @[u]]]
    /\ granted' = granted \cup ({o} \X us)
    /\ Excess(x, o)
    /\ Done(x, o, {"invite"})
    /\ UNCHANGED <<organization, staff, scheduled, revived, crossed, halved>>

\* Fault: by anybody who has the ID of the invitation.
AcceptAnyInvitation(x, o, u) ==
    /\ Invited(o) # {}
    /\ Act(x, IF u \in StaffOf(o) THEN "decline" ELSE "accept", o, {u}, invitation[o][u])
    /\ UNCHANGED <<organization, staff, invitation, scheduled, ghostVars>>

\* By the invitee.
AcceptStaffInvitation(x, o, u) ==
    /\ u \in Invited(o)
    /\ Act(x, IF u \in StaffOf(o) THEN "decline" ELSE "accept", o, {u}, invitation[o][u])
    /\ UNCHANGED <<organization, staff, invitation, scheduled, ghostVars>>

\* By the invitee or by staff.
DeleteStaffInvitation(x, o, u) ==
    /\ u \in Invited(o)
    /\ Act(x, "decline", o, {u}, invitation[o][u])
    /\ UNCHANGED <<organization, staff, invitation, scheduled, ghostVars>>

Withdraw(x) ==
    LET o == acting[x].organization IN
    [invitation EXCEPT ![o] = [u \in Users |-> IF u \in acting[x].users /\ @[u] = acting[x].id
                                               THEN 0 ELSE @[u]]]

DeclineInvitation(x) ==
    LET o == acting[x].organization IN
    /\ acting[x].op = "decline"
    /\ invitation' = Withdraw(x)
    /\ granted' = granted \ {<<o, u>> : u \in {v \in acting[x].users \ StaffOf(o) :
                                                 invitation'[o][v] = 0}}
    /\ Done(x, o, {"invite"})
    /\ UNCHANGED <<organization, staff, scheduled, sent, revived, relaxed, crossed, halved>>

\* In one transaction; whether the invitation is still there isn't looked at.
CreateStaff(x) ==
    LET o == acting[x].organization IN
    /\ acting[x].op = "accept" /\ Running(o) /\ acting[x].users \cap StaffOf(o) = {}
    /\ invitation' = Withdraw(x)
    /\ staff' = staff \cup ({o} \X acting[x].users)
    /\ LET withdrawn == {u \in acting[x].users : invitation[o][u] # acting[x].id} IN
       /\ revived' = revived \cup ({o} \X withdrawn)
       /\ relaxed' = IF withdrawn = {} THEN relaxed ELSE relaxed \cup {o}
    /\ Done(x, o, {"remove", "invite"})
    /\ UNCHANGED <<organization, scheduled, sent, granted, crossed, halved>>

-----------------------------------------------------------------------------
(* Websites and API keys: as many as the plan allows.                      *)

CreateWebsite(x, o) ==
    /\ CheckUserIsStaff(o) /\ organization[o].websites < Limit(o)
    /\ Act(x, "website", o, {}, 0)
    /\ UNCHANGED <<organization, staff, invitation, scheduled, ghostVars>>

InsertWebsite(x) ==
    LET o == acting[x].organization IN
    /\ acting[x].op = "website" /\ Running(o)
    /\ organization' = [organization EXCEPT ![o].websites = @ + 1]
    /\ Excess(x, o)
    /\ Done(x, o, {"website", "delete"})
    /\ UNCHANGED <<staff, invitation, scheduled, sent, granted, revived, crossed, halved>>

DeleteWebsite(o) ==
    /\ Running(o) /\ organization[o].websites > 0
    /\ organization' = [organization EXCEPT ![o].websites = @ - 1]
    /\ UNCHANGED <<staff, invitation, acting, scheduled, ghostVars>>

CreateApiKey(x, o) ==
    /\ CheckUserIsStaff(o) /\ organization[o].keys < MaxApiKeys
    /\ Act(x, "key", o, {}, 0)
    /\ UNCHANGED <<organization, staff, invitation, scheduled, ghostVars>>

InsertApiKey(x) ==
    LET o == acting[x].organization IN
    /\ acting[x].op = "key" /\ Running(o)
    /\ organization' = [organization EXCEPT ![o].keys = @ + 1]
    /\ Excess(x, o)
    /\ Done(x, o, {"key"})
    /\ UNCHANGED <<staff, invitation, scheduled, sent, granted, revived, crossed, halved>>

DeleteApiKey(o) ==
    /\ Running(o) /\ organization[o].keys > 0
    /\ organization' = [organization EXCEPT ![o].keys = @ - 1]
    /\ UNCHANGED <<staff, invitation, acting, scheduled, ghostVars>>

\* The database, or the server, fails, or a row that was to be made exists.
Abort(x) ==
    LET o == acting[x].organization IN
    /\ acting[x].op # "none"
    /\ halved' = IF acting[x].op = "schedule" THEN halved \cup {o} ELSE halved
    /\ Done(x, o, {})
    /\ UNCHANGED <<organization, staff, invitation, scheduled, sent, granted, revived, relaxed,
                   crossed>>

-----------------------------------------------------------------------------
OrganizationsNext ==
    \/ \E o \in OrganizationIDs :
         \/ DeleteWebsite(o) \/ DeleteApiKey(o)
         \/ \E u \in Users : CreateOrganization(o, u) \/ AddStaffs(o, u)
         \/ \E paid \in BOOLEAN, slots \in 0 .. MaxSlots : UpdateOrganization(o, paid, slots)
    \/ \E x \in Actors, o \in OrganizationIDs :
         \/ DeleteOrganization(x, o) \/ CreateWebsite(x, o) \/ CreateApiKey(x, o)
         \/ \E us \in SUBSET Users : InviteStaffs(x, o, us)
         \/ \E u \in Users : \/ RemoveStaff(x, o, u) \/ AcceptStaffInvitation(x, o, u)
                             \/ DeleteStaffInvitation(x, o, u)
    \/ \E x \in Actors :
         \/ DeleteOrganizationRow(x) \/ ScheduleDeletionOfOrganizationData(x)
         \/ DeleteStaff(x) \/ CreateStaffInvitations(x) \/ DeclineInvitation(x)
         \/ CreateStaff(x) \/ InsertWebsite(x) \/ InsertApiKey(x) \/ Abort(x)

OrganizationsSpec == OrganizationsInit /\ [][OrganizationsNext]_organizationsVars

Acts == {"none", "delete", "schedule", "remove", "invite", "accept", "decline", "website", "key"}

OrganizationsTypeOK ==
    /\ organization \in [OrganizationIDs -> Organization]
    /\ {staff, granted, revived} \subseteq SUBSET (OrganizationIDs \X Users)
    /\ {invitation, sent} \subseteq [OrganizationIDs -> [Users -> 0 .. MaxInvitations]]
    /\ acting \in [Actors -> [op : Acts, organization : OrganizationIDs \cup {NoOrganization},
                                users : SUBSET Users, id : 0 .. MaxInvitations,
                                stale : BOOLEAN]]
    /\ {scheduled, relaxed, crossed, halved} \subseteq SUBSET OrganizationIDs

StaffAreInvited == staff \subseteq granted \cup revived

LimitsAreKept ==
    \A o \in OrganizationIDs :
        Running(o) /\ o \notin relaxed =>
            /\ Cardinality(StaffOf(o)) + Cardinality(Invited(o)) <= Limit(o)
            /\ organization[o].websites <= Limit(o)
            /\ organization[o].keys <= MaxApiKeys

(***************************************************************************)
(* Nobody is staff who wasn't asked in, by staff or a site administrator,  *)
(* and whoever was put out, or whose invitation was withdrawn, stays out   *)
(* until asked again: only one who was accepting meanwhile comes in.  And  *)
(* an organization never has more staff and invitations, websites or API   *)
(* keys than it may, however invitations are accepted, declined and sent   *)
(* anew, unless requests were counted at the same time, the plan became    *)
(* smaller, or a site administrator added staff.                           *)
(***************************************************************************)
StaffAreInvitedWithinLimits == StaffAreInvited /\ LimitsAreKept

(***************************************************************************)
(* An organization has somebody who runs it until it is deleted.  It is    *)
(* then without websites, whose data its deletion would leave, and without *)
(* a subscription, which nobody could cancel, and its events are to be     *)
(* deleted.  Unless it changed between the check and the deletion, or the  *)
(* transaction failed, which undoes only half of it.                       *)
(***************************************************************************)
OrganizationsAreRun ==
    \A o \in OrganizationIDs :
        /\ Running(o) => StaffOf(o) # {} \/ o \in crossed
        /\ organization[o].state = "gone" =>
             /\ (organization[o].websites = 0 /\ ~organization[o].paid) \/ o \in crossed
             /\ \/ o \in scheduled \cup halved
                \/ \E x \in Actors : acting[x].op = "schedule" /\ acting[x].organization = o

(***************************************************************************)
(* The last administrator of an organization can't be removed from it, as  *)
(* the error says.  The code counts the administrators without a lock:     *)
(* two may remove each other at the same time.                             *)
(***************************************************************************)
LastAdministratorStays == \A o \in OrganizationIDs : Running(o) => StaffOf(o) # {}
=============================================================================
