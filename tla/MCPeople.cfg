CONSTANTS
  ContactIDs = {c1, c2}
  Emails = {e1, e2}
  Requests = {x1, x2}
  SessionIDs = {1, 2}
  LoginMaxAttempts = 1
  SignupMaxAttempts = 1
  MaxSessions = 1
  MaxGuesses = 2
  NoContact = NoContact
  NoSession = 0
  NoEmail = NoEmail
  OrganizationIDs = {o1}
  Users = {u1, u2, u3}
  Actors = {y1, y2}
  MaxSlots = 1
  MaxApiKeys = 1
  MaxInvitations = 2
  NoOrganization = NoOrganization
  Websites = {w1, w2}
  Domains = {d1, d2}
  Callers = {k1, k2}
  Mails = {m1}
  NoWebsite = NoWebsite
  NoDomain = NoDomain
  Platform = Platform
  Visitors = {v1}
  Calls = {z1, z2}
  Period = 3
  Allowed = 2
  MaxInstant = 8
  NoRequest = NoRequest
  NoInstant = NoInstant
  c1 = c1
  c2 = c2
  e1 = e1
  x1 = x1
  w1 = w1
  d1 = d1
  k1 = k1
SPECIFICATION MCSpec
SYMMETRY Symmetry
INVARIANTS
  PeopleTypeOK
  BlockedIsOut
  VerifiedIsProven
  AttemptsAreLimited
  StaffAreInvitedWithinLimits
  OrganizationsAreRun
  MailDomainsAreKept
CHECK_DEADLOCK FALSE
