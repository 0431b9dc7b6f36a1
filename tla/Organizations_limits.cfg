SPECIFICATION Spec
CONSTANTS
  Orgs = {o1}
  Users = {"ann", "bob", "cyd"}
  Members = {m1, m2, m3}
  Invites = {i1, i2, i3}
  Requests = {p1, p2}
  NoOrg = NoOrg
  NoUser = NoUser
  NoMember = NoMember
  NoInvite = NoInvite
  Grants <- MCMember
  CreatorRole = "owner"
  OrganizationLimit = 1
  MembershipLimit = 2
  InvitationLimit = 2
  Faults = FALSE
  Ops = {"create", "invite", "accept", "cancel"}
  o1 = o1
  m1 = m1
  m2 = m2
  m3 = m3
  m4 = m4
  i1 = i1
  i2 = i2
  i3 = i3
  p1 = p1
  p2 = p2
  p3 = p3
SYMMETRY SymAll
PROPERTY LimitKept
PROPERTY InvitesKept
CHECK_DEADLOCK FALSE
