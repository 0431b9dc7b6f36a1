SPECIFICATION Spec
CONSTANTS
  Orgs = {o1}
  Users = {"ann", "bob"}
  Members = {m1, m2, m3}
  Invites = {i1}
  Requests = {p1, p2}
  NoOrg = NoOrg
  NoUser = NoUser
  NoMember = NoMember
  NoInvite = NoInvite
  Grants <- MCAllRoles
  CreatorRole = "owner"
  OrganizationLimit = 1
  MembershipLimit = 9
  InvitationLimit = 9
  Faults = TRUE
  Ops = {"create", "delete", "leave", "remove", "update_role", "invite", "accept", "reject", "cancel"}
  o1 = o1
  m1 = m1
  m2 = m2
  m3 = m3
  m4 = m4
  i1 = i1
  i2 = i2
  i3 = i3
  p1 = p1
  p2 = p2
  p3 = p3
SYMMETRY SymAll
INVARIANT NothingOutlivesItsOrg
PROPERTY OwnersMakeOwners
PROPERTY JoinsAsInvited
PROPERTY LastOwnerKept
CHECK_DEADLOCK FALSE
