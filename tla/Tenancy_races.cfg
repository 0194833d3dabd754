\* One organization and one API key, two requests at a time.
CONSTANTS
  p1 = p1
  p2 = p2
  o1 = o1
  o2 = o2
  k1 = k1
  a = a
  q1 = q1
  q2 = q2
  None = None
  People = {p1, p2}
  Orgs = {o1, o2}
  Sessions = {}
  Messages = {}
  RunIds = {}
  Keys = {k1}
  Slugs = {a}
  Requests = {q1, q2}
  Granted = {"MEMBER", "ADMIN"}
  Operations = {"createOrganization", "addMember", "createKey", "revokeKey", "authenticate"}
  Recorded = {"api_key.revoked"}
SPECIFICATION Spec
SYMMETRY Symmetry
INVARIANTS TypeOK OrganizationsOwned MembersLetIn RevokedKeyRefused
