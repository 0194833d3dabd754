\* Two organizations, a session with a message or a run in one of them, one request at a time.
\* getSession and getRun are the first steps of updateSession and cancelRun.
CONSTANTS
  p1 = p1
  p2 = p2
  o1 = o1
  o2 = o2
  s1 = s1
  m1 = m1
  x1 = x1
  a = a
  b = b
  q1 = q1
  None = None
  People = {p1, p2}
  Orgs = {o1, o2}
  Sessions = {s1}
  Messages = {m1}
  RunIds = {x1}
  Keys = {}
  Slugs = {a, b}
  Requests = {q1}
  Granted = {"MEMBER"}
  Operations = {"createOrganization", "addMember", "createSession", "updateSession", "createMessage", "createRun", "listRuns", "cancelRun"}
  Recorded = {}
SPECIFICATION Spec
CONSTRAINT MessageOrRun
SYMMETRY Symmetry
INVARIANTS RolesFollowRows SessionsPrivate RulesNoWider AnsweredMirrored
