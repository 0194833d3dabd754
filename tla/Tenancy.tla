------------------------------- MODULE Tenancy -------------------------------
(***************************************************************************)
(* The API of one deployment: organizations, members, sessions, messages,  *)
(* runs and API keys, with the requests of any number of replicas interleaved.  *)
(***************************************************************************)
EXTENDS Organizations, Sessions, RunRequests, ApiKeys

EntryStage(op) ==
  CASE op = "authenticate"       -> "findByPrefix"
    [] op = "createOrganization" -> "findSlug"
    [] OTHER                     -> "readCache"

\* A request comes in: JwtAuthGuard verifies the token and provisions the user by
\* an upsert, then OrgMembershipGuard takes over where the route has it.  A request
\* that fails in JwtAuthGuard has done nothing.  authenticate is not on a route.
Come(q, op, who, org, about, granting, before) ==
  /\ requests[q].stage \in {"idle", "outsider", "answered"}
  /\ op \in Operations
  /\ requests' = [requests EXCEPT ![q] =
       [op |-> op, stage |-> EntryStage(op), who |-> who, org |-> org,
        about |-> about, granting |-> granting, role |-> None, made |-> None,
        before |-> before]]
  /\ users' = users \cup ({who} \ {None})
  /\ UNCHANGED <<slugs, members, sessions, messages, runs, keys, audit, docVars, cache,
                 actors>>

Subjects(op) ==
  CASE op = "addMember" -> People
    [] op = "revokeKey" -> Keys
    [] op \in OnSession \cup OnRunsOfSession -> Sessions
    [] op \in OnRun     -> RunIds
    [] OTHER            -> {None}

Request(q) ==
  \/ \E p \in People, slug \in Slugs :
       Come(q, "createOrganization", p, None, slug, None, FALSE)
  \/ \E op \in Guarded, p \in People, o \in Orgs :
       \E about \in Subjects(op) :
       \E granting \in IF op = "addMember" THEN Granted ELSE {None} :
         Come(q, op, p, o, about, granting, members[o][p] # None)
  \/ \E k \in Keys :
       Come(q, "authenticate", None, None, k, None, <<"api_key.revoked", k>> \in audit)

Guard(q) == ReadCache(q) \/ FindMembership(q) \/ FillCache(q)

HandleOrganization(q) ==
  \/ FindSlug(q) \/ InsertOrganization(q)
  \/ FindUser(q) \/ InsertMembership(q) \/ Invalidate(q)
  \/ SetMember(q) \/ Audit(q)

HandleSession(q) ==
  \/ InsertSession(q) \/ FindSession(q) \/ UpdateSession(q)
  \/ InsertMessage(q) \/ AddMessage(q)

HandleRun(q) ==
  \/ FindRunSession(q) \/ InsertRun(q) \/ SetRun(q)
  \/ ListRuns(q) \/ FindRun(q)

HandleKey(q) ==
  \/ InsertKey(q) \/ FindKey(q) \/ RevokeKey(q)
  \/ FindByPrefix(q) \/ TouchKey(q)

Step(q) ==
  \/ Request(q) \/ Guard(q) \/ HandleOrganization(q) \/ HandleSession(q)
  \/ HandleRun(q) \/ HandleKey(q) \/ Throw(q)

Next ==
  \/ \E q \in Requests : Step(q)
  \/ \E o \in Orgs, p \in People : CacheExpires(o, p)

Spec == Init /\ [][Next]_vars

-----------------------------------------------------------------------------
(* Properties.                                                             *)

Absent(S) == S \cup {None}

Stages ==
  {"idle", "outsider", "answered", "readCache", "findMembership",
   "fillCache", "findSlug", "insertOrganization", "findUser", "insertMembership",
   "invalidate", "setMember", "audit", "insertSession", "findSession",
   "updateSession", "insertMessage", "addMessage", "insertKey", "findKey",
   "findRunSession", "insertRun", "setRun", "listRuns", "findRun",
   "revokeKey", "findByPrefix", "touchKey"}

RequestType ==
  [op : AllOperations \cup {"none"}, stage : Stages, who : Absent(People),
   org : Absent(Orgs), about : Absent(Ids), granting : Absent(Roles),
   role : Absent(Roles), made : Absent(Ids), before : BOOLEAN]

\* Every variable has its type; a row or document refers to ids, never to null.
TypeOK ==
  /\ users \subseteq People
  /\ slugs \in [Orgs -> Absent(Slugs)]
  /\ members \in [Orgs -> [People -> Absent(Roles)]]
  /\ sessions \in [Sessions -> Absent(SessionRows)]
  /\ messages \in [Messages -> Absent(Sessions)]
  /\ runs \in [RunIds -> Absent(RunRows)]
  /\ keys \in [Keys -> Absent(KeyRows)]
  /\ memberDocs \in [Orgs -> [People -> Absent(Roles)]]
  /\ messageDocs \in [Messages -> Absent(MessageDocs)]
  /\ runDocs \in [RunIds -> Absent(RunDocs)]
  /\ cache \in [Orgs -> [People -> Absent(Roles)]]
  /\ requests \in [Requests -> RequestType]
  /\ actors \in [Sessions -> SUBSET People]

\* An organization has an owner from the moment it exists, whatever request stops
\* where, and no two organizations have one slug.
OrganizationsOwned ==
  /\ \A o \in Orgs : slugs[o] # None => \E p \in People : members[o][p] = "OWNER"
  /\ \A o1, o2 \in Orgs : slugs[o1] # None /\ slugs[o1] = slugs[o2] => o1 = o2

\* What a request has been let in as, and what the cache will let the next one in
\* as, is the person's role in that organization: an entry is never another
\* organization's, never that of an invited person who is no member.
RolesFollowRows ==
  /\ \A o \in Orgs, p \in People : cache[o][p] # None => cache[o][p] = members[o][p]
  /\ \A q \in Requests :
       LET r == requests[q] IN r.role # None => r.role = members[r.org][r.who]

\* A person who is a member when the request comes in is not turned away as an
\* outsider: absence is never remembered, however lookups and addMember interleave.
MembersLetIn ==
  \A q \in Requests : requests[q].stage = "outsider" => ~ requests[q].before

\* A session, its messages and its runs are read, changed, cancelled and written
\* to by the session's creator and by owners and admins of its organization only.
SessionsPrivate ==
  \A s \in Sessions : \A p \in actors[s] :
    /\ sessions[s] # None
    /\ \/ p = sessions[s].creator
       \/ members[sessions[s].org][p] \in {"OWNER", "ADMIN"}

HasAccess(p, s) ==
  LET session == sessions[s] IN
  /\ members[session.org][p] # None
  /\ CanAccess(session, p, members[session.org][p])

ReadableBy(p, doc) == doc # None /\ CanReadPrivate(p, doc.org, doc.sessionCreator)

\* Firestore shows nobody a message, a run or a step that the API would not: who may
\* read its document by the rules is a member by the rows and may see its session.
RulesNoWider ==
  \A p \in People :
    /\ \A m \in Messages : ReadableBy(p, messageDocs[m]) => HasAccess(p, messages[m])
    /\ \A x \in RunIds : ReadableBy(p, runDocs[x]) => HasAccess(p, runs[x].session)

\* What has been answered is in both stores: the member with the role of the row,
\* the message and the run with their documents.
AnsweredMirrored ==
  \A q \in Requests :
    LET r == requests[q] IN
    r.stage = "answered" =>
      /\ r.op \in {"createOrganization", "addMember"} =>
           /\ memberDocs[r.org][r.about] = r.granting
           /\ members[r.org][r.about] = r.granting
      /\ r.op = "createMessage" => messageDocs[r.made] # None
      /\ r.op = "createRun" => runDocs[r.made] # None

\* A key whose revocation is in the audit log is accepted by no authentication
\* that begins afterwards, whatever was under way when it was revoked.
RevokedKeyRefused ==
  \A q \in Requests :
    requests[q].op = "authenticate" /\ requests[q].stage \in {"touchKey", "answered"}
      => ~ requests[q].before

==============================================================================
