---------------------------- MODULE TenancyState -----------------------------
(***************************************************************************)
(* Who may do what in an organization, as the HTTP requests of all API     *)
(* replicas leave it in PostgreSQL, in Firestore and in the Redis cache.   *)
(*                                                                         *)
(* A request passes JwtAuthGuard, then OrgMembershipGuard where its route  *)
(* has one, then its handler, with one step per awaited call; other        *)
(* requests act in between.  None of these calls is inside a try block: a  *)
(* call that throws ends the request and leaves what was done before it.   *)
(***************************************************************************)
EXTENDS Naturals, FiniteSets

CONSTANTS
  People,      \* identities that Firebase has verified, by uid
  Orgs, Sessions, Messages, RunIds, Keys,  \* ids that rows may be given
  Slugs,       \* slugs that organizations may ask for
  Granted,     \* bound: the roles that members are added with
  Operations,  \* bound: the operations that are requested
  Requests,    \* bound: requests that are served at once
  Recorded,    \* bound: the actions whose records in the audit log are kept
  None         \* no value: null, no row, no document, no cache entry

Roles == {"OWNER", "ADMIN", "MEMBER"}

\* Operations by the route they belong to; authenticate is not on a route.
OnOrganization == {"getOrganization", "addMember", "createSession", "createKey",
                   "revokeKey"}
OnSession == {"getSession", "updateSession", "createMessage"}
OnRunsOfSession == {"createRun", "listRuns"}
OnRun == {"getRun", "cancelRun"}
Guarded == OnOrganization \cup OnSession \cup OnRunsOfSession \cup OnRun
AllOperations == {"createOrganization", "authenticate"} \cup Guarded

Ids == People \cup Orgs \cup Sessions \cup Messages \cup RunIds \cup Keys \cup Slugs

SessionRows == [org : Orgs, creator : People]
RunRows     == [org : Orgs, session : Sessions]
KeyRows     == [org : Orgs, revoked : BOOLEAN]
MessageDocs == [org : Orgs, session : Sessions, sessionCreator : People]
RunDocs     == [org : Orgs, session : Sessions, sessionCreator : People]

ASSUME NoneAssumption ==
  /\ None \notin Ids \cup Roles
  /\ None \notin SessionRows \cup RunRows \cup KeyRows \cup MessageDocs \cup RunDocs
ASSUME BoundsAssumption ==
  Granted \subseteq Roles /\ Operations \subseteq AllOperations

VARIABLES
  \* PostgreSQL
  users,        \* people with a row, made at their first authenticated request
  slugs,        \* organizations: id -> slug
  members,      \* memberships: organization -> person -> role
  sessions,     \* sessions: id -> organization and creator
  messages,     \* messages: id -> session
  runs,         \* agent_runs: id -> organization and session
  keys,         \* api_keys: id -> organization and whether it is revoked
  audit,        \* audit_logs: actions with their target
  \* Firestore
  memberDocs,   \* organizations/{org}/members/{uid}: the role
  messageDocs,  \* sessions/{session}/messages/{message}
  runDocs,      \* agentRuns/{run}, which its steps refer to
  \* Redis
  cache,        \* membership:{org}:{user}: the role
  \* processes and history
  requests,     \* the requests being served
  actors        \* who has read or changed a session, its messages or its runs

rowVars   == <<users, slugs, members, sessions, messages, runs, keys, audit>>
docVars   == <<memberDocs, messageDocs, runDocs>>
storeVars == <<rowVars, docVars, cache>>
vars      == <<storeVars, requests, actors>>

\* op, org and about come from the client: about is the session, run, key, slug or
\* person that the operation names, granting the role in its body.  role is
\* what the guard found, made the id of the row that the handler inserted, and
\* before what held when the request came in (history).
Idle == [op |-> "none", stage |-> "idle", who |-> None, org |-> None,
         about |-> None, granting |-> None, role |-> None, made |-> None,
         before |-> FALSE]

Init ==
  /\ users       = {}
  /\ slugs       = [o \in Orgs |-> None]
  /\ members     = [o \in Orgs |-> [p \in People |-> None]]
  /\ sessions    = [s \in Sessions |-> None]
  /\ messages    = [m \in Messages |-> None]
  /\ runs        = [x \in RunIds |-> None]
  /\ keys        = [k \in Keys |-> None]
  /\ audit       = {}
  /\ memberDocs  = [o \in Orgs |-> [p \in People |-> None]]
  /\ messageDocs = [m \in Messages |-> None]
  /\ runDocs     = [x \in RunIds |-> None]
  /\ cache       = [o \in Orgs |-> [p \in People |-> None]]
  /\ requests    = [q \in Requests |-> Idle]
  /\ actors      = [s \in Sessions |-> {}]

-----------------------------------------------------------------------------
(* Steps of a request.                                                     *)

At(q, stage) == requests[q].stage = stage

Goto(q, stage) == requests' = [requests EXCEPT ![q].stage = stage]

GotoWith(q, stage, made) ==
  requests' = [requests EXCEPT ![q].stage = stage, ![q].made = made]

\* The handler throws: 401, 403, 404, 409 or 500.
Refuse(q) == requests' = [requests EXCEPT ![q] = Idle]

\* 403 of the membership guard, told apart because a property is about it.
RefuseOutsider(q) ==
  requests' = [requests EXCEPT ![q] =
    [Idle EXCEPT !.stage = "outsider", !.before = requests[q].before]]

Answer(q) ==
  requests' = [requests EXCEPT ![q].stage = "answered", ![q].role = None]

\* A call throws before its effect.  One whose reply is lost after its effect
\* leaves the same as one that takes effect before the next call throws.
Throw(q) ==
  /\ requests[q].stage \notin {"idle", "outsider", "answered"}
  /\ Refuse(q)
  /\ UNCHANGED <<storeVars, actors>>

==============================================================================
