---------------------------- MODULE TenancyProofs ----------------------------
(***************************************************************************)
(* Proofs about Tenancy for any number of people, organizations, sessions, *)
(* messages, runs, keys and concurrent requests: types, roles, and what    *)
(* requests are let in to and leave behind.                                *)
(***************************************************************************)
EXTENDS Tenancy, TLAPS

\* What the stage of a request says of its operation and its parameters.
WellFormed(r) ==
  /\ r.op \in Guarded => r.org \in Orgs /\ r.who \in People
  /\ r.op \in OnSession \cup OnRunsOfSession => r.about \in Sessions
  /\ r.op \in OnRun => r.about \in RunIds
  /\ r.op = "addMember" => r.about \in People /\ r.granting \in Roles
  /\ r.op \in {"revokeKey", "authenticate"} => r.about \in Keys
  /\ r.stage \in {"readCache", "findMembership", "fillCache"} => r.op \in Guarded
  /\ r.stage = "fillCache" => r.role \in Roles
  /\ r.stage \in {"findSlug", "insertOrganization"} =>
       r.op = "createOrganization" /\ r.who \in People /\ r.about \in Slugs
  /\ r.stage \in {"findUser", "insertMembership", "invalidate"} => r.op = "addMember"
  /\ r.stage = "setMember" =>
       /\ r.op \in {"createOrganization", "addMember"}
       /\ r.org \in Orgs /\ r.about \in People /\ r.granting \in Roles
  /\ r.op = "createOrganization" /\ r.stage \in {"audit", "answered"} =>
       r.org \in Orgs /\ r.about \in People
  /\ r.stage = "insertSession" => r.op = "createSession"
  /\ r.stage = "findSession" => r.op \in OnSession
  /\ r.stage = "updateSession" => r.op = "updateSession"
  /\ r.stage \in {"insertMessage", "addMessage"} => r.op = "createMessage"
  /\ r.stage = "addMessage" => r.made \in Messages
  /\ r.stage \in {"findRunSession", "insertRun", "setRun"} => r.op = "createRun"
  /\ r.stage = "setRun" => r.made \in RunIds
  /\ r.stage = "listRuns" => r.op = "listRuns"
  /\ r.stage = "findRun" => r.op \in OnRun
  /\ r.stage = "insertKey" => r.op = "createKey"
  /\ r.stage \in {"findKey", "revokeKey"} => r.op = "revokeKey"
  /\ r.stage \in {"findByPrefix", "touchKey"} => r.op = "authenticate"

\* The rows that a request has found or made are there.
Found(r) ==
  /\ r.stage \in {"updateSession", "insertMessage", "addMessage", "insertRun", "setRun"} =>
       sessions[r.about] # None
  /\ r.stage = "revokeKey" => keys[r.about] # None

StoresTyped ==
  /\ users \subseteq People
  /\ slugs \in [Orgs -> Absent(Slugs)]
  /\ members \in [Orgs -> [People -> Absent(Roles)]]
  /\ sessions \in [Sessions -> Absent(SessionRows)]
  /\ messages \in [Messages -> Absent(Sessions)]
  /\ runs \in [RunIds -> Absent(RunRows)]
  /\ keys \in [Keys -> Absent(KeyRows)]
  /\ memberDocs \in [Orgs -> [People -> Absent(Roles)]]
  /\ messageDocs \in [Messages -> Absent(MessageDocs)]
  /\ runDocs \in [RunIds -> Absent(RunDocs)]
  /\ cache \in [Orgs -> [People -> Absent(Roles)]]
  /\ actors \in [Sessions -> SUBSET People]

Typed == requests \in [Requests -> RequestType]

TypeInv == /\ StoresTyped
           /\ Typed
           /\ \A q \in Requests : WellFormed(requests[q]) /\ Found(requests[q])

-----------------------------------------------------------------------------
(* How a step changes the requests.                                        *)

\* Only q moves.
Alone(q) ==
  /\ Typed'
  /\ \A p \in Requests \ {q} : requests'[p] = requests[p]

\* q keeps what came from its client and goes to a stage.
Keeps(q, stage) ==
  /\ Alone(q)
  /\ requests'[q].stage = stage
  /\ requests'[q].op = requests[q].op
  /\ requests'[q].who = requests[q].who
  /\ requests'[q].org = requests[q].org
  /\ requests'[q].about = requests[q].about
  /\ requests'[q].granting = requests[q].granting
  /\ requests'[q].before = requests[q].before

\* q is over without an answer.
Ends(q) ==
  /\ Alone(q)
  /\ requests'[q].op = "none"
  /\ requests'[q].stage \in {"idle", "outsider"}
  /\ requests'[q].role = None

LEMMA GotoKeeps ==
  ASSUME Typed, NEW q \in Requests, NEW stage \in Stages, Goto(q, stage)
  PROVE  Keeps(q, stage) /\ requests'[q].role = requests[q].role
                         /\ requests'[q].made = requests[q].made
<1>1. requests' = [requests EXCEPT ![q] = [requests[q] EXCEPT !.stage = stage]]
  BY DEF Goto
<1>2. [requests[q] EXCEPT !.stage = stage] \in RequestType
  BY DEF Typed, RequestType
<1>3. Alone(q)
  BY <1>1, <1>2 DEF Alone, Typed
<1>4. requests'[q] = [requests[q] EXCEPT !.stage = stage]
  BY <1>1 DEF Typed
<1>5. QED
  BY <1>3, <1>4 DEF Keeps, Typed, RequestType

LEMMA GotoWithKeeps ==
  ASSUME Typed, NEW q \in Requests, NEW stage \in Stages, NEW made \in Absent(Ids),
         GotoWith(q, stage, made)
  PROVE  Keeps(q, stage) /\ requests'[q].role = requests[q].role
                         /\ requests'[q].made = made
<1> DEFINE r == [requests[q] EXCEPT !.stage = stage, !.made = made]
<1>1. requests' = [requests EXCEPT ![q] = r]
  BY DEF GotoWith, Typed
<1>2. r \in RequestType
  BY DEF Typed, RequestType
<1>3. Alone(q)
  BY <1>1, <1>2 DEF Alone, Typed
<1>4. requests'[q] = r
  BY <1>1 DEF Typed
<1>5. QED
  BY <1>3, <1>4 DEF Keeps, Typed, RequestType

LEMMA AnswerKeeps ==
  ASSUME Typed, NEW q \in Requests, Answer(q)
  PROVE  Keeps(q, "answered") /\ requests'[q].role = None
                              /\ requests'[q].made = requests[q].made
<1> DEFINE r == [requests[q] EXCEPT !.stage = "answered", !.role = None]
<1>1. requests' = [requests EXCEPT ![q] = r]
  BY DEF Answer, Typed
<1>2. "answered" \in Stages /\ None \in Absent(Roles)
  BY DEF Stages, Absent
<1>3. r \in RequestType
  BY <1>2 DEF Typed, RequestType
<1>4. Alone(q)
  BY <1>1, <1>3 DEF Alone, Typed
<1>5. requests'[q] = r
  BY <1>1 DEF Typed
<1>6. QED
  BY <1>4, <1>5 DEF Keeps, Typed, RequestType

LEMMA RefuseEnds ==
  ASSUME Typed, NEW q \in Requests, Refuse(q)
  PROVE  Ends(q) /\ requests'[q].stage = "idle"
<1>1. Idle \in RequestType
  BY DEF Idle, RequestType, Stages, Absent
<1>2. QED
  BY <1>1 DEF Refuse, Ends, Alone, Typed, Idle

LEMMA RefuseOutsiderEnds ==
  ASSUME Typed, NEW q \in Requests, RefuseOutsider(q)
  PROVE  Ends(q) /\ requests'[q].before = requests[q].before
<1> DEFINE r == [Idle EXCEPT !.stage = "outsider", !.before = requests[q].before]
<1>1. r \in RequestType
  BY DEF Idle, RequestType, Stages, Absent, Typed
<1>2. requests' = [requests EXCEPT ![q] = r]
  BY DEF RefuseOutsider
<1>3. requests'[q] = r
  BY <1>2 DEF Typed
<1>4. r.op = "none" /\ r.stage = "outsider" /\ r.role = None /\ r.before = requests[q].before
  BY DEF Idle
<1>5. QED
  BY <1>1, <1>2, <1>3, <1>4 DEF Ends, Alone, Typed

\* The guard lets a request in, or ends it.
LEMMA AdmitCases ==
  ASSUME Typed, NEW q \in Requests, NEW role \in Absent(Roles), Admit(q, role)
  PROVE  \/ /\ Ends(q)
            /\ requests'[q].stage = "outsider" =>
                 role = None /\ requests'[q].before = requests[q].before
         \/ /\ role \in Roles
            /\ Keeps(q, FirstStage(requests[q].op))
            /\ requests'[q].role = role
<1>1. CASE role \notin Roles
  BY <1>1, RefuseOutsiderEnds DEF Admit, Absent
<1>2. CASE role \in Roles \ RequiredRoles(requests[q].op)
  BY <1>2, RefuseEnds DEF Admit
<1>3. CASE role \in Roles \cap RequiredRoles(requests[q].op)
  <2> DEFINE r == [requests[q] EXCEPT !.stage = FirstStage(requests[q].op), !.role = role]
  <2>1. requests' = [requests EXCEPT ![q] = r]
    BY <1>3 DEF Admit, Typed
  <2>2. FirstStage(requests[q].op) \in Stages
    BY DEF FirstStage, Stages
  <2>3. r \in RequestType
    BY <2>2 DEF Typed, RequestType
  <2>4. Alone(q)
    BY <2>1, <2>3 DEF Alone, Typed
  <2>5. requests'[q] = r
    BY <2>1 DEF Typed
  <2>6. QED
    BY <1>3, <2>4, <2>5 DEF Keeps, Typed, RequestType
<1>4. QED
  BY <1>1, <1>2, <1>3

LEMMA FillKeeps ==
  ASSUME Typed, NEW q \in Requests, NEW role \in Roles,
         requests' = [requests EXCEPT ![q].stage = "fillCache", ![q].role = role]
  PROVE  Keeps(q, "fillCache") /\ requests'[q].role = role
<1> DEFINE r == [requests[q] EXCEPT !.stage = "fillCache", !.role = role]
<1>1. requests' = [requests EXCEPT ![q] = r]
  BY DEF Typed
<1>2. "fillCache" \in Stages /\ role \in Absent(Roles)
  BY DEF Stages, Absent
<1>3. r \in RequestType
  BY <1>2 DEF Typed, RequestType
<1>4. Alone(q)
  BY <1>1, <1>3 DEF Alone, Typed
<1>5. requests'[q] = r
  BY <1>1 DEF Typed
<1>6. QED
  BY <1>4, <1>5 DEF Keeps, Typed, RequestType

\* A role is written for one person in one organization.
LEMMA RoleSet ==
  ASSUME NEW f \in [Orgs -> [People -> Absent(Roles)]], NEW o \in Orgs, NEW p \in People,
         NEW role \in Absent(Roles), NEW g, g = [f EXCEPT ![o][p] = role]
  PROVE  /\ g \in [Orgs -> [People -> Absent(Roles)]]
         /\ g[o][p] = role
         /\ \A o2 \in Orgs, p2 \in People : o2 # o \/ p2 # p => g[o2][p2] = f[o2][p2]
<1>1. [f[o] EXCEPT ![p] = role] \in [People -> Absent(Roles)]
  OBVIOUS
<1>2. QED
  BY <1>1

-----------------------------------------------------------------------------
(* Types.                                                                  *)

\* What is looked up stays.
RowsStay ==
  /\ \A s \in Sessions : sessions[s] # None => sessions'[s] # None
  /\ \A k \in Keys : keys[k] # None => keys'[k] # None

LEMMA OneMoves ==
  ASSUME TypeInv, NEW q \in Requests, Alone(q), StoresTyped', RowsStay,
         WellFormed(requests[q])', Found(requests[q])'
  PROVE  TypeInv'
<1>1. ASSUME NEW p \in Requests \ {q}
      PROVE  WellFormed(requests[p])' /\ Found(requests[p])'
  <2>1. requests'[p] = requests[p] /\ WellFormed(requests[p]) /\ Found(requests[p])
    BY DEF Alone, TypeInv
  <2>2. Found(requests[p])'
    BY <2>1 DEF Found, WellFormed, RowsStay, OnSession, OnRunsOfSession
  <2>3. QED
    BY <2>1, <2>2 DEF WellFormed
<1>2. QED
  BY <1>1 DEF TypeInv, Alone

LEMMA EndsWell ==
  ASSUME NEW q \in Requests, Ends(q)
  PROVE  WellFormed(requests[q])' /\ Found(requests[q])'
  BY DEF Ends, WellFormed, Found, Guarded, OnOrganization, OnSession, OnRunsOfSession, OnRun

LEMMA SameStores ==
  ASSUME TypeInv, UNCHANGED storeVars, actors' = actors
  PROVE  StoresTyped' /\ RowsStay
  BY DEF TypeInv, StoresTyped, RowsStay, storeVars, rowVars, docVars

\* A step that goes on to a stage keeps what is known of the request, if the stage
\* is one of its operation and what the stage has found is there.
LEMMA KeepsWell ==
  ASSUME TypeInv, NEW q \in Requests, NEW stage \in Stages, Keeps(q, stage),
         stage \notin {"readCache", "findMembership", "fillCache", "findSlug",
                       "insertOrganization"},
         LET op == requests[q].op IN
           /\ stage \in {"findUser", "insertMembership", "invalidate"} => op = "addMember"
           /\ stage = "setMember" => op = "addMember"
           /\ stage \in {"audit", "answered"} =>
                op # "createOrganization" \/ requests[q].stage = "setMember"
           /\ stage = "insertSession" => op = "createSession"
           /\ stage = "findSession" => op \in OnSession
           /\ stage = "updateSession" => op = "updateSession"
           /\ stage \in {"insertMessage", "addMessage"} => op = "createMessage"
           /\ stage = "addMessage" => requests'[q].made \in Messages
           /\ stage \in {"findRunSession", "insertRun", "setRun"} => op = "createRun"
           /\ stage = "setRun" => requests'[q].made \in RunIds
           /\ stage = "listRuns" => op = "listRuns"
           /\ stage = "findRun" => op \in OnRun
           /\ stage = "insertKey" => op = "createKey"
           /\ stage \in {"findKey", "revokeKey"} => op = "revokeKey"
           /\ stage \in {"findByPrefix", "touchKey"} => op = "authenticate"
  PROVE  WellFormed(requests[q])'
<1>1. WellFormed(requests[q])
  BY DEF TypeInv
<1>2. \/ requests[q].op # "createOrganization" \/ requests[q].stage = "setMember"
      \/ stage \notin {"audit", "answered"}
  OBVIOUS
<1>3. QED
  BY <1>1, <1>2 DEF WellFormed, Keeps, Guarded, OnOrganization, OnSession, OnRunsOfSession, OnRun

LEMMA FindUserTyped ==
  ASSUME TypeInv, NEW q \in Requests, FindUser(q)
  PROVE  TypeInv'
<1>1. StoresTyped' /\ RowsStay
  BY SameStores DEF FindUser
<1>2. Typed /\ WellFormed(requests[q]) /\ At(q, "findUser")
  BY DEF TypeInv, FindUser
<1>3. CASE Ends(q)
  BY <1>3, EndsWell, OneMoves, <1>1 DEF Ends
<1>4. CASE Keeps(q, "insertMembership")
  <2>1. WellFormed(requests[q])'
    BY <1>4, <1>2, KeepsWell DEF Stages, At, WellFormed
  <2>2. Found(requests[q])'
    BY <1>4 DEF Keeps, Found
  <2>3. QED
    BY <1>4, <1>1, <2>1, <2>2, OneMoves DEF Keeps
<1>5. QED
  BY <1>2, <1>3, <1>4, RefuseEnds, GotoKeeps DEF FindUser, Stages

LEMMA FindKeyTyped ==
  ASSUME TypeInv, NEW q \in Requests, FindKey(q)
  PROVE  TypeInv'
<1>1. StoresTyped' /\ RowsStay
  BY SameStores DEF FindKey
<1>2. Typed /\ WellFormed(requests[q]) /\ At(q, "findKey")
  BY DEF TypeInv, FindKey
<1>3. CASE Ends(q)
  BY <1>3, EndsWell, OneMoves, <1>1 DEF Ends
<1>4. CASE Keeps(q, "revokeKey") /\ keys[requests[q].about] # None
  <2>1. WellFormed(requests[q])'
    BY <1>4, <1>2, KeepsWell DEF Stages, At, WellFormed
  <2>2. keys' = keys
    BY DEF FindKey, storeVars, rowVars
  <2>3. Found(requests[q])'
    BY <1>4, <2>2 DEF Keeps, Found
  <2>4. QED
    BY <1>4, <1>1, <2>1, <2>3, OneMoves DEF Keeps
<1>5. QED
  BY <1>2, <1>3, <1>4, RefuseEnds, GotoKeeps DEF FindKey, Stages

LEMMA FindByPrefixTyped ==
  ASSUME TypeInv, NEW q \in Requests, FindByPrefix(q)
  PROVE  TypeInv'
<1>1. StoresTyped' /\ RowsStay
  BY SameStores DEF FindByPrefix
<1>2. Typed /\ WellFormed(requests[q]) /\ At(q, "findByPrefix")
  BY DEF TypeInv, FindByPrefix
<1>3. CASE Ends(q)
  BY <1>3, EndsWell, OneMoves, <1>1 DEF Ends
<1>4. CASE Keeps(q, "touchKey")
  <2>1. WellFormed(requests[q])'
    BY <1>4, <1>2, KeepsWell DEF Stages, At, WellFormed
  <2>2. Found(requests[q])'
    BY <1>4 DEF Keeps, Found
  <2>3. QED
    BY <1>4, <1>1, <2>1, <2>2, OneMoves DEF Keeps
<1>5. QED
  BY <1>2, <1>3, <1>4, RefuseEnds, GotoKeeps DEF FindByPrefix, Stages

LEMMA UpdateSessionTyped ==
  ASSUME TypeInv, NEW q \in Requests, UpdateSession(q)
  PROVE  TypeInv'
<1>1. StoresTyped' /\ RowsStay
  BY SameStores DEF UpdateSession
<1>2. Typed /\ WellFormed(requests[q]) /\ At(q, "updateSession")
  BY DEF TypeInv, UpdateSession
<1>3. CASE Keeps(q, "audit")
  <2>1. WellFormed(requests[q])'
    BY <1>3, <1>2, KeepsWell DEF Stages, At, WellFormed
  <2>2. Found(requests[q])'
    BY <1>3 DEF Keeps, Found
  <2>3. QED
    BY <1>3, <1>1, <2>1, <2>2, OneMoves DEF Keeps
<1>4. QED
  BY <1>2, <1>3, GotoKeeps DEF UpdateSession, Stages

LEMMA TouchKeyTyped ==
  ASSUME TypeInv, NEW q \in Requests, TouchKey(q)
  PROVE  TypeInv'
<1>1. StoresTyped' /\ RowsStay
  BY SameStores DEF TouchKey
<1>2. Typed /\ WellFormed(requests[q]) /\ At(q, "touchKey")
  BY DEF TypeInv, TouchKey
<1>3. CASE Keeps(q, "answered")
  <2>1. WellFormed(requests[q])'
    BY <1>3, <1>2, KeepsWell DEF Stages, At, WellFormed
  <2>2. Found(requests[q])'
    BY <1>3 DEF Keeps, Found
  <2>3. QED
    BY <1>3, <1>1, <2>1, <2>2, OneMoves DEF Keeps
<1>4. QED
  BY <1>2, <1>3, AnswerKeeps DEF TouchKey

LEMMA ThrowTyped ==
  ASSUME TypeInv, NEW q \in Requests, Throw(q)
  PROVE  TypeInv'
<1>1. StoresTyped' /\ RowsStay
  BY SameStores DEF Throw
<1>2. QED
  BY <1>1, RefuseEnds, EndsWell, OneMoves DEF Throw, TypeInv, Ends

LEMMA FindSlugTyped ==
  ASSUME TypeInv, NEW q \in Requests, FindSlug(q)
  PROVE  TypeInv'
<1>1. StoresTyped' /\ RowsStay
  BY SameStores DEF FindSlug
<1>2. Typed /\ WellFormed(requests[q]) /\ At(q, "findSlug")
  BY DEF TypeInv, FindSlug
<1>3. CASE Ends(q)
  BY <1>3, EndsWell, OneMoves, <1>1 DEF Ends
<1>4. CASE Keeps(q, "insertOrganization")
  <2>1. WellFormed(requests[q])' /\ Found(requests[q])'
    BY <1>4, <1>2 DEF At, WellFormed, Found, Keeps, Guarded, OnOrganization, OnSession, OnRunsOfSession, OnRun
  <2>2. QED
    BY <1>4, <1>1, <2>1, OneMoves DEF Keeps
<1>5. QED
  BY <1>2, <1>3, <1>4, RefuseEnds, GotoKeeps DEF FindSlug, Stages

\* Whatever the guard makes of the role.
LEMMA AdmitTyped ==
  ASSUME TypeInv, NEW q \in Requests, NEW role \in Absent(Roles), Admit(q, role),
         requests[q].op \in Guarded, StoresTyped', RowsStay
  PROVE  TypeInv'
<1>1. CASE Ends(q)
  BY <1>1, EndsWell, OneMoves DEF Ends
<1>2. CASE Keeps(q, FirstStage(requests[q].op))
  <2>1. FirstStage(requests[q].op) \in Stages
    BY DEF FirstStage, Stages
  <2>2. WellFormed(requests[q])'
    BY <1>2, <2>1, KeepsWell DEF FirstStage, Guarded, OnOrganization, OnSession, OnRunsOfSession, OnRun
  <2>3. Found(requests[q])'
    BY <1>2 DEF Keeps, Found, FirstStage
  <2>4. QED
    BY <1>2, <2>2, <2>3, OneMoves DEF Keeps
<1>3. QED
  BY <1>1, <1>2, AdmitCases DEF TypeInv

LEMMA ReadCacheTyped ==
  ASSUME TypeInv, NEW q \in Requests, ReadCache(q)
  PROVE  TypeInv'
<1>1. StoresTyped' /\ RowsStay
  BY SameStores DEF ReadCache
<1>2. Typed /\ WellFormed(requests[q]) /\ At(q, "readCache")
  BY DEF TypeInv, ReadCache
<1>3. CASE \E role \in Absent(Roles) : Admit(q, role)
  BY <1>3, <1>1, <1>2, AdmitTyped DEF At, WellFormed
<1>4. CASE Keeps(q, "findMembership")
  <2>1. WellFormed(requests[q])' /\ Found(requests[q])'
    BY <1>4, <1>2 DEF At, WellFormed, Found, Keeps, Guarded, OnOrganization, OnSession, OnRunsOfSession, OnRun
  <2>2. QED
    BY <1>4, <1>1, <2>1, OneMoves DEF Keeps
<1>5. cache[requests[q].org][requests[q].who] \in Absent(Roles)
  BY <1>2 DEF At, WellFormed, TypeInv, StoresTyped
<1>6. QED
  BY <1>2, <1>3, <1>4, <1>5, GotoKeeps DEF ReadCache, Stages

LEMMA FillCacheTyped ==
  ASSUME TypeInv, NEW q \in Requests, FillCache(q)
  PROVE  TypeInv'
<1>1. Typed /\ WellFormed(requests[q]) /\ At(q, "fillCache")
  BY DEF TypeInv, FillCache
<1>2. StoresTyped' /\ RowsStay
  <2>1. /\ requests[q].org \in Orgs /\ requests[q].who \in People
        /\ requests[q].role \in Absent(Roles)
    BY <1>1 DEF At, WellFormed, Absent
  <2>2. cache' \in [Orgs -> [People -> Absent(Roles)]]
    BY <2>1 DEF FillCache, TypeInv, StoresTyped
  <2>3. QED
    BY <2>2 DEF FillCache, TypeInv, StoresTyped, RowsStay, rowVars, docVars
<1>3. CASE \E role \in Absent(Roles) : Admit(q, role)
  BY <1>3, <1>2, <1>1, AdmitTyped DEF At, WellFormed
<1>4. QED
  BY <1>1, <1>3 DEF FillCache, At, WellFormed, Absent

LEMMA FindMembershipTyped ==
  ASSUME TypeInv, NEW q \in Requests, FindMembership(q)
  PROVE  TypeInv'
<1>1. StoresTyped' /\ RowsStay
  BY SameStores DEF FindMembership
<1>2. Typed /\ WellFormed(requests[q]) /\ At(q, "findMembership")
  BY DEF TypeInv, FindMembership
<1>3. CASE \E role \in Absent(Roles) : Admit(q, role)
  BY <1>3, <1>1, <1>2, AdmitTyped DEF At, WellFormed
<1>4. members[requests[q].org][requests[q].who] \in Absent(Roles)
  BY <1>2 DEF At, WellFormed, TypeInv, StoresTyped
<1>5. CASE members[requests[q].org][requests[q].who] # None
  <2>1. members[requests[q].org][requests[q].who] \in Roles
    BY <1>4, <1>5 DEF Absent
  <2>2. Keeps(q, "fillCache") /\ requests'[q].role \in Roles
    BY <1>2, <1>5, <2>1, FillKeeps DEF FindMembership
  <2>3. WellFormed(requests[q])' /\ Found(requests[q])'
    BY <2>2, <1>2 DEF At, WellFormed, Found, Keeps, Guarded, OnOrganization, OnSession, OnRunsOfSession, OnRun
  <2>4. QED
    BY <2>2, <1>1, <2>3, OneMoves DEF Keeps
<1>6. QED
  BY <1>3, <1>5 DEF FindMembership, Absent

LEMMA InvalidateTyped ==
  ASSUME TypeInv, NEW q \in Requests, Invalidate(q)
  PROVE  TypeInv'
<1>1. Typed /\ WellFormed(requests[q]) /\ At(q, "invalidate")
  BY DEF TypeInv, Invalidate
<1>2. StoresTyped' /\ RowsStay
  <2>1. cache' \in [Orgs -> [People -> Absent(Roles)]]
    BY <1>1 DEF Invalidate, At, WellFormed, TypeInv, StoresTyped, Absent, Guarded, OnOrganization
  <2>2. QED
    BY <2>1 DEF Invalidate, TypeInv, StoresTyped, RowsStay, rowVars, docVars
<1>3. Keeps(q, "setMember")
  BY <1>1, GotoKeeps DEF Invalidate, Stages
<1>4. WellFormed(requests[q])'
  BY <1>3, <1>1, KeepsWell DEF Stages, At, WellFormed
<1>5. QED
  BY <1>3, <1>2, <1>4, OneMoves DEF Keeps, Found

LEMMA SetMemberTyped ==
  ASSUME TypeInv, NEW q \in Requests, SetMember(q)
  PROVE  TypeInv'
<1>1. Typed /\ WellFormed(requests[q]) /\ At(q, "setMember")
  BY DEF TypeInv, SetMember
<1>2. StoresTyped' /\ RowsStay
  <2>1. memberDocs' \in [Orgs -> [People -> Absent(Roles)]]
    BY <1>1 DEF SetMember, At, WellFormed, TypeInv, StoresTyped, Absent
  <2>2. QED
    BY <2>1 DEF SetMember, TypeInv, StoresTyped, RowsStay, rowVars, docVars
<1>3. Keeps(q, "audit")
  BY <1>1, GotoKeeps DEF SetMember, Stages
<1>4. WellFormed(requests[q])'
  BY <1>3, <1>1, KeepsWell DEF Stages, At, WellFormed
<1>5. QED
  BY <1>3, <1>2, <1>4, OneMoves DEF Keeps, Found

LEMMA AuditTyped ==
  ASSUME TypeInv, NEW q \in Requests, Audit(q)
  PROVE  TypeInv'
<1>1. Typed /\ WellFormed(requests[q]) /\ At(q, "audit")
  BY DEF TypeInv, Audit
<1>2. StoresTyped' /\ RowsStay
  BY DEF Audit, TypeInv, StoresTyped, RowsStay, docVars
<1>3. Keeps(q, "answered")
  BY <1>1, AnswerKeeps DEF Audit
<1>4. WellFormed(requests[q])'
  BY <1>3, <1>1 DEF At, WellFormed, Keeps, Guarded, OnOrganization, OnSession, OnRunsOfSession, OnRun
<1>5. QED
  BY <1>3, <1>2, <1>4, OneMoves DEF Keeps, Found

LEMMA InsertMembershipTyped ==
  ASSUME TypeInv, NEW q \in Requests, InsertMembership(q)
  PROVE  TypeInv'
<1>1. Typed /\ WellFormed(requests[q]) /\ At(q, "insertMembership")
  BY DEF TypeInv, InsertMembership
<1>2. /\ requests[q].op = "addMember" /\ requests[q].org \in Orgs
      /\ requests[q].about \in People /\ requests[q].granting \in Absent(Roles)
  BY <1>1 DEF At, WellFormed, Guarded, OnOrganization, Absent
<1>3. \/ members' = members
      \/ members' = [members EXCEPT ![requests[q].org][requests[q].about] = requests[q].granting]
  BY DEF InsertMembership
<1>4. StoresTyped' /\ RowsStay
  <2>1. members' \in [Orgs -> [People -> Absent(Roles)]]
    <3>1. members \in [Orgs -> [People -> Absent(Roles)]]
      BY DEF TypeInv, StoresTyped
    <3>2. CASE members' = members
      BY <3>1, <3>2
    <3>3. CASE members' = [members EXCEPT ![requests[q].org][requests[q].about] =
                             requests[q].granting]
      BY <1>2, <3>1, <3>3, RoleSet
    <3>4. QED
      BY <1>3, <3>2, <3>3
  <2>2. QED
    BY <2>1 DEF InsertMembership, TypeInv, StoresTyped, RowsStay, docVars
<1>5. CASE Ends(q)
  BY <1>5, EndsWell, OneMoves, <1>4 DEF Ends
<1>6. CASE Keeps(q, "invalidate")
  <2>1. WellFormed(requests[q])'
    BY <1>6, <1>1, <1>2, KeepsWell DEF Stages
  <2>2. QED
    BY <1>6, <1>4, <2>1, OneMoves DEF Keeps, Found
<1>7. QED
  BY <1>1, <1>5, <1>6, RefuseEnds, GotoKeeps DEF InsertMembership, Stages

LEMMA FindSessionTyped ==
  ASSUME TypeInv, NEW q \in Requests, FindSession(q)
  PROVE  TypeInv'
<1>1. Typed /\ WellFormed(requests[q]) /\ At(q, "findSession")
  BY DEF TypeInv, FindSession
<1>2. requests[q].op \in OnSession /\ requests[q].about \in Sessions /\ requests[q].who \in People
  BY <1>1 DEF At, WellFormed, Guarded
<1>3. \/ actors' = actors
      \/ actors' = [actors EXCEPT ![requests[q].about] = @ \cup {requests[q].who}]
  BY DEF FindSession
<1>4. StoresTyped' /\ RowsStay
  <2>1. actors' \in [Sessions -> SUBSET People]
    BY <1>2, <1>3 DEF TypeInv, StoresTyped
  <2>2. QED
    BY <2>1 DEF FindSession, storeVars, TypeInv, StoresTyped, RowsStay, rowVars, docVars
<1>5. CASE Ends(q)
  BY <1>5, EndsWell, OneMoves, <1>4 DEF Ends
<1>6. CASE /\ sessions[requests[q].about] # None
         /\ \/ requests[q].op = "getSession" /\ Keeps(q, "answered")
            \/ requests[q].op = "updateSession" /\ Keeps(q, "updateSession")
            \/ requests[q].op = "createMessage" /\ Keeps(q, "insertMessage")
  <2>1. WellFormed(requests[q])'
    BY <1>6, <1>1, <1>2, KeepsWell DEF Stages
  <2>2. Found(requests[q])'
    BY <1>6 DEF Keeps, Found, FindSession, storeVars, rowVars
  <2>3. QED
    BY <1>6, <1>4, <2>1, <2>2, OneMoves DEF Keeps
<1>7. \/ Refuse(q)
      \/ /\ sessions[requests[q].about] # None
         /\ \/ requests[q].op = "getSession" /\ Answer(q)
            \/ requests[q].op = "updateSession" /\ Goto(q, "updateSession")
            \/ requests[q].op = "createMessage" /\ Goto(q, "insertMessage")
  BY <1>2 DEF FindSession, OnSession
<1>8. QED
  BY <1>1, <1>7, <1>5, <1>6, RefuseEnds, GotoKeeps, AnswerKeeps DEF Stages

LEMMA InsertSessionTyped ==
  ASSUME TypeInv, NEW q \in Requests, InsertSession(q)
  PROVE  TypeInv'
<1>1. Typed /\ WellFormed(requests[q]) /\ At(q, "insertSession")
  BY DEF TypeInv, InsertSession
<1>2. /\ requests[q].op = "createSession"
      /\ requests[q].org \in Orgs /\ requests[q].who \in People
  BY <1>1 DEF At, WellFormed, Guarded, OnOrganization
<1>3. PICK s \in Sessions :
        /\ sessions[s] = None
        /\ sessions' = [sessions EXCEPT ![s] =
             [org |-> requests[q].org, creator |-> requests[q].who]]
        /\ GotoWith(q, "audit", s)
  BY DEF InsertSession
<1>4. StoresTyped' /\ RowsStay
  <2>1. [org |-> requests[q].org, creator |-> requests[q].who] \in SessionRows
    BY <1>2 DEF SessionRows
  <2>2. sessions' \in [Sessions -> Absent(SessionRows)]
    BY <1>3, <2>1 DEF TypeInv, StoresTyped, Absent
  <2>3. \A r \in Sessions : sessions[r] # None => sessions'[r] # None
    BY <1>3, <2>1, NoneAssumption DEF TypeInv, StoresTyped
  <2>4. QED
    BY <2>2, <2>3 DEF InsertSession, TypeInv, StoresTyped, RowsStay, docVars
<1>5. Keeps(q, "audit")
  BY <1>1, <1>3, GotoWithKeeps DEF Stages, Absent, Ids
<1>6. WellFormed(requests[q])'
  BY <1>5, <1>1, <1>2, KeepsWell DEF Stages
<1>7. QED
  BY <1>5, <1>4, <1>6, OneMoves DEF Keeps, Found

LEMMA InsertKeyTyped ==
  ASSUME TypeInv, NEW q \in Requests, InsertKey(q)
  PROVE  TypeInv'
<1>1. Typed /\ WellFormed(requests[q]) /\ At(q, "insertKey")
  BY DEF TypeInv, InsertKey
<1>2. requests[q].op = "createKey" /\ requests[q].org \in Orgs
  BY <1>1 DEF At, WellFormed, Guarded, OnOrganization
<1>3. PICK k \in Keys :
        /\ keys[k] = None
        /\ keys' = [keys EXCEPT ![k] = [org |-> requests[q].org, revoked |-> FALSE]]
        /\ GotoWith(q, "audit", k)
  BY DEF InsertKey
<1>4. StoresTyped' /\ RowsStay
  <2>1. [org |-> requests[q].org, revoked |-> FALSE] \in KeyRows
    BY <1>2 DEF KeyRows
  <2>2. keys' \in [Keys -> Absent(KeyRows)]
    BY <1>3, <2>1 DEF TypeInv, StoresTyped, Absent
  <2>3. \A c \in Keys : keys[c] # None => keys'[c] # None
    BY <1>3, <2>1, NoneAssumption DEF TypeInv, StoresTyped
  <2>4. QED
    BY <2>2, <2>3 DEF InsertKey, TypeInv, StoresTyped, RowsStay, docVars
<1>5. Keeps(q, "audit")
  BY <1>1, <1>3, GotoWithKeeps DEF Stages, Absent, Ids
<1>6. WellFormed(requests[q])'
  BY <1>5, <1>1, <1>2, KeepsWell DEF Stages
<1>7. QED
  BY <1>5, <1>4, <1>6, OneMoves DEF Keeps, Found

LEMMA RevokeKeyTyped ==
  ASSUME TypeInv, NEW q \in Requests, RevokeKey(q)
  PROVE  TypeInv'
<1>1. Typed /\ WellFormed(requests[q]) /\ At(q, "revokeKey")
  BY DEF TypeInv, RevokeKey
<1>2. /\ requests[q].op = "revokeKey" /\ requests[q].about \in Keys
      /\ keys[requests[q].about] # None
  BY <1>1 DEF At, WellFormed, Found, TypeInv
<1>3. StoresTyped' /\ RowsStay
  <2>1. keys[requests[q].about] \in KeyRows
    BY <1>2 DEF TypeInv, StoresTyped, Absent
  <2>2. [keys[requests[q].about] EXCEPT !.revoked = TRUE] \in KeyRows
    BY <2>1 DEF KeyRows
  <2>3. keys' = [keys EXCEPT ![requests[q].about] =
                   [keys[requests[q].about] EXCEPT !.revoked = TRUE]]
    BY DEF RevokeKey
  <2>4. keys' \in [Keys -> Absent(KeyRows)]
    BY <2>2, <2>3 DEF TypeInv, StoresTyped, Absent
  <2>5. None \notin KeyRows
    BY NoneAssumption
  <2>6. \A k \in Keys : keys[k] # None => keys'[k] # None
    BY <1>2, <2>2, <2>3, <2>5 DEF TypeInv, StoresTyped
  <2>7. QED
    BY <2>4, <2>6 DEF RevokeKey, TypeInv, StoresTyped, RowsStay, docVars
<1>4. Keeps(q, "audit")
  BY <1>1, GotoKeeps DEF RevokeKey, Stages
<1>5. WellFormed(requests[q])'
  BY <1>4, <1>1, <1>2, KeepsWell DEF Stages
<1>6. QED
  BY <1>4, <1>3, <1>5, OneMoves DEF Keeps, Found

LEMMA InsertMessageTyped ==
  ASSUME TypeInv, NEW q \in Requests, InsertMessage(q)
  PROVE  TypeInv'
<1>1. Typed /\ WellFormed(requests[q]) /\ At(q, "insertMessage")
  BY DEF TypeInv, InsertMessage
<1>2. /\ requests[q].op = "createMessage" /\ requests[q].about \in Sessions
      /\ sessions[requests[q].about] # None
  BY <1>1 DEF At, WellFormed, OnSession, TypeInv, Found
<1>3. PICK m \in Messages :
        /\ messages[m] = None
        /\ messages' = [messages EXCEPT ![m] = requests[q].about]
        /\ GotoWith(q, "addMessage", m)
  BY DEF InsertMessage
<1>4. StoresTyped' /\ RowsStay
  <2>1. messages' \in [Messages -> Absent(Sessions)]
    BY <1>3, <1>2 DEF TypeInv, StoresTyped, Absent
  <2>2. QED
    BY <2>1 DEF InsertMessage, TypeInv, StoresTyped, RowsStay, docVars
<1>5. Keeps(q, "addMessage") /\ requests'[q].made = m
  BY <1>1, <1>3, GotoWithKeeps DEF Stages, Absent, Ids
<1>6. WellFormed(requests[q])'
  BY <1>5, <1>1, <1>2, KeepsWell DEF Stages
<1>7. Found(requests[q])'
  BY <1>5, <1>2 DEF Keeps, Found, InsertMessage
<1>8. QED
  BY <1>5, <1>4, <1>6, <1>7, OneMoves DEF Keeps

LEMMA AddMessageTyped ==
  ASSUME TypeInv, NEW q \in Requests, AddMessage(q)
  PROVE  TypeInv'
<1>1. Typed /\ WellFormed(requests[q]) /\ At(q, "addMessage")
  BY DEF TypeInv, AddMessage
<1>2. /\ requests[q].op = "createMessage" /\ requests[q].about \in Sessions
      /\ requests[q].org \in Orgs /\ requests[q].made \in Messages
      /\ sessions[requests[q].about] # None
  BY <1>1 DEF At, WellFormed, Guarded, OnSession, TypeInv, Found
<1>3. StoresTyped' /\ RowsStay
  <2>1. sessions[requests[q].about] \in SessionRows
    BY <1>2 DEF TypeInv, StoresTyped, Absent
  <2>2. [org |-> requests[q].org, session |-> requests[q].about,
         sessionCreator |-> sessions[requests[q].about].creator] \in MessageDocs
    BY <1>2, <2>1 DEF SessionRows, MessageDocs
  <2>3. messageDocs' \in [Messages -> Absent(MessageDocs)]
    BY <2>2, <1>2 DEF AddMessage, TypeInv, StoresTyped, Absent
  <2>4. QED
    BY <2>3 DEF AddMessage, TypeInv, StoresTyped, RowsStay, rowVars
<1>4. Keeps(q, "answered")
  BY <1>1, AnswerKeeps DEF AddMessage
<1>5. WellFormed(requests[q])'
  BY <1>4, <1>1, <1>2, KeepsWell DEF Stages
<1>6. QED
  BY <1>4, <1>3, <1>5, OneMoves DEF Keeps, Found

LEMMA FindRunSessionTyped ==
  ASSUME TypeInv, NEW q \in Requests, FindRunSession(q)
  PROVE  TypeInv'
<1>1. Typed /\ WellFormed(requests[q]) /\ At(q, "findRunSession")
  BY DEF TypeInv, FindRunSession
<1>2. /\ requests[q].op = "createRun" /\ requests[q].about \in Sessions
      /\ requests[q].who \in People
  BY <1>1 DEF At, WellFormed, Guarded, OnRunsOfSession
<1>3. \/ actors' = actors
      \/ actors' = [actors EXCEPT ![requests[q].about] = @ \cup {requests[q].who}]
  BY DEF FindRunSession, SeeSession
<1>4. StoresTyped' /\ RowsStay
  <2>1. actors' \in [Sessions -> SUBSET People]
    BY <1>2, <1>3 DEF TypeInv, StoresTyped
  <2>2. QED
    BY <2>1 DEF FindRunSession, storeVars, TypeInv, StoresTyped, RowsStay, rowVars, docVars
<1>5. CASE Ends(q)
  BY <1>5, EndsWell, OneMoves, <1>4 DEF Ends
<1>6. CASE Keeps(q, "insertRun") /\ sessions[requests[q].about] # None
  <2>1. WellFormed(requests[q])'
    BY <1>6, <1>1, <1>2, KeepsWell DEF Stages
  <2>2. Found(requests[q])'
    BY <1>6 DEF Keeps, Found, FindRunSession, storeVars, rowVars
  <2>3. QED
    BY <1>6, <1>4, <2>1, <2>2, OneMoves DEF Keeps
<1>7. Refuse(q) \/ (Goto(q, "insertRun") /\ sessions[requests[q].about] # None)
  BY DEF FindRunSession, Visible
<1>8. QED
  BY <1>1, <1>5, <1>6, <1>7, RefuseEnds, GotoKeeps DEF Stages

LEMMA InsertRunTyped ==
  ASSUME TypeInv, NEW q \in Requests, InsertRun(q)
  PROVE  TypeInv'
<1>1. Typed /\ WellFormed(requests[q]) /\ At(q, "insertRun")
  BY DEF TypeInv, InsertRun
<1>2. /\ requests[q].op = "createRun" /\ requests[q].about \in Sessions
      /\ requests[q].org \in Orgs /\ sessions[requests[q].about] # None
  BY <1>1 DEF At, WellFormed, Guarded, OnRunsOfSession, TypeInv, Found
<1>3. PICK x \in RunIds :
        /\ runs[x] = None
        /\ runs' = [runs EXCEPT ![x] =
             [org |-> requests[q].org, session |-> requests[q].about]]
        /\ GotoWith(q, "setRun", x)
  BY DEF InsertRun
<1>4. StoresTyped' /\ RowsStay
  <2>1. [org |-> requests[q].org, session |-> requests[q].about] \in RunRows
    BY <1>2 DEF RunRows
  <2>2. runs' \in [RunIds -> Absent(RunRows)]
    BY <1>3, <2>1 DEF TypeInv, StoresTyped, Absent
  <2>3. QED
    BY <2>2 DEF InsertRun, TypeInv, StoresTyped, RowsStay, docVars
<1>5. Keeps(q, "setRun") /\ requests'[q].made = x
  BY <1>1, <1>3, GotoWithKeeps DEF Stages, Absent, Ids
<1>6. WellFormed(requests[q])'
  BY <1>5, <1>1, <1>2, KeepsWell DEF Stages
<1>7. Found(requests[q])'
  BY <1>5, <1>2 DEF Keeps, Found, InsertRun
<1>8. QED
  BY <1>5, <1>4, <1>6, <1>7, OneMoves DEF Keeps

LEMMA SetRunTyped ==
  ASSUME TypeInv, NEW q \in Requests, SetRun(q)
  PROVE  TypeInv'
<1>1. Typed /\ WellFormed(requests[q]) /\ At(q, "setRun")
  BY DEF TypeInv, SetRun
<1>2. /\ requests[q].op = "createRun" /\ requests[q].about \in Sessions
      /\ requests[q].org \in Orgs /\ requests[q].made \in RunIds
      /\ sessions[requests[q].about] # None
  BY <1>1 DEF At, WellFormed, Guarded, OnRunsOfSession, TypeInv, Found
<1>3. StoresTyped' /\ RowsStay
  <2>1. sessions[requests[q].about] \in SessionRows
    BY <1>2 DEF TypeInv, StoresTyped, Absent
  <2>2. [org |-> requests[q].org, session |-> requests[q].about,
         sessionCreator |-> sessions[requests[q].about].creator] \in RunDocs
    BY <1>2, <2>1 DEF SessionRows, RunDocs
  <2>3. runDocs' \in [RunIds -> Absent(RunDocs)]
    BY <2>2, <1>2 DEF SetRun, TypeInv, StoresTyped, Absent
  <2>4. QED
    BY <2>3 DEF SetRun, TypeInv, StoresTyped, RowsStay, rowVars
<1>4. Keeps(q, "audit")
  BY <1>1, GotoKeeps DEF SetRun, Stages
<1>5. WellFormed(requests[q])'
  BY <1>4, <1>1, <1>2, KeepsWell DEF Stages
<1>6. QED
  BY <1>4, <1>3, <1>5, OneMoves DEF Keeps, Found

LEMMA ListRunsTyped ==
  ASSUME TypeInv, NEW q \in Requests, ListRuns(q)
  PROVE  TypeInv'
<1>1. Typed /\ WellFormed(requests[q]) /\ At(q, "listRuns")
  BY DEF TypeInv, ListRuns
<1>2. /\ requests[q].op = "listRuns" /\ requests[q].about \in Sessions
      /\ requests[q].who \in People
  BY <1>1 DEF At, WellFormed, Guarded, OnRunsOfSession
<1>3. \/ actors' = actors
      \/ actors' = [actors EXCEPT ![requests[q].about] = @ \cup {requests[q].who}]
  BY DEF ListRuns, SeeSession
<1>4. StoresTyped' /\ RowsStay
  <2>1. actors' \in [Sessions -> SUBSET People]
    BY <1>2, <1>3 DEF TypeInv, StoresTyped
  <2>2. QED
    BY <2>1 DEF ListRuns, storeVars, TypeInv, StoresTyped, RowsStay, rowVars, docVars
<1>5. Keeps(q, "answered")
  BY <1>1, AnswerKeeps DEF ListRuns
<1>6. WellFormed(requests[q])'
  BY <1>5, <1>1, <1>2, KeepsWell DEF Stages
<1>7. QED
  BY <1>5, <1>4, <1>6, OneMoves DEF Keeps, Found

LEMMA FindRunTyped ==
  ASSUME TypeInv, NEW q \in Requests, FindRun(q)
  PROVE  TypeInv'
<1> DEFINE run == runs[requests[q].about]
<1>1. Typed /\ WellFormed(requests[q]) /\ At(q, "findRun")
  BY DEF TypeInv, FindRun
<1>2. requests[q].op \in OnRun /\ requests[q].about \in RunIds /\ requests[q].who \in People
  BY <1>1 DEF At, WellFormed, Guarded
<1>3. \/ actors' = actors
      \/ /\ run # None
         /\ actors' = [actors EXCEPT ![run.session] = @ \cup {requests[q].who}]
  BY DEF FindRun, SeeSession
<1>4. StoresTyped' /\ RowsStay
  <2>1. run # None => run.session \in Sessions
    BY <1>2 DEF TypeInv, StoresTyped, Absent, RunRows
  <2>2. actors' \in [Sessions -> SUBSET People]
    BY <1>2, <1>3, <2>1 DEF TypeInv, StoresTyped
  <2>3. QED
    BY <2>2 DEF FindRun, storeVars, TypeInv, StoresTyped, RowsStay, rowVars, docVars
<1>5. CASE Ends(q)
  BY <1>5, EndsWell, OneMoves, <1>4 DEF Ends
<1>6. ASSUME NEW stage \in {"answered", "audit"}, Keeps(q, stage)
      PROVE  TypeInv'
  <2>1. WellFormed(requests[q])'
    BY <1>6, <1>1, <1>2, KeepsWell DEF Stages, OnRun
  <2>2. Found(requests[q])'
    BY <1>6 DEF Keeps, Found
  <2>3. QED
    BY <1>6, <1>4, <2>1, <2>2, OneMoves DEF Keeps
<1>7. Refuse(q) \/ Answer(q) \/ Goto(q, "audit")
  BY <1>2 DEF FindRun, OnRun
<1>8. QED
  BY <1>1, <1>5, <1>6, <1>7, RefuseEnds, GotoKeeps, AnswerKeeps DEF Stages

\* The transaction of create and the step after it.
LEMMA OrganizationInserted ==
  ASSUME TypeInv, NEW q \in Requests, InsertOrganization(q)
  PROVE  \/ Ends(q) /\ UNCHANGED <<slugs, members>>
         \/ \E o \in Orgs :
              /\ slugs[o] = None
              /\ slugs' = [slugs EXCEPT ![o] = requests[q].about]
              /\ members' = [members EXCEPT ![o][requests[q].who] = "OWNER"]
              /\ Alone(q)
              /\ requests'[q].op = "createOrganization"
              /\ requests'[q].stage = "setMember"
              /\ requests'[q].org = o
              /\ requests'[q].who = requests[q].who
              /\ requests'[q].about = requests[q].who
              /\ requests'[q].granting = "OWNER"
              /\ requests'[q].role = requests[q].role
              /\ requests'[q].before = requests[q].before
<1>1. Typed /\ WellFormed(requests[q]) /\ At(q, "insertOrganization")
  BY DEF TypeInv, InsertOrganization
<1>2. requests[q].op = "createOrganization" /\ requests[q].who \in People
  BY <1>1 DEF At, WellFormed
<1>3. CASE Refuse(q) /\ UNCHANGED <<slugs, members>>
  BY <1>1, <1>3, RefuseEnds
<1>4. ASSUME NEW o \in Orgs,
             slugs[o] = None, slugs' = [slugs EXCEPT ![o] = requests[q].about],
             members' = [members EXCEPT ![o][requests[q].who] = "OWNER"],
             requests' = [requests EXCEPT ![q].stage = "setMember", ![q].org = o,
               ![q].about = requests[q].who, ![q].granting = "OWNER", ![q].made = o]
      PROVE  /\ Alone(q)
             /\ requests'[q].op = "createOrganization"
             /\ requests'[q].stage = "setMember"
             /\ requests'[q].org = o
             /\ requests'[q].who = requests[q].who
             /\ requests'[q].about = requests[q].who
             /\ requests'[q].granting = "OWNER"
             /\ requests'[q].role = requests[q].role
             /\ requests'[q].before = requests[q].before
  <2> DEFINE r == [requests[q] EXCEPT !.stage = "setMember", !.org = o,
                     !.about = requests[q].who, !.granting = "OWNER", !.made = o]
  <2>1. requests' = [requests EXCEPT ![q] = r]
    BY <1>1, <1>4 DEF Typed
  <2>2. /\ "setMember" \in Stages /\ o \in Absent(Orgs) /\ o \in Absent(Ids)
        /\ requests[q].who \in Absent(Ids) /\ "OWNER" \in Absent(Roles)
    BY <1>2 DEF Stages, Absent, Ids, Roles
  <2>3. r \in RequestType
    BY <1>1, <2>2 DEF Typed, RequestType
  <2>4. Alone(q) /\ requests'[q] = r
    BY <1>1, <2>1, <2>3 DEF Alone, Typed
  <2>5. QED
    BY <1>1, <1>2, <2>4 DEF Typed, RequestType
<1>5. CASE \E o \in Orgs :
             /\ slugs[o] = None
             /\ slugs' = [slugs EXCEPT ![o] = requests[q].about]
             /\ members' = [members EXCEPT ![o][requests[q].who] = "OWNER"]
             /\ requests' = [requests EXCEPT ![q].stage = "setMember", ![q].org = o,
                  ![q].about = requests[q].who, ![q].granting = "OWNER", ![q].made = o]
  BY <1>4, <1>5
<1>6. QED
  BY <1>3, <1>5 DEF InsertOrganization

LEMMA InsertOrganizationTyped ==
  ASSUME TypeInv, NEW q \in Requests, InsertOrganization(q)
  PROVE  TypeInv'
<1>1. Typed /\ WellFormed(requests[q]) /\ At(q, "insertOrganization")
  BY DEF TypeInv, InsertOrganization
<1>2. requests[q].who \in People /\ requests[q].about \in Slugs
  BY <1>1 DEF At, WellFormed
<1>3. CASE Ends(q) /\ UNCHANGED <<slugs, members>>
  <2>1. StoresTyped' /\ RowsStay
    BY <1>3 DEF InsertOrganization, TypeInv, StoresTyped, RowsStay, docVars
  <2>2. QED
    BY <1>3, <2>1, EndsWell, OneMoves DEF Ends
<1>4. ASSUME NEW o \in Orgs, slugs' = [slugs EXCEPT ![o] = requests[q].about],
             members' = [members EXCEPT ![o][requests[q].who] = "OWNER"],
             Alone(q),
             requests'[q].op = "createOrganization", requests'[q].stage = "setMember",
             requests'[q].org = o, requests'[q].about = requests[q].who,
             requests'[q].granting = "OWNER"
      PROVE  TypeInv'
  <2>1. slugs' \in [Orgs -> Absent(Slugs)]
    BY <1>2, <1>4 DEF TypeInv, StoresTyped, Absent
  <2>2. members \in [Orgs -> [People -> Absent(Roles)]] /\ "OWNER" \in Absent(Roles)
    BY DEF TypeInv, StoresTyped, Absent, Roles
  <2>3. members' \in [Orgs -> [People -> Absent(Roles)]]
    BY <1>2, <1>4, <2>2, RoleSet
  <2>4. StoresTyped' /\ RowsStay
    BY <2>1, <2>3 DEF InsertOrganization, TypeInv, StoresTyped, RowsStay, docVars
  <2>5. WellFormed(requests[q])' /\ Found(requests[q])'
    BY <1>2, <1>4 DEF WellFormed, Found, Guarded, OnOrganization, OnSession, OnRunsOfSession, OnRun, Roles
  <2>6. QED
    BY <1>4, <2>4, <2>5, OneMoves
<1>5. QED
  BY <1>3, <1>4, OrganizationInserted

\* A request comes in with what its route takes from the client.
Arrives(q, op, who, org, about, granting, before) ==
  /\ Come(q, op, who, org, about, granting, before)
  /\ \/ op = "createOrganization" /\ who \in People /\ about \in Slugs /\ before = FALSE
     \/ /\ op \in Guarded /\ who \in People /\ org \in Orgs
        /\ op \in OnSession \cup OnRunsOfSession => about \in Sessions
        /\ op \in OnRun => about \in RunIds
        /\ op = "addMember" => about \in People /\ granting \in Roles
        /\ op = "revokeKey" => about \in Keys
        /\ before = (members[org][who] # None)
     \/ op = "authenticate" /\ about \in Keys
        /\ before = (<<"api_key.revoked", about>> \in audit)

LEMMA RequestComes ==
  ASSUME Typed, NEW q \in Requests, Request(q)
  PROVE  \E op \in AllOperations, who \in Absent(People), org \in Absent(Orgs),
            about \in Absent(Ids), granting \in Absent(Roles), before \in BOOLEAN :
           Arrives(q, op, who, org, about, granting, before)
<1>1. CASE \E p \in People, slug \in Slugs :
             Come(q, "createOrganization", p, None, slug, None, FALSE)
  <2>1. PICK p \in People, slug \in Slugs :
          Come(q, "createOrganization", p, None, slug, None, FALSE)
    BY <1>1
  <2>2. /\ "createOrganization" \in AllOperations /\ p \in Absent(People)
        /\ None \in Absent(Orgs) /\ slug \in Absent(Ids) /\ None \in Absent(Roles)
        /\ FALSE \in BOOLEAN
    BY DEF AllOperations, Absent, Ids
  <2>3. QED
    BY <2>1, <2>2 DEF Arrives
<1>2. CASE \E op \in Guarded, p \in People, o \in Orgs :
             \E about \in Subjects(op) :
             \E granting \in IF op = "addMember" THEN Granted ELSE {None} :
               Come(q, op, p, o, about, granting, members[o][p] # None)
  <2>1. PICK op \in Guarded, p \in People, o \in Orgs :
             \E about \in Subjects(op) :
             \E granting \in IF op = "addMember" THEN Granted ELSE {None} :
               Come(q, op, p, o, about, granting, members[o][p] # None)
    BY <1>2
  <2>2. PICK about \in Subjects(op) :
             \E granting \in IF op = "addMember" THEN Granted ELSE {None} :
               Come(q, op, p, o, about, granting, members[o][p] # None)
    BY <2>1
  <2>3. PICK granting \in IF op = "addMember" THEN Granted ELSE {None} :
               Come(q, op, p, o, about, granting, members[o][p] # None)
    BY <2>2
  <2>4. /\ op = "addMember" => about \in People /\ granting \in Roles
        /\ op # "addMember" => granting = None
    <3>1. CASE op = "addMember"
      <4>1. about \in People
        BY <3>1 DEF Subjects, OnSession, OnRunsOfSession, OnRun
      <4>2. granting \in Granted
        BY <3>1
      <4>3. QED
        BY <3>1, <4>1, <4>2, BoundsAssumption
    <3>2. CASE op # "addMember"
      <4>1. granting \in {None}
        BY <3>2
      <4>2. QED
        BY <3>2, <4>1
    <3>3. QED
      BY <3>1, <3>2
  <2>5. /\ op \in OnSession \cup OnRunsOfSession => about \in Sessions
        /\ op \in OnRun => about \in RunIds
        /\ op = "revokeKey" => about \in Keys
        /\ about \in Absent(Ids)
    BY DEF Subjects, OnSession, OnRunsOfSession, OnRun, OnOrganization, Ids, Absent
  <2>6. /\ op \in AllOperations /\ op \in Guarded /\ p \in Absent(People)
        /\ o \in Absent(Orgs) /\ granting \in Absent(Roles)
        /\ (members[o][p] # None) \in BOOLEAN
    BY <2>4 DEF AllOperations, Absent
  <2>7. QED
    BY <2>3, <2>4, <2>5, <2>6 DEF Arrives
<1>3. CASE \E k \in Keys :
             Come(q, "authenticate", None, None, k, None, <<"api_key.revoked", k>> \in audit)
  <2>1. PICK k \in Keys :
             Come(q, "authenticate", None, None, k, None, <<"api_key.revoked", k>> \in audit)
    BY <1>3
  <2>2. /\ "authenticate" \in AllOperations /\ None \in Absent(People)
        /\ None \in Absent(Orgs) /\ k \in Absent(Ids) /\ None \in Absent(Roles)
        /\ (<<"api_key.revoked", k>> \in audit) \in BOOLEAN
    BY DEF AllOperations, Absent, Ids
  <2>3. QED
    BY <2>1, <2>2 DEF Arrives
<1>4. QED
  BY <1>1, <1>2, <1>3 DEF Request

\* The record of a request that has come in.
LEMMA ComeMoves ==
  ASSUME Typed, NEW q \in Requests, NEW op \in AllOperations,
         NEW who \in Absent(People), NEW org \in Absent(Orgs), NEW about \in Absent(Ids),
         NEW granting \in Absent(Roles), NEW before \in BOOLEAN,
         Come(q, op, who, org, about, granting, before)
  PROVE  /\ Alone(q)
         /\ requests'[q].op = op
         /\ requests'[q].stage = EntryStage(op)
         /\ requests'[q].who = who
         /\ requests'[q].org = org
         /\ requests'[q].about = about
         /\ requests'[q].granting = granting
         /\ requests'[q].role = None
         /\ requests'[q].before = before
<1> DEFINE r == [op |-> op, stage |-> EntryStage(op), who |-> who, org |-> org,
                 about |-> about, granting |-> granting, role |-> None, made |-> None,
                 before |-> before]
<1>1. EntryStage(op) \in Stages /\ None \in Absent(Roles) /\ None \in Absent(Ids)
  BY DEF EntryStage, Stages, Absent
<1>2. r \in RequestType
  BY <1>1 DEF RequestType
<1>3. requests' = [requests EXCEPT ![q] = r]
  BY DEF Come
<1>4. Alone(q) /\ requests'[q] = r
  BY <1>2, <1>3 DEF Alone, Typed
<1>5. QED
  BY <1>4

LEMMA RequestTyped ==
  ASSUME TypeInv, NEW q \in Requests, Request(q)
  PROVE  TypeInv'
<1>1. Typed
  BY DEF TypeInv
<1>2. PICK op \in AllOperations, who \in Absent(People), org \in Absent(Orgs),
           about \in Absent(Ids), granting \in Absent(Roles), before \in BOOLEAN :
           Arrives(q, op, who, org, about, granting, before)
  BY <1>1, RequestComes
<1>3. StoresTyped' /\ RowsStay
  <2>1. users' \subseteq People
    BY <1>2 DEF Arrives, Come, TypeInv, StoresTyped, Absent
  <2>2. QED
    BY <1>2, <2>1 DEF Arrives, Come, TypeInv, StoresTyped, RowsStay, docVars
<1>4. /\ Alone(q)
      /\ requests'[q].op = op
      /\ requests'[q].stage = EntryStage(op)
      /\ requests'[q].who = who
      /\ requests'[q].org = org
      /\ requests'[q].about = about
      /\ requests'[q].granting = granting
  BY <1>1, <1>2, ComeMoves DEF Arrives
<1>5. WellFormed(requests[q])' /\ Found(requests[q])'
  BY <1>2, <1>4 DEF Arrives, WellFormed, Found, EntryStage, Guarded, OnOrganization, OnSession, OnRunsOfSession, OnRun
<1>6. QED
  BY <1>3, <1>4, <1>5, OneMoves

LEMMA CacheExpiresTyped ==
  ASSUME TypeInv, NEW o \in Orgs, NEW p \in People, CacheExpires(o, p)
  PROVE  TypeInv'
<1>1. cache' \in [Orgs -> [People -> Absent(Roles)]]
  BY RoleSet DEF CacheExpires, TypeInv, StoresTyped, Absent
<1>2. StoresTyped' /\ requests' = requests /\ sessions' = sessions /\ keys' = keys
  BY <1>1 DEF CacheExpires, TypeInv, StoresTyped, rowVars, docVars
<1>3. QED
  BY <1>2 DEF TypeInv, Typed, WellFormed, Found

LEMMA TypeInit == Init => TypeInv
<1> SUFFICES ASSUME Init PROVE TypeInv
  OBVIOUS
<1>1. StoresTyped
  BY DEF Init, StoresTyped, Absent
<1>2. Idle \in RequestType
  BY DEF Idle, RequestType, Stages, Absent
<1>3. WellFormed(Idle) /\ Found(Idle)
  BY DEF Idle, WellFormed, Found, Guarded, OnOrganization, OnSession, OnRunsOfSession, OnRun
<1>4. QED
  BY <1>1, <1>2, <1>3 DEF Init, TypeInv, Typed

LEMMA TypeStep == TypeInv /\ [Next]_vars => TypeInv'
<1> SUFFICES ASSUME TypeInv, [Next]_vars PROVE TypeInv'
  OBVIOUS
<1>1. CASE UNCHANGED vars
  BY <1>1 DEF TypeInv, StoresTyped, Typed, WellFormed, Found, vars, storeVars, rowVars, docVars
<1>2. ASSUME NEW q \in Requests, Step(q)
      PROVE  TypeInv'
  <2>1. CASE Request(q)
    BY <2>1, RequestTyped
  <2>2. CASE Guard(q)
    BY <2>2, ReadCacheTyped, FindMembershipTyped, FillCacheTyped DEF Guard
  <2>3. CASE HandleOrganization(q)
    BY <2>3, FindSlugTyped, InsertOrganizationTyped, FindUserTyped, InsertMembershipTyped,
       InvalidateTyped, SetMemberTyped, AuditTyped DEF HandleOrganization
  <2>4. CASE HandleSession(q)
    BY <2>4, InsertSessionTyped, FindSessionTyped, UpdateSessionTyped,
       InsertMessageTyped, AddMessageTyped DEF HandleSession
  <2>5. CASE HandleRun(q)
    BY <2>5, FindRunSessionTyped, InsertRunTyped, SetRunTyped, ListRunsTyped,
       FindRunTyped DEF HandleRun
  <2>6. CASE HandleKey(q)
    BY <2>6, InsertKeyTyped, FindKeyTyped, RevokeKeyTyped, FindByPrefixTyped,
       TouchKeyTyped DEF HandleKey
  <2>7. CASE Throw(q)
    BY <2>7, ThrowTyped
  <2>8. QED
    BY <1>2, <2>1, <2>2, <2>3, <2>4, <2>5, <2>6, <2>7 DEF Step
<1>3. QED
  BY <1>1, <1>2, CacheExpiresTyped DEF Next

\* Every variable keeps its type; a handler never finds a null where it has looked
\* a row up before, however requests interleave and wherever they stop.
THEOREM TypeCorrect == Spec => []TypeOK
<1>1. TypeInv => TypeOK
  BY DEF TypeInv, StoresTyped, Typed, TypeOK
<1>2. QED
  BY <1>1, TypeInit, TypeStep, PTL DEF Spec

-----------------------------------------------------------------------------
(* Roles: no request acts, and no cache entry lets one act, with a role    *)
(* other than that of the person's row.                                    *)
(*                                                                         *)
(* The argument: a membership row, once there, stays as it is, so a role   *)
(* that was read from it may be used and cached whenever.  That needs the  *)
(* transaction of create to meet an organization without rows, hence rows  *)
(* only in organizations that exist, hence addMember only by a member.     *)

\* Rows are those of organizations that exist.
Backed == \A o \in Orgs, p \in People : members[o][p] # None => slugs[o] # None

CacheFollows ==
  \A o \in Orgs, p \in People : cache[o][p] # None => cache[o][p] = members[o][p]

\* The role of a request is that of its row, and addMember is carried out with one.
RoleHeld(r) ==
  /\ r.role # None => r.op \in Guarded /\ r.role = members[r.org][r.who]
  /\ r.stage \in {"findUser", "insertMembership"} => r.role # None

RolesInv ==
  /\ Backed
  /\ CacheFollows
  /\ \A q \in Requests : RoleHeld(requests[q])

MembersKept ==
  \A o \in Orgs, p \in People : members[o][p] # None => members'[o][p] = members[o][p]

-----------------------------------------------------------------------------
(* One request moves.                                                      *)

LEMMA RoleStays ==
  ASSUME TypeInv, NEW r \in RequestType, WellFormed(r), RoleHeld(r), MembersKept
  PROVE  r.role # None => r.op \in Guarded /\ r.role = members'[r.org][r.who]
  BY DEF RoleHeld, WellFormed, MembersKept

LEMMA OthersHold ==
  ASSUME TypeInv, RolesInv, NEW q \in Requests, Alone(q), MembersKept,
         Backed', CacheFollows', RoleHeld(requests[q])'
  PROVE  RolesInv'
<1>1. ASSUME NEW p \in Requests \ {q}
      PROVE  RoleHeld(requests[p])'
  <2>1. /\ requests[p] \in RequestType /\ WellFormed(requests[p])
        /\ RoleHeld(requests[p])
    BY DEF TypeInv, Typed, RolesInv
  <2>2. requests'[p] = requests[p]
    BY DEF Alone
  <2>3. QED
    BY <2>1, <2>2, RoleStays DEF RoleHeld
<1>2. QED
  BY <1>1 DEF RolesInv

LEMMA EndsHolds ==
  ASSUME NEW q \in Requests, Ends(q)
  PROVE  RoleHeld(requests[q])'
  BY DEF Ends, RoleHeld

LEMMA KeepsHolds ==
  ASSUME TypeInv, RolesInv, NEW q \in Requests, NEW stage \in Stages, Keeps(q, stage),
         MembersKept, requests'[q].role \in {requests[q].role, None},
         stage \in {"findUser", "insertMembership"} => requests'[q].role # None
  PROVE  RoleHeld(requests[q])'
<1>1. requests[q] \in RequestType /\ WellFormed(requests[q]) /\ RoleHeld(requests[q])
  BY DEF TypeInv, Typed, RolesInv
<1>2. requests'[q].role # None =>
        requests'[q].op \in Guarded
        /\ requests'[q].role = members'[requests'[q].org][requests'[q].who]
  BY <1>1, RoleStays DEF Keeps
<1>3. QED
  BY <1>2 DEF RoleHeld, Keeps

LEMMA RowsUntouched ==
  ASSUME RolesInv, UNCHANGED <<slugs, members, cache>>
  PROVE  MembersKept /\ Backed' /\ CacheFollows'
  BY DEF RolesInv, MembersKept, Backed, CacheFollows

\* A step that leaves organizations, memberships and the cache alone.
LEMMA QuietMove ==
  ASSUME TypeInv, RolesInv, NEW q \in Requests, UNCHANGED <<slugs, members, cache>>,
         \/ Refuse(q)
         \/ Answer(q)
         \/ \E stage \in Stages \ {"findUser", "insertMembership"} : Goto(q, stage)
         \/ requests[q].stage = "findUser" /\ Goto(q, "insertMembership")
         \/ \E stage \in Stages \ {"findUser", "insertMembership"}, made \in Absent(Ids) :
              GotoWith(q, stage, made)
  PROVE  RolesInv'
<1>1. Typed /\ RoleHeld(requests[q])
  BY DEF TypeInv, RolesInv
<1>2. Alone(q) /\ RoleHeld(requests[q])'
  <2>1. CASE Refuse(q)
    BY <1>1, <2>1, RefuseEnds, EndsHolds DEF Ends
  <2>2. CASE Answer(q)
    <3>1. Keeps(q, "answered") /\ requests'[q].role = None
      BY <1>1, <2>2, AnswerKeeps
    <3>2. QED
      BY <3>1, RowsUntouched, KeepsHolds DEF Stages, Keeps
  <2>3. ASSUME NEW stage \in Stages \ {"findUser", "insertMembership"}, Goto(q, stage)
        PROVE  Alone(q) /\ RoleHeld(requests[q])'
    <3>1. Keeps(q, stage) /\ requests'[q].role = requests[q].role
      BY <1>1, <2>3, GotoKeeps
    <3>2. QED
      BY <3>1, RowsUntouched, KeepsHolds DEF Keeps
  <2>4. CASE requests[q].stage = "findUser" /\ Goto(q, "insertMembership")
    <3>1. Keeps(q, "insertMembership") /\ requests'[q].role = requests[q].role
      BY <1>1, <2>4, GotoKeeps DEF Stages
    <3>2. requests[q].role # None
      BY <1>1, <2>4 DEF RoleHeld
    <3>3. QED
      BY <3>1, <3>2, RowsUntouched, KeepsHolds DEF Stages, Keeps
  <2>5. ASSUME NEW stage \in Stages \ {"findUser", "insertMembership"},
               NEW made \in Absent(Ids), GotoWith(q, stage, made)
        PROVE  Alone(q) /\ RoleHeld(requests[q])'
    <3>1. Keeps(q, stage) /\ requests'[q].role = requests[q].role
      BY <1>1, <2>5, GotoWithKeeps
    <3>2. QED
      BY <3>1, RowsUntouched, KeepsHolds DEF Keeps
  <2>6. QED
    BY <2>1, <2>2, <2>3, <2>4, <2>5
<1>3. QED
  BY <1>2, RowsUntouched, OthersHold

LEMMA QuietHandlers ==
  ASSUME TypeInv, RolesInv, NEW q \in Requests,
         \/ FindSlug(q) \/ FindUser(q) \/ SetMember(q) \/ Audit(q)
         \/ HandleSession(q) \/ HandleRun(q) \/ HandleKey(q) \/ Throw(q)
  PROVE  RolesInv'
<1>1. CASE FindSlug(q)
  BY <1>1, QuietMove DEF FindSlug, Stages, storeVars, rowVars
<1>2. CASE FindUser(q)
  BY <1>2, QuietMove DEF FindUser, At, storeVars, rowVars
<1>3. CASE SetMember(q)
  BY <1>3, QuietMove DEF SetMember, Stages, rowVars
<1>4. CASE Audit(q)
  BY <1>4, QuietMove DEF Audit
<1>5. CASE InsertSession(q)
  <2>1. \E s \in Absent(Ids) : GotoWith(q, "audit", s)
    BY <1>5 DEF InsertSession, Absent, Ids
  <2>2. QED
    BY <1>5, <2>1, QuietMove DEF InsertSession, Stages
<1>6. CASE FindSession(q)
  <2>1. WellFormed(requests[q])
    BY DEF TypeInv
  <2>2. \/ Refuse(q) \/ Answer(q)
        \/ Goto(q, "updateSession") \/ Goto(q, "insertMessage")
    BY <1>6, <2>1 DEF FindSession, At, WellFormed, OnSession
  <2>3. QED
    BY <1>6, <2>2, QuietMove DEF FindSession, Stages, storeVars, rowVars
<1>7. CASE UpdateSession(q)
  BY <1>7, QuietMove DEF UpdateSession, Stages, storeVars, rowVars
<1>8. CASE InsertMessage(q)
  <2>1. \E m \in Absent(Ids) : GotoWith(q, "addMessage", m)
    BY <1>8 DEF InsertMessage, Absent, Ids
  <2>2. QED
    BY <1>8, <2>1, QuietMove DEF InsertMessage, Stages
<1>9. CASE AddMessage(q)
  BY <1>9, QuietMove DEF AddMessage, rowVars
<1>10. CASE InsertKey(q)
  <2>1. \E k \in Absent(Ids) : GotoWith(q, "audit", k)
    BY <1>10 DEF InsertKey, Absent, Ids
  <2>2. QED
    BY <1>10, <2>1, QuietMove DEF InsertKey, Stages
<1>11. CASE FindKey(q)
  <2>1. Refuse(q) \/ Goto(q, "revokeKey")
    BY <1>11 DEF FindKey
  <2>2. QED
    BY <1>11, <2>1, QuietMove DEF FindKey, Stages, storeVars, rowVars
<1>12. CASE RevokeKey(q)
  BY <1>12, QuietMove DEF RevokeKey, Stages
<1>13. CASE FindByPrefix(q)
  <2>1. Refuse(q) \/ Goto(q, "touchKey")
    BY <1>13 DEF FindByPrefix
  <2>2. QED
    BY <1>13, <2>1, QuietMove DEF FindByPrefix, Stages, storeVars, rowVars
<1>14. CASE TouchKey(q)
  BY <1>14, QuietMove DEF TouchKey, storeVars, rowVars
<1>15. CASE Throw(q)
  BY <1>15, QuietMove DEF Throw, storeVars, rowVars
<1>16. CASE FindRunSession(q)
  <2>1. Refuse(q) \/ Goto(q, "insertRun")
    BY <1>16 DEF FindRunSession
  <2>2. QED
    BY <1>16, <2>1, QuietMove DEF FindRunSession, Stages, storeVars, rowVars
<1>17. CASE InsertRun(q)
  <2>1. \E x \in Absent(Ids) : GotoWith(q, "setRun", x)
    BY <1>17 DEF InsertRun, Absent, Ids
  <2>2. QED
    BY <1>17, <2>1, QuietMove DEF InsertRun, Stages
<1>18. CASE SetRun(q)
  BY <1>18, QuietMove DEF SetRun, Stages, rowVars
<1>19. CASE ListRuns(q)
  BY <1>19, QuietMove DEF ListRuns, storeVars, rowVars
<1>20. CASE FindRun(q)
  <2>1. WellFormed(requests[q])
    BY DEF TypeInv
  <2>2. Refuse(q) \/ Answer(q) \/ Goto(q, "audit")
    BY <1>20, <2>1 DEF FindRun, At, WellFormed, OnRun
  <2>3. QED
    BY <1>20, <2>2, QuietMove DEF FindRun, Stages, storeVars, rowVars
<1>21. QED
  BY <1>1, <1>2, <1>3, <1>4, <1>5, <1>6, <1>7, <1>8, <1>9, <1>10, <1>11, <1>12,
     <1>13, <1>14, <1>15, <1>16, <1>17, <1>18, <1>19, <1>20
  DEF HandleSession, HandleRun, HandleKey

-----------------------------------------------------------------------------
(* The guard.                                                              *)

LEMMA AdmitHolds ==
  ASSUME TypeInv, RolesInv, NEW q \in Requests, NEW role \in Absent(Roles),
         Admit(q, role), UNCHANGED <<slugs, members>>, CacheFollows',
         requests[q].op \in Guarded,
         role # None => role = members[requests[q].org][requests[q].who]
  PROVE  RolesInv'
<1>1. Typed /\ MembersKept /\ Backed'
  BY DEF TypeInv, MembersKept, RolesInv, Backed
<1>2. CASE Ends(q)
  BY <1>1, <1>2, EndsHolds, OthersHold DEF Ends
<1>3. CASE role \in Roles /\ Keeps(q, FirstStage(requests[q].op))
             /\ requests'[q].role = role
  <2>1. role # None
    BY <1>3, NoneAssumption
  <2>2. RoleHeld(requests[q])'
    BY <1>3, <2>1 DEF RoleHeld, Keeps
  <2>3. QED
    BY <1>1, <1>3, <2>2, OthersHold DEF Keeps
<1>4. QED
  BY <1>1, <1>2, <1>3, AdmitCases

LEMMA ReadCacheHolds ==
  ASSUME TypeInv, RolesInv, NEW q \in Requests, ReadCache(q)
  PROVE  RolesInv'
<1> DEFINE role == cache[requests[q].org][requests[q].who]
<1>1. UNCHANGED <<slugs, members, cache>> /\ At(q, "readCache")
  BY DEF ReadCache, storeVars, rowVars
<1>2. WellFormed(requests[q])
  BY DEF TypeInv
<1>3. /\ requests[q].op \in Guarded
      /\ requests[q].org \in Orgs /\ requests[q].who \in People
  BY <1>1, <1>2 DEF At, WellFormed
<1>4. CASE Goto(q, "findMembership")
  BY <1>1, <1>4, QuietMove DEF Stages
<1>5. CASE Admit(q, role)
  <2>1. role \in Absent(Roles)
    BY <1>3 DEF TypeInv, StoresTyped
  <2>2. role # None => role = members[requests[q].org][requests[q].who]
    BY <1>3 DEF RolesInv, CacheFollows
  <2>3. QED
    BY <1>1, <1>3, <1>5, <2>1, <2>2, AdmitHolds, RowsUntouched
<1>6. QED
  BY <1>4, <1>5 DEF ReadCache

LEMMA FindMembershipHolds ==
  ASSUME TypeInv, RolesInv, NEW q \in Requests, FindMembership(q)
  PROVE  RolesInv'
<1> DEFINE role == members[requests[q].org][requests[q].who]
<1>1. UNCHANGED <<slugs, members, cache>> /\ At(q, "findMembership")
  BY DEF FindMembership, storeVars, rowVars
<1>2. Typed /\ WellFormed(requests[q])
  BY DEF TypeInv
<1>3. /\ requests[q].op \in Guarded
      /\ requests[q].org \in Orgs /\ requests[q].who \in People
  BY <1>1, <1>2 DEF At, WellFormed
<1>4. MembersKept /\ Backed' /\ CacheFollows'
  BY <1>1, RowsUntouched
<1>5. CASE Admit(q, None)
  BY <1>1, <1>3, <1>4, <1>5, AdmitHolds DEF Absent
<1>6. CASE /\ role # None
           /\ requests' = [requests EXCEPT ![q].stage = "fillCache", ![q].role = role]
  <2>1. role \in Roles
    BY <1>3, <1>6 DEF TypeInv, StoresTyped, Absent
  <2>2. Keeps(q, "fillCache") /\ requests'[q].role = role
    BY <1>2, <1>6, <2>1, FillKeeps
  <2>3. RoleHeld(requests[q])'
    BY <1>1, <1>3, <2>2 DEF RoleHeld, Keeps
  <2>4. QED
    BY <1>4, <2>2, <2>3, OthersHold DEF Keeps
<1>7. QED
  BY <1>5, <1>6 DEF FindMembership

\* What the lookup found is still the row when it is cached.
LEMMA FillCacheHolds ==
  ASSUME TypeInv, RolesInv, NEW q \in Requests, FillCache(q)
  PROVE  RolesInv'
<1> DEFINE r == requests[q]
<1>1. At(q, "fillCache") /\ Admit(q, r.role) /\ UNCHANGED <<slugs, members>>
  BY DEF FillCache, rowVars
<1>2. WellFormed(r) /\ RoleHeld(r)
  BY DEF TypeInv, RolesInv
<1>3. r.op \in Guarded /\ r.org \in Orgs /\ r.who \in People /\ r.role \in Roles
  BY <1>1, <1>2 DEF At, WellFormed
<1>4. r.role = members[r.org][r.who]
  BY <1>2, <1>3, NoneAssumption DEF RoleHeld
<1>5. cache' = [cache EXCEPT ![r.org][r.who] = r.role]
  BY DEF FillCache
<1>6. cache \in [Orgs -> [People -> Absent(Roles)]] /\ r.role \in Absent(Roles)
  BY <1>3 DEF TypeInv, StoresTyped, Absent
<1>7. \A o \in Orgs, p \in People : cache'[o][p] = cache[o][p] \/ cache'[o][p] = members[o][p]
  BY <1>3, <1>4, <1>5, <1>6, RoleSet
<1>8. CacheFollows'
  BY <1>1, <1>7 DEF RolesInv, CacheFollows
<1>9. QED
  BY <1>1, <1>3, <1>4, <1>6, <1>8, AdmitHolds

\* An entry is removed, by invalidate or by its TTL.
LEMMA EntryRemoved ==
  ASSUME TypeInv, RolesInv, NEW o \in Orgs, NEW p \in People,
         cache' = [cache EXCEPT ![o][p] = None], UNCHANGED <<slugs, members>>
  PROVE  MembersKept /\ Backed' /\ CacheFollows'
<1>1. cache \in [Orgs -> [People -> Absent(Roles)]] /\ None \in Absent(Roles)
  BY DEF TypeInv, StoresTyped, Absent
<1>2. \A o2 \in Orgs, p2 \in People : cache'[o2][p2] \in {cache[o2][p2], None}
  BY <1>1, RoleSet
<1>3. QED
  BY <1>2 DEF RolesInv, MembersKept, Backed, CacheFollows

LEMMA InvalidateHolds ==
  ASSUME TypeInv, RolesInv, NEW q \in Requests, Invalidate(q)
  PROVE  RolesInv'
<1>1. Typed /\ WellFormed(requests[q]) /\ At(q, "invalidate")
  BY DEF TypeInv, Invalidate
<1>2. requests[q].org \in Orgs /\ requests[q].about \in People
  BY <1>1 DEF At, WellFormed, Guarded, OnOrganization
<1>3. MembersKept /\ Backed' /\ CacheFollows'
  BY <1>2, EntryRemoved DEF Invalidate, rowVars
<1>4. Keeps(q, "setMember") /\ requests'[q].role = requests[q].role
  BY <1>1, GotoKeeps DEF Invalidate, Stages
<1>5. RoleHeld(requests[q])'
  BY <1>3, <1>4, KeepsHolds DEF Stages
<1>6. QED
  BY <1>3, <1>4, <1>5, OthersHold DEF Keeps

LEMMA CacheExpiresHolds ==
  ASSUME TypeInv, RolesInv, NEW o \in Orgs, NEW p \in People, CacheExpires(o, p)
  PROVE  RolesInv'
<1>1. requests' = requests /\ members' = members
  BY DEF CacheExpires, rowVars
<1>2. Backed' /\ CacheFollows'
  BY EntryRemoved DEF CacheExpires, rowVars
<1>3. QED
  BY <1>1, <1>2 DEF RolesInv, RoleHeld

-----------------------------------------------------------------------------
(* New rows.                                                               *)

\* A row is made where there was none, in an organization that exists.
LEMMA RowMade ==
  ASSUME TypeInv, RolesInv, NEW o \in Orgs, NEW p \in People, NEW role \in Roles,
         members[o][p] = None, members' = [members EXCEPT ![o][p] = role],
         slugs'[o] # None, \A o2 \in Orgs : slugs[o2] # None => slugs'[o2] # None,
         cache' = cache
  PROVE  MembersKept /\ Backed' /\ CacheFollows'
<1>1. members \in [Orgs -> [People -> Absent(Roles)]] /\ role \in Absent(Roles)
  BY DEF TypeInv, StoresTyped, Absent
<1>2. \A o2 \in Orgs, p2 \in People : o2 # o \/ p2 # p => members'[o2][p2] = members[o2][p2]
  BY <1>1, RoleSet
<1>3. MembersKept
  BY <1>2 DEF MembersKept
<1>4. Backed'
  BY <1>2 DEF RolesInv, Backed
<1>5. CacheFollows'
  BY <1>3 DEF RolesInv, CacheFollows, MembersKept
<1>6. QED
  BY <1>3, <1>4, <1>5

LEMMA InsertMembershipHolds ==
  ASSUME TypeInv, RolesInv, NEW q \in Requests, InsertMembership(q)
  PROVE  RolesInv'
<1> DEFINE r == requests[q]
<1>1. Typed /\ WellFormed(r) /\ RoleHeld(r) /\ At(q, "insertMembership")
  BY DEF TypeInv, RolesInv, InsertMembership
<1>2. /\ r.org \in Orgs /\ r.who \in People /\ r.about \in People
      /\ r.granting \in Roles
  BY <1>1 DEF At, WellFormed, Guarded, OnOrganization
<1>3. CASE Refuse(q) /\ members' = members
  BY <1>3, QuietMove DEF InsertMembership
<1>4. CASE /\ members[r.org][r.about] = None
           /\ members' = [members EXCEPT ![r.org][r.about] = r.granting]
           /\ Goto(q, "invalidate")
  <2>1. members[r.org][r.who] # None
    BY <1>1 DEF At, RoleHeld
  <2>2. slugs[r.org] # None
    BY <1>2, <2>1 DEF RolesInv, Backed
  <2>3. MembersKept /\ Backed' /\ CacheFollows'
    BY <1>2, <1>4, <2>2, RowMade DEF InsertMembership
  <2>4. Keeps(q, "invalidate") /\ requests'[q].role = r.role
    BY <1>1, <1>4, GotoKeeps DEF Stages
  <2>5. RoleHeld(requests[q])'
    BY <2>3, <2>4, KeepsHolds DEF Stages
  <2>6. QED
    BY <2>3, <2>4, <2>5, OthersHold DEF Keeps
<1>5. QED
  BY <1>3, <1>4 DEF InsertMembership

LEMMA InsertOrganizationHolds ==
  ASSUME TypeInv, RolesInv, NEW q \in Requests, InsertOrganization(q)
  PROVE  RolesInv'
<1>1. WellFormed(requests[q]) /\ RoleHeld(requests[q]) /\ At(q, "insertOrganization")
  BY DEF TypeInv, RolesInv, InsertOrganization
<1>2. /\ requests[q].op = "createOrganization" /\ requests[q].who \in People
      /\ requests[q].about \in Slugs
  BY <1>1 DEF At, WellFormed
<1>3. requests[q].role = None
  BY <1>1, <1>2 DEF RoleHeld, Guarded, OnOrganization, OnSession, OnRunsOfSession, OnRun
<1>4. CASE Ends(q) /\ UNCHANGED <<slugs, members>>
  BY <1>4, RowsUntouched, EndsHolds, OthersHold DEF Ends, InsertOrganization
<1>5. ASSUME NEW o \in Orgs, slugs[o] = None,
             slugs' = [slugs EXCEPT ![o] = requests[q].about],
             members' = [members EXCEPT ![o][requests[q].who] = "OWNER"],
             Alone(q), requests'[q].stage = "setMember",
             requests'[q].role = requests[q].role
      PROVE  RolesInv'
  <2>1. requests[q].about # None
    BY <1>2, NoneAssumption DEF Ids
  <2>2. slugs'[o] # None /\ \A o2 \in Orgs : slugs[o2] # None => slugs'[o2] # None
    BY <1>5, <2>1 DEF TypeInv, StoresTyped
  <2>3. members[o][requests[q].who] = None
    BY <1>2, <1>5 DEF RolesInv, Backed
  <2>4. MembersKept /\ Backed' /\ CacheFollows'
    BY <1>2, <1>5, <2>2, <2>3, RowMade DEF InsertOrganization, Roles
  <2>5. RoleHeld(requests[q])'
    BY <1>3, <1>5 DEF RoleHeld
  <2>6. QED
    BY <1>5, <2>4, <2>5, OthersHold
<1>6. QED
  BY <1>4, <1>5, OrganizationInserted

-----------------------------------------------------------------------------
(* The theorem.                                                            *)

LEMMA RequestHolds ==
  ASSUME TypeInv, RolesInv, NEW q \in Requests, Request(q)
  PROVE  RolesInv'
<1>1. Typed
  BY DEF TypeInv
<1>2. PICK op \in AllOperations, who \in Absent(People), org \in Absent(Orgs),
           about \in Absent(Ids), granting \in Absent(Roles), before \in BOOLEAN :
        Arrives(q, op, who, org, about, granting, before)
  BY <1>1, RequestComes
<1>3. Alone(q) /\ requests'[q].stage = EntryStage(op) /\ requests'[q].role = None
  BY <1>1, <1>2, ComeMoves DEF Arrives
<1>4. RoleHeld(requests[q])'
  BY <1>3 DEF RoleHeld, EntryStage
<1>5. QED
  BY <1>2, <1>3, <1>4, RowsUntouched, OthersHold DEF Arrives, Come

LEMMA RolesInit == Init => RolesInv
<1> SUFFICES ASSUME Init PROVE RolesInv
  OBVIOUS
<1>1. Backed /\ CacheFollows
  BY DEF Init, Backed, CacheFollows
<1>2. RoleHeld(Idle)
  BY DEF Idle, RoleHeld
<1>3. QED
  BY <1>1, <1>2 DEF Init, RolesInv

LEMMA RolesStep == TypeInv /\ RolesInv /\ [Next]_vars => RolesInv'
<1> SUFFICES ASSUME TypeInv, RolesInv, [Next]_vars PROVE RolesInv'
  OBVIOUS
<1>1. CASE UNCHANGED vars
  BY <1>1 DEF RolesInv, Backed, CacheFollows, RoleHeld, vars, storeVars, rowVars, docVars
<1>2. ASSUME NEW q \in Requests, Step(q)
      PROVE  RolesInv'
  <2>1. CASE Guard(q)
    BY <2>1, ReadCacheHolds, FindMembershipHolds, FillCacheHolds DEF Guard
  <2>2. CASE HandleOrganization(q)
    BY <2>2, QuietHandlers, InsertOrganizationHolds, InsertMembershipHolds,
       InvalidateHolds DEF HandleOrganization
  <2>3. QED
    BY <1>2, <2>1, <2>2, RequestHolds, QuietHandlers DEF Step
<1>3. QED
  BY <1>1, <1>2, CacheExpiresHolds DEF Next

\* For any number of concurrent requests and however the cache expires or is
\* invalidated between a lookup and the entry made from it: who is let into a
\* handler of an organization has the role of the row that is there.
THEOREM RolesAreRows == Spec => []RolesFollowRows
<1>1. RolesInv => RolesFollowRows
  BY DEF RolesInv, CacheFollows, RoleHeld, RolesFollowRows
<1>2. TypeInv /\ RolesInv /\ [Next]_vars => TypeInv' /\ RolesInv'
  BY TypeStep, RolesStep
<1>3. QED
  BY <1>1, <1>2, TypeInit, RolesInit, PTL DEF Spec

-----------------------------------------------------------------------------
(***************************************************************************)
(* Organizations with an owner, members let in, sessions private,          *)
(* Firestore no wider than the API, answers mirrored and revoked keys      *)
(* refused.                                                                *)
(*                                                                         *)
(* The argument: rows are only added, and what is added to them later      *)
(* (revoked) stays, so what a request has read it may rely on at any later *)
(* step.  Informed states what it has read by then, StoresAgree what rows, *)
(* documents, audit log and history say of each other, and StoresGrow is   *)
(* why neither is ever undone by another request.                          *)
(***************************************************************************)

\* What the stores say of each other.

RunsPlaced ==
  \A x \in RunIds : runs[x] # None =>
    /\ sessions[runs[x].session] # None
    /\ sessions[runs[x].session].org = runs[x].org

\* A document names the session s as its row is.
Names(doc, s) ==
  /\ doc.session = s
  /\ sessions[s] # None
  /\ sessions[s].org = doc.org
  /\ sessions[s].creator = doc.sessionCreator

MemberDocsFollow ==
  \A o \in Orgs, p \in People : memberDocs[o][p] # None => memberDocs[o][p] = members[o][p]

MessageDocsFollow ==
  \A m \in Messages : messageDocs[m] # None =>
    messages[m] \in Sessions /\ Names(messageDocs[m], messages[m])

RunDocsFollow ==
  \A x \in RunIds : runDocs[x] # None =>
    runs[x] # None /\ Names(runDocs[x], runs[x].session)

Revoked(k) == keys[k] # None /\ keys[k].revoked

AuditTrue == \A k \in Keys : <<"api_key.revoked", k>> \in audit => Revoked(k)

StoresAgree ==
  /\ OrganizationsOwned
  /\ SessionsPrivate
  /\ RunsPlaced
  /\ MemberDocsFollow
  /\ MessageDocsFollow
  /\ RunDocsFollow
  /\ AuditTrue

-----------------------------------------------------------------------------
(* What a request knows of the stores.                                     *)

\* Who was a member still is, and is not turned away.
Welcome(r) ==
  /\ r.op \in Guarded /\ r.before => members[r.org][r.who] # None
  /\ r.stage = "outsider" => ~ r.before

\* A handler that looks a session up has been given a role.
LetIn(r) ==
  r.stage \in {"findSession", "findRunSession", "listRuns", "findRun"} => r.role # None

\* The rows that were found or made are the ones the request is about.
InHand(r) ==
  /\ r.stage \in {"updateSession", "insertMessage", "addMessage", "insertRun", "setRun"} =>
       sessions[r.about].org = r.org
  /\ r.stage \in {"invalidate", "setMember"} => members[r.org][r.about] = r.granting
  /\ r.stage = "addMessage" => messages[r.made] = r.about
  /\ r.stage = "setRun" => runs[r.made] = [org |-> r.org, session |-> r.about]

Recording == {"createOrganization", "addMember", "createSession", "updateSession",
              "createRun", "cancelRun", "createKey", "revokeKey"}

\* What is to be recorded or has been answered is in the stores.
Done(r) ==
  /\ r.stage = "audit" => r.op \in Recording
  /\ r.stage \in {"audit", "answered"} =>
       /\ r.op \in {"createOrganization", "addMember"} =>
            /\ r.granting \in Roles
            /\ memberDocs[r.org][r.about] = r.granting
            /\ members[r.org][r.about] = r.granting
       /\ r.op = "createMessage" => r.made \in Messages /\ messageDocs[r.made] # None
       /\ r.op = "createRun" => r.made \in RunIds /\ runDocs[r.made] # None
       /\ r.op = "revokeKey" => Revoked(r.about)

\* A key whose revocation was recorded when the request came in is not accepted.
Authentic(r) ==
  r.op = "authenticate" =>
    /\ r.before => <<"api_key.revoked", r.about>> \in audit
    /\ r.stage \in {"touchKey", "answered"} => ~ r.before

Informed(r) == Welcome(r) /\ LetIn(r) /\ InHand(r) /\ Done(r) /\ Authentic(r)

AccessInv == StoresAgree /\ \A q \in Requests : Informed(requests[q])

\* Rows stay as they are, save that keys are revoked; documents and records stay.
StoresGrow ==
  /\ MembersKept
  /\ \A s \in Sessions : sessions[s] # None => sessions'[s] = sessions[s]
  /\ \A m \in Messages : messages[m] # None => messages'[m] = messages[m]
  /\ \A x \in RunIds : runs[x] # None => runs'[x] = runs[x]
  /\ \A k \in Keys : Revoked(k) => Revoked(k)'
  /\ audit \subseteq audit'
  /\ \A o \in Orgs, p \in People :
       memberDocs[o][p] # None => memberDocs'[o][p] = memberDocs[o][p]
  /\ \A m \in Messages : messageDocs[m] # None => messageDocs'[m] # None
  /\ \A x \in RunIds : runDocs[x] # None => runDocs'[x] # None

-----------------------------------------------------------------------------
(* What a step leaves alone stays right.                                   *)

LEMMA OwnedKept ==
  ASSUME OrganizationsOwned, slugs' = slugs, MembersKept
  PROVE  OrganizationsOwned'
<1>1. "OWNER" # None
  BY NoneAssumption DEF Roles
<1>2. \A o \in Orgs, p \in People : members[o][p] = "OWNER" => members'[o][p] = "OWNER"
  BY <1>1 DEF MembersKept
<1>3. QED
  BY <1>2 DEF OrganizationsOwned

LEMMA PrivateKept ==
  ASSUME TypeInv, SessionsPrivate, actors' = actors, StoresGrow
  PROVE  SessionsPrivate'
<1> SUFFICES ASSUME NEW s \in Sessions, NEW p \in actors[s]
             PROVE  /\ sessions'[s] # None
                    /\ \/ p = sessions'[s].creator
                       \/ members'[sessions'[s].org][p] \in {"OWNER", "ADMIN"}
  BY DEF SessionsPrivate
<1>1. /\ sessions[s] # None
      /\ p = sessions[s].creator \/ members[sessions[s].org][p] \in {"OWNER", "ADMIN"}
  BY DEF SessionsPrivate
<1>2. sessions'[s] = sessions[s]
  BY <1>1 DEF StoresGrow
<1>3. sessions[s].org \in Orgs /\ p \in People
  BY <1>1 DEF TypeInv, StoresTyped, Absent, SessionRows
<1>4. "OWNER" # None /\ "ADMIN" # None
  BY NoneAssumption DEF Roles
<1>5. QED
  BY <1>1, <1>2, <1>3, <1>4 DEF StoresGrow, MembersKept

LEMMA PlacedKept ==
  ASSUME TypeInv, RunsPlaced, runs' = runs, StoresGrow
  PROVE  RunsPlaced'
<1>1. \A x \in RunIds : runs[x] # None => runs[x].session \in Sessions
  BY DEF TypeInv, StoresTyped, Absent, RunRows
<1>2. QED
  BY <1>1 DEF RunsPlaced, StoresGrow

LEMMA MemberDocsKept ==
  ASSUME MemberDocsFollow, memberDocs' = memberDocs, StoresGrow
  PROVE  MemberDocsFollow'
  BY DEF MemberDocsFollow, StoresGrow, MembersKept

LEMMA MessageDocsKept ==
  ASSUME MessageDocsFollow, messageDocs' = messageDocs, StoresGrow
  PROVE  MessageDocsFollow'
<1> SUFFICES ASSUME NEW m \in Messages, messageDocs[m] # None
             PROVE  messages'[m] \in Sessions /\ Names(messageDocs[m], messages[m])'
  BY DEF MessageDocsFollow
<1>1. messages[m] \in Sessions /\ Names(messageDocs[m], messages[m])
  BY DEF MessageDocsFollow
<1>2. messages'[m] = messages[m]
  BY <1>1, NoneAssumption DEF StoresGrow, Ids
<1>3. sessions'[messages[m]] = sessions[messages[m]]
  BY <1>1 DEF StoresGrow, Names
<1>4. QED
  BY <1>1, <1>2, <1>3 DEF Names

LEMMA RunDocsKept ==
  ASSUME TypeInv, RunDocsFollow, runDocs' = runDocs, StoresGrow
  PROVE  RunDocsFollow'
<1> SUFFICES ASSUME NEW x \in RunIds, runDocs[x] # None
             PROVE  runs'[x] # None /\ Names(runDocs[x], runs[x].session)'
  BY DEF RunDocsFollow
<1>1. runs[x] # None /\ Names(runDocs[x], runs[x].session)
  BY DEF RunDocsFollow
<1>2. runs'[x] = runs[x] /\ runs[x].session \in Sessions
  BY <1>1 DEF StoresGrow, TypeInv, StoresTyped, Absent, RunRows
<1>3. sessions'[runs[x].session] = sessions[runs[x].session]
  BY <1>1, <1>2 DEF StoresGrow, Names
<1>4. QED
  BY <1>1, <1>2, <1>3 DEF Names

LEMMA AuditKept ==
  ASSUME AuditTrue, audit' = audit, StoresGrow
  PROVE  AuditTrue'
  BY DEF AuditTrue, StoresGrow

LEMMA SameRows ==
  ASSUME TypeInv, AccessInv, UNCHANGED <<rowVars, docVars, actors>>
  PROVE  StoresGrow /\ StoresAgree'
<1>1. StoresGrow
  BY DEF StoresGrow, MembersKept, Revoked, rowVars, docVars
<1>2. QED
  BY <1>1, OwnedKept, PrivateKept, PlacedKept, MemberDocsKept, MessageDocsKept,
     RunDocsKept, AuditKept DEF AccessInv, StoresAgree, StoresGrow, rowVars, docVars

-----------------------------------------------------------------------------
(* One request moves.                                                      *)

LEMMA WelcomeStays ==
  ASSUME NEW r \in RequestType, WellFormed(r), Welcome(r), MembersKept
  PROVE  /\ r.op \in Guarded /\ r.before => members'[r.org][r.who] # None
         /\ r.stage = "outsider" => ~ r.before
  BY DEF Welcome, WellFormed, MembersKept

LEMMA InHandStays ==
  ASSUME TypeInv, NEW r \in RequestType, WellFormed(r), Found(r), InHand(r), StoresGrow
  PROVE  /\ r.stage \in {"updateSession", "insertMessage", "addMessage", "insertRun",
                         "setRun"} => sessions'[r.about].org = r.org
         /\ r.stage \in {"invalidate", "setMember"} => members'[r.org][r.about] = r.granting
         /\ r.stage = "addMessage" => messages'[r.made] = r.about
         /\ r.stage = "setRun" => runs'[r.made] = [org |-> r.org, session |-> r.about]
<1>1. CASE r.stage \in {"updateSession", "insertMessage", "addMessage", "insertRun", "setRun"}
  <2>1. r.about \in Sessions /\ r.org \in Orgs /\ sessions[r.about] # None
    BY <1>1 DEF WellFormed, Found, OnSession, OnRunsOfSession, Guarded
  <2>2. sessions'[r.about] = sessions[r.about]
    BY <2>1 DEF StoresGrow
  <2>3. CASE r.stage = "addMessage"
    BY <2>1, <2>2, <2>3, NoneAssumption DEF InHand, WellFormed, StoresGrow, Ids
  <2>4. CASE r.stage = "setRun"
    <3>1. [org |-> r.org, session |-> r.about] # None
      BY <2>1, NoneAssumption DEF RunRows
    <3>2. QED
      BY <2>1, <2>2, <2>4, <3>1 DEF InHand, WellFormed, StoresGrow
  <2>5. QED
    BY <1>1, <2>2, <2>3, <2>4 DEF InHand
<1>2. CASE r.stage \in {"invalidate", "setMember"}
  <2>1. r.org \in Orgs /\ r.about \in People /\ r.granting \in Roles
    BY <1>2 DEF WellFormed, Guarded, OnOrganization
  <2>2. QED
    BY <1>2, <2>1, NoneAssumption DEF InHand, StoresGrow, MembersKept
<1>3. QED
  BY <1>1, <1>2

LEMMA DoneStays ==
  ASSUME TypeInv, NEW r \in RequestType, WellFormed(r), Done(r), StoresGrow,
         r.stage \in {"audit", "answered"}
  PROVE  /\ r.op \in {"createOrganization", "addMember"} =>
              /\ memberDocs'[r.org][r.about] = r.granting
              /\ members'[r.org][r.about] = r.granting
         /\ r.op = "createMessage" => messageDocs'[r.made] # None
         /\ r.op = "createRun" => runDocs'[r.made] # None
         /\ r.op = "revokeKey" => Revoked(r.about)'
<1>1. CASE r.op \in {"createOrganization", "addMember"}
  <2>1. r.org \in Orgs /\ r.about \in People /\ r.granting # None
    BY <1>1, NoneAssumption DEF WellFormed, Guarded, OnOrganization, Done
  <2>2. QED
    BY <1>1, <2>1 DEF Done, StoresGrow, MembersKept
<1>2. CASE r.op \in {"createMessage", "createRun"}
  BY <1>2 DEF Done, StoresGrow
<1>3. CASE r.op = "revokeKey"
  BY <1>3 DEF Done, StoresGrow, WellFormed
<1>4. QED
  BY <1>1, <1>2, <1>3

LEMMA OthersInformed ==
  ASSUME TypeInv, AccessInv, NEW q \in Requests, Alone(q), StoresGrow,
         StoresAgree', Informed(requests[q])'
  PROVE  AccessInv'
<1>1. ASSUME NEW p \in Requests \ {q}
      PROVE  Informed(requests[p])'
  <2> DEFINE r == requests[p]
  <2>1. /\ r \in RequestType /\ WellFormed(r) /\ Found(r) /\ Informed(r)
        /\ requests'[p] = r
    BY DEF TypeInv, Typed, AccessInv, Alone
  <2>2. Welcome(r)'
    BY <2>1, WelcomeStays DEF Informed, Welcome, StoresGrow
  <2>3. LetIn(r)'
    BY <2>1 DEF Informed, LetIn
  <2>4. InHand(r)'
    BY <2>1, InHandStays DEF Informed, InHand
  <2>5. Done(r)'
    <3>1. CASE r.stage \in {"audit", "answered"}
      BY <2>1, <3>1, DoneStays DEF Informed, Done
    <3>2. CASE r.stage \notin {"audit", "answered"}
      BY <2>1, <3>2 DEF Done
    <3>3. QED
      BY <3>1, <3>2
  <2>6. Authentic(r)'
    BY <2>1 DEF Informed, Authentic, StoresGrow
  <2>7. QED
    BY <2>2, <2>3, <2>4, <2>5, <2>6 DEF Informed
<1>2. QED
  BY <1>1 DEF AccessInv

LEMMA EndsInformed ==
  ASSUME NEW q \in Requests, Ends(q),
         requests'[q].stage = "outsider" => ~ requests'[q].before
  PROVE  Informed(requests[q])'
<1>1. requests'[q].op = "none" /\ requests'[q].stage \in {"idle", "outsider"}
  BY DEF Ends
<1>2. Welcome(requests[q])' /\ Authentic(requests[q])'
  BY <1>1 DEF Welcome, Authentic, Guarded, OnOrganization, OnSession, OnRunsOfSession, OnRun
<1>3. LetIn(requests[q])' /\ InHand(requests[q])' /\ Done(requests[q])'
  BY <1>1 DEF LetIn, InHand, Done
<1>4. QED
  BY <1>2, <1>3 DEF Informed

\* A request that goes on stays welcome; what the stage knows is to be shown.
LEMMA KeepsInformed ==
  ASSUME TypeInv, AccessInv, NEW q \in Requests, NEW stage \in Stages, Keeps(q, stage),
         StoresGrow, stage # "outsider",
         stage \in {"touchKey", "answered"} =>
           requests[q].op # "authenticate" \/ ~ requests[q].before,
         LetIn(requests[q])', InHand(requests[q])', Done(requests[q])'
  PROVE  Informed(requests[q])'
<1>1. requests[q] \in RequestType /\ WellFormed(requests[q]) /\ Informed(requests[q])
  BY DEF TypeInv, Typed, AccessInv
<1>2. Welcome(requests[q])'
  BY <1>1, WelcomeStays DEF Informed, Welcome, Keeps, StoresGrow
<1>3. Authentic(requests[q])'
  BY <1>1 DEF Informed, Authentic, Keeps, StoresGrow
<1>4. QED
  BY <1>2, <1>3 DEF Informed

PlainStages ==
  {"findMembership", "fillCache", "insertOrganization", "findUser",
   "insertMembership", "insertSession", "insertKey", "findKey", "revokeKey"}

\* Nothing need be known at these stages.
LEMMA PlainMove ==
  ASSUME TypeInv, AccessInv, NEW q \in Requests, NEW stage \in PlainStages,
         Keeps(q, stage), StoresGrow, StoresAgree'
  PROVE  AccessInv'
<1>1. requests'[q].stage = stage /\ Alone(q) /\ stage \in Stages
  BY DEF Keeps, PlainStages, Stages
<1>2. LetIn(requests[q])' /\ InHand(requests[q])' /\ Done(requests[q])'
  BY <1>1 DEF LetIn, InHand, Done, PlainStages
<1>3. stage \notin {"outsider", "touchKey", "answered"}
  BY DEF PlainStages
<1>4. QED
  BY <1>1, <1>2, <1>3, KeepsInformed, OthersInformed

\* A request that throws leaves what has been done.
LEMMA RefuseInformed ==
  ASSUME TypeInv, AccessInv, NEW q \in Requests, Refuse(q), StoresGrow, StoresAgree'
  PROVE  AccessInv'
<1>1. Ends(q) /\ requests'[q].stage = "idle"
  BY RefuseEnds DEF TypeInv
<1>2. QED
  BY <1>1, EndsInformed, OthersInformed DEF Ends

-----------------------------------------------------------------------------
(* A request comes in and passes the guard.                                *)

LEMMA RequestInformed ==
  ASSUME TypeInv, AccessInv, NEW q \in Requests, Request(q)
  PROVE  AccessInv'
<1>1. Typed
  BY DEF TypeInv
<1>2. PICK op \in AllOperations, who \in Absent(People), org \in Absent(Orgs),
           about \in Absent(Ids), granting \in Absent(Roles), before \in BOOLEAN :
        Arrives(q, op, who, org, about, granting, before)
  BY <1>1, RequestComes
<1>3. /\ Alone(q)
      /\ requests'[q].op = op
      /\ requests'[q].stage = EntryStage(op)
      /\ requests'[q].who = who
      /\ requests'[q].org = org
      /\ requests'[q].about = about
      /\ requests'[q].before = before
  BY <1>1, <1>2, ComeMoves DEF Arrives
<1>4. /\ UNCHANGED <<docVars, actors>>
      /\ UNCHANGED <<slugs, members, sessions, messages, runs, keys, audit>>
  BY <1>2 DEF Arrives, Come
<1>5. StoresGrow /\ StoresAgree'
  <2>1. StoresGrow
    BY <1>4 DEF StoresGrow, MembersKept, Revoked, docVars
  <2>2. QED
    BY <1>4, <2>1, OwnedKept, PrivateKept, PlacedKept, MemberDocsKept, MessageDocsKept,
       RunDocsKept, AuditKept DEF AccessInv, StoresAgree, StoresGrow, docVars
<1>6. /\ op \in Guarded /\ before => members[org][who] # None
      /\ op = "authenticate" /\ before => <<"api_key.revoked", about>> \in audit
  BY <1>2 DEF Arrives, Guarded, OnOrganization, OnSession, OnRunsOfSession, OnRun
<1>7. EntryStage(op) \in {"findByPrefix", "findSlug", "readCache"}
  BY DEF EntryStage
<1>8. Welcome(requests[q])' /\ Authentic(requests[q])'
  BY <1>3, <1>4, <1>6, <1>7 DEF Welcome, Authentic
<1>9. LetIn(requests[q])' /\ InHand(requests[q])' /\ Done(requests[q])'
  BY <1>3, <1>7 DEF LetIn, InHand, Done
<1>10. QED
  BY <1>3, <1>5, <1>8, <1>9, OthersInformed DEF Informed

\* The guard turns away nobody who was a member, and hands on the role it found.
LEMMA AdmitInformed ==
  ASSUME TypeInv, AccessInv, NEW q \in Requests, NEW role \in Absent(Roles),
         Admit(q, role), requests[q].op \in Guarded, StoresGrow, StoresAgree',
         role = None => ~ requests[q].before
  PROVE  AccessInv'
<1>1. Typed
  BY DEF TypeInv
<1>2. CASE Ends(q) /\ (requests'[q].stage = "outsider" =>
                         role = None /\ requests'[q].before = requests[q].before)
  BY <1>2, EndsInformed, OthersInformed DEF Ends
<1>3. CASE /\ role \in Roles
           /\ Keeps(q, FirstStage(requests[q].op))
           /\ requests'[q].role = role
  <2> DEFINE stage == FirstStage(requests[q].op)
  <2>1. /\ requests'[q].stage = stage /\ requests'[q].op = requests[q].op /\ Alone(q)
        /\ requests'[q].role # None
    BY <1>3, NoneAssumption DEF Keeps
  <2>2. /\ stage \in {"findUser", "insertSession", "findSession", "findRunSession",
                      "listRuns", "findRun", "insertKey", "findKey", "answered"}
        /\ stage = "answered" => requests[q].op = "getOrganization"
    BY DEF FirstStage, Guarded, OnOrganization, OnSession, OnRunsOfSession, OnRun
  <2>3. LetIn(requests[q])'
    BY <2>1 DEF LetIn
  <2>4. InHand(requests[q])'
    BY <2>1, <2>2 DEF InHand
  <2>5. Done(requests[q])'
    BY <2>1, <2>2 DEF Done
  <2>6. stage \in Stages
    BY <2>2 DEF Stages
  <2>7. /\ stage \notin {"outsider", "touchKey"}
        /\ stage = "answered" => requests[q].op # "authenticate"
    BY <2>2
  <2>8. Informed(requests[q])'
    BY <1>3, <2>3, <2>4, <2>5, <2>6, <2>7, KeepsInformed
  <2>9. QED
    BY <2>1, <2>8, OthersInformed
<1>4. QED
  BY <1>1, <1>2, <1>3, AdmitCases

LEMMA ReadCacheInformed ==
  ASSUME TypeInv, AccessInv, NEW q \in Requests, ReadCache(q)
  PROVE  AccessInv'
<1> DEFINE role == cache[requests[q].org][requests[q].who]
<1>1. Typed /\ WellFormed(requests[q]) /\ At(q, "readCache")
  BY DEF TypeInv, ReadCache
<1>2. /\ requests[q].op \in Guarded
      /\ requests[q].org \in Orgs /\ requests[q].who \in People
  BY <1>1 DEF At, WellFormed
<1>3. StoresGrow /\ StoresAgree'
  BY SameRows DEF ReadCache, storeVars
<1>4. CASE Goto(q, "findMembership")
  <2>1. Keeps(q, "findMembership")
    BY <1>1, <1>4, GotoKeeps DEF Stages
  <2>2. QED
    BY <1>3, <2>1, PlainMove DEF PlainStages
<1>5. CASE role # None /\ Admit(q, role)
  <2>1. role \in Absent(Roles)
    BY <1>2 DEF TypeInv, StoresTyped
  <2>2. QED
    BY <1>2, <1>3, <1>5, <2>1, AdmitInformed
<1>6. QED
  BY <1>4, <1>5 DEF ReadCache

\* Whoever is not found now was not a member before either.
LEMMA FindMembershipInformed ==
  ASSUME TypeInv, AccessInv, NEW q \in Requests, FindMembership(q)
  PROVE  AccessInv'
<1> DEFINE role == members[requests[q].org][requests[q].who]
<1>1. Typed /\ WellFormed(requests[q]) /\ Informed(requests[q]) /\ At(q, "findMembership")
  BY DEF TypeInv, AccessInv, FindMembership
<1>2. /\ requests[q].op \in Guarded
      /\ requests[q].org \in Orgs /\ requests[q].who \in People
  BY <1>1 DEF At, WellFormed
<1>3. StoresGrow /\ StoresAgree'
  BY SameRows DEF FindMembership, storeVars
<1>4. CASE role = None /\ Admit(q, None)
  <2>1. ~ requests[q].before
    BY <1>1, <1>2, <1>4 DEF Informed, Welcome
  <2>2. QED
    BY <1>2, <1>3, <1>4, <2>1, AdmitInformed DEF Absent
<1>5. CASE /\ role # None
           /\ requests' = [requests EXCEPT ![q].stage = "fillCache", ![q].role = role]
  <2>1. role \in Roles
    BY <1>2, <1>5 DEF TypeInv, StoresTyped, Absent
  <2>2. Keeps(q, "fillCache")
    BY <1>1, <1>5, <2>1, FillKeeps
  <2>3. QED
    BY <1>3, <2>2, PlainMove DEF PlainStages
<1>6. QED
  BY <1>4, <1>5 DEF FindMembership

LEMMA FillCacheInformed ==
  ASSUME TypeInv, AccessInv, NEW q \in Requests, FillCache(q)
  PROVE  AccessInv'
<1>1. WellFormed(requests[q]) /\ At(q, "fillCache")
  BY DEF TypeInv, FillCache
<1>2. requests[q].op \in Guarded /\ requests[q].role \in Roles
  BY <1>1 DEF At, WellFormed
<1>3. requests[q].role # None /\ requests[q].role \in Absent(Roles)
  BY <1>2, NoneAssumption DEF Absent
<1>4. StoresGrow /\ StoresAgree'
  BY SameRows DEF FillCache
<1>5. QED
  BY <1>2, <1>3, <1>4, AdmitInformed DEF FillCache

LEMMA CacheExpiresInformed ==
  ASSUME TypeInv, AccessInv, NEW o \in Orgs, NEW p \in People, CacheExpires(o, p)
  PROVE  AccessInv'
<1>1. StoresAgree'
  BY SameRows DEF CacheExpires
<1>2. \A q \in Requests : Informed(requests[q])'
  BY DEF CacheExpires, rowVars, docVars, AccessInv, Informed, Welcome, LetIn, InHand,
         Done, Revoked, Authentic
<1>3. QED
  BY <1>1, <1>2 DEF AccessInv

-----------------------------------------------------------------------------
(* Steps that write nothing a property reads.                              *)

LEMMA PlainHandlers ==
  ASSUME TypeInv, AccessInv, NEW q \in Requests,
         FindSlug(q) \/ FindUser(q) \/ FindKey(q) \/ Throw(q)
  PROVE  AccessInv'
<1>1. StoresGrow /\ StoresAgree'
  BY SameRows DEF FindSlug, FindUser, FindKey, Throw, storeVars
<1>2. \/ Refuse(q)
      \/ \E stage \in {"insertOrganization", "insertMembership", "revokeKey"} :
           Goto(q, stage)
  BY DEF FindSlug, FindUser, FindKey, Throw
<1>3. ASSUME NEW stage \in {"insertOrganization", "insertMembership", "revokeKey"},
             Goto(q, stage)
      PROVE  AccessInv'
  <2>1. Keeps(q, stage)
    BY <1>3, GotoKeeps DEF TypeInv, Stages
  <2>2. QED
    BY <1>1, <2>1, PlainMove DEF PlainStages
<1>4. QED
  BY <1>1, <1>2, <1>3, RefuseInformed

LEMMA InvalidateInformed ==
  ASSUME TypeInv, AccessInv, NEW q \in Requests, Invalidate(q)
  PROVE  AccessInv'
<1>1. Typed /\ Informed(requests[q]) /\ At(q, "invalidate")
  BY DEF TypeInv, AccessInv, Invalidate
<1>2. StoresGrow /\ StoresAgree' /\ members' = members
  BY SameRows DEF Invalidate, rowVars
<1>3. Keeps(q, "setMember")
  BY <1>1, GotoKeeps DEF Invalidate, Stages
<1>4. LetIn(requests[q])' /\ InHand(requests[q])' /\ Done(requests[q])'
  BY <1>1, <1>2, <1>3 DEF Keeps, At, Informed, LetIn, InHand, Done
<1>5. QED
  BY <1>2, <1>3, <1>4, KeepsInformed, OthersInformed DEF Keeps, Stages

\* updateSession goes on to record.
LEMMA UpdateSessionInformed ==
  ASSUME TypeInv, AccessInv, NEW q \in Requests, UpdateSession(q)
  PROVE  AccessInv'
<1>1. Typed /\ WellFormed(requests[q]) /\ At(q, "updateSession")
  BY DEF TypeInv, UpdateSession
<1>2. StoresGrow /\ StoresAgree'
  BY SameRows DEF UpdateSession, storeVars
<1>3. Keeps(q, "audit") /\ requests[q].op = "updateSession"
  BY <1>1, GotoKeeps DEF UpdateSession, Stages, At, WellFormed
<1>4. LetIn(requests[q])' /\ InHand(requests[q])' /\ Done(requests[q])'
  BY <1>3 DEF Keeps, LetIn, InHand, Done, Recording
<1>5. QED
  BY <1>2, <1>3, <1>4, KeepsInformed, OthersInformed DEF Keeps, Stages

-----------------------------------------------------------------------------
(* Organizations and members.                                              *)

\* Where there was no row there is one.
LEMMA RowAdded ==
  ASSUME TypeInv, NEW o \in Orgs, NEW p \in People, NEW role \in Roles,
         members[o][p] = None, members' = [members EXCEPT ![o][p] = role]
  PROVE  MembersKept /\ members'[o][p] = role
<1>1. members \in [Orgs -> [People -> Absent(Roles)]] /\ role \in Absent(Roles)
  BY DEF TypeInv, StoresTyped, Absent
<1>2. /\ members'[o][p] = role
      /\ \A o2 \in Orgs, p2 \in People : o2 # o \/ p2 # p => members'[o2][p2] = members[o2][p2]
  BY <1>1, RoleSet
<1>3. QED
  BY <1>2 DEF MembersKept

LEMMA InsertOrganizationInformed ==
  ASSUME TypeInv, RolesInv, AccessInv, NEW q \in Requests, InsertOrganization(q)
  PROVE  AccessInv'
<1> DEFINE r == requests[q]
<1>1. WellFormed(r) /\ At(q, "insertOrganization")
  BY DEF TypeInv, InsertOrganization
<1>2. r.who \in People /\ r.about \in Slugs
  BY <1>1 DEF At, WellFormed
<1>3. UNCHANGED <<sessions, messages, runs, keys, audit, docVars, actors>>
  BY DEF InsertOrganization
<1>4. MembersKept => StoresGrow
  BY <1>3 DEF StoresGrow, Revoked, docVars
<1>5. MembersKept /\ OrganizationsOwned' => StoresAgree'
  BY <1>3, <1>4, PrivateKept, PlacedKept, MemberDocsKept, MessageDocsKept, RunDocsKept,
     AuditKept DEF AccessInv, StoresAgree, docVars
<1>6. CASE Refuse(q) /\ UNCHANGED <<slugs, members>>
  <2>1. MembersKept /\ OrganizationsOwned'
    BY <1>6, OwnedKept DEF MembersKept, AccessInv, StoresAgree
  <2>2. QED
    BY <1>4, <1>5, <1>6, <2>1, RefuseInformed
<1>7. ASSUME NEW o \in Orgs,
             slugs[o] = None, slugs' = [slugs EXCEPT ![o] = r.about],
             members' = [members EXCEPT ![o][r.who] = "OWNER"],
             Alone(q),
             requests'[q].op = "createOrganization", requests'[q].stage = "setMember",
             requests'[q].org = o, requests'[q].about = r.who,
             requests'[q].granting = "OWNER"
      PROVE  AccessInv'
  <2>1. MembersKept /\ members'[o][r.who] = "OWNER"
    <3>1. members[o][r.who] = None
      BY <1>2, <1>7 DEF RolesInv, Backed
    <3>2. QED
      BY <1>2, <1>7, <3>1, RowAdded DEF Roles
  <2>2. slugs \in [Orgs -> Absent(Slugs)] /\ r.about # None
    BY <1>2, NoneAssumption DEF TypeInv, StoresTyped, Ids
  <2>3. \A o2 \in Orgs : slugs[o2] # r.about
    <3>1. slugs' # slugs
      BY <1>7, <2>2
    <3>2. QED
      BY <3>1 DEF InsertOrganization
  <2>4. slugs'[o] = r.about /\ \A o2 \in Orgs \ {o} : slugs'[o2] = slugs[o2]
    BY <1>7, <2>2
  <2>5. OrganizationsOwned'
    <3>1. OrganizationsOwned
      BY DEF AccessInv, StoresAgree
    <3>2. ASSUME NEW o2 \in Orgs, slugs'[o2] # None
          PROVE  \E p \in People : members'[o2][p] = "OWNER"
      <4>1. CASE o2 = o
        BY <1>2, <2>1, <4>1
      <4>2. CASE o2 # o
        <5>1. PICK p \in People : members[o2][p] = "OWNER"
          BY <2>4, <3>1, <3>2, <4>2 DEF OrganizationsOwned
        <5>2. members'[o2][p] = "OWNER"
          BY <2>1, <5>1, NoneAssumption DEF MembersKept, Roles
        <5>3. QED
          BY <5>2
      <4>3. QED
        BY <4>1, <4>2
    <3>3. ASSUME NEW o1 \in Orgs, NEW o2 \in Orgs, slugs'[o1] # None, slugs'[o1] = slugs'[o2]
          PROVE  o1 = o2
      BY <2>3, <2>4, <3>1, <3>3 DEF OrganizationsOwned
    <3>4. QED
      BY <3>2, <3>3 DEF OrganizationsOwned
  <2>6. Welcome(requests[q])' /\ Authentic(requests[q])'
    BY <1>7 DEF Welcome, Authentic, Guarded, OnOrganization, OnSession, OnRunsOfSession, OnRun
  <2>7. LetIn(requests[q])' /\ InHand(requests[q])' /\ Done(requests[q])'
    BY <1>7, <2>1 DEF LetIn, InHand, Done
  <2>8. QED
    BY <1>4, <1>5, <1>7, <2>1, <2>5, <2>6, <2>7, OthersInformed DEF Informed
<1>8. CASE Ends(q) /\ UNCHANGED <<slugs, members>>
  <2>1. Refuse(q)
    <3>1. ~ \E o \in Orgs : slugs[o] = None /\ slugs' = [slugs EXCEPT ![o] = r.about]
      <4>1. slugs \in [Orgs -> Absent(Slugs)] /\ r.about # None
        BY <1>2, NoneAssumption DEF TypeInv, StoresTyped, Ids
      <4>2. QED
        BY <1>8, <4>1
    <3>2. QED
      BY <3>1 DEF InsertOrganization
  <2>2. QED
    BY <1>6, <1>8, <2>1
<1>9. QED
  BY <1>7, <1>8, OrganizationInserted

LEMMA InsertMembershipInformed ==
  ASSUME TypeInv, AccessInv, NEW q \in Requests, InsertMembership(q)
  PROVE  AccessInv'
<1> DEFINE r == requests[q]
<1>1. Typed /\ WellFormed(r) /\ At(q, "insertMembership")
  BY DEF TypeInv, InsertMembership
<1>2. r.org \in Orgs /\ r.about \in People /\ r.granting \in Roles
  BY <1>1 DEF At, WellFormed, Guarded, OnOrganization
<1>3. UNCHANGED <<slugs, sessions, messages, runs, keys, audit, docVars, actors>>
  BY DEF InsertMembership
<1>4. MembersKept => StoresGrow
  BY <1>3 DEF StoresGrow, Revoked, docVars
<1>5. MembersKept => StoresAgree'
  BY <1>3, <1>4, OwnedKept, PrivateKept, PlacedKept, MemberDocsKept, MessageDocsKept,
     RunDocsKept, AuditKept DEF AccessInv, StoresAgree, docVars
<1>6. CASE Refuse(q) /\ members' = members
  BY <1>4, <1>5, <1>6, RefuseInformed DEF MembersKept
<1>7. CASE /\ members[r.org][r.about] = None
           /\ members' = [members EXCEPT ![r.org][r.about] = r.granting]
           /\ Goto(q, "invalidate")
  <2>1. MembersKept /\ members'[r.org][r.about] = r.granting
    BY <1>2, <1>7, RowAdded
  <2>2. Keeps(q, "invalidate")
    BY <1>1, <1>7, GotoKeeps DEF Stages
  <2>3. LetIn(requests[q])' /\ InHand(requests[q])' /\ Done(requests[q])'
    BY <2>1, <2>2 DEF Keeps, LetIn, InHand, Done
  <2>4. QED
    BY <1>4, <1>5, <2>1, <2>2, <2>3, KeepsInformed, OthersInformed DEF Keeps, Stages
<1>8. QED
  BY <1>6, <1>7 DEF InsertMembership

\* The document gets the role of the row.
LEMMA SetMemberInformed ==
  ASSUME TypeInv, AccessInv, NEW q \in Requests, SetMember(q)
  PROVE  AccessInv'
<1> DEFINE r == requests[q]
<1>1. Typed /\ WellFormed(r) /\ Informed(r) /\ At(q, "setMember")
  BY DEF TypeInv, AccessInv, SetMember
<1>2. /\ r.op \in {"createOrganization", "addMember"}
      /\ r.org \in Orgs /\ r.about \in People /\ r.granting \in Roles
      /\ members[r.org][r.about] = r.granting
  BY <1>1 DEF At, WellFormed, Informed, InHand
<1>3. /\ UNCHANGED <<messageDocs, runDocs, actors>>
      /\ UNCHANGED <<slugs, members, sessions, messages, runs, keys, audit>>
  BY DEF SetMember, rowVars
<1>4. /\ memberDocs'[r.org][r.about] = r.granting
      /\ \A o \in Orgs, p \in People :
           o # r.org \/ p # r.about => memberDocs'[o][p] = memberDocs[o][p]
  <2>1. memberDocs \in [Orgs -> [People -> Absent(Roles)]] /\ r.granting \in Absent(Roles)
    BY <1>2 DEF TypeInv, StoresTyped, Absent
  <2>2. memberDocs' = [memberDocs EXCEPT ![r.org][r.about] = r.granting]
    BY DEF SetMember
  <2>3. QED
    BY <1>2, <2>1, <2>2, RoleSet
<1>5. MemberDocsFollow /\ MemberDocsFollow'
  BY <1>2, <1>3, <1>4 DEF AccessInv, StoresAgree, MemberDocsFollow
<1>6. StoresGrow
  <2>1. \A o \in Orgs, p \in People :
          memberDocs[o][p] # None => memberDocs'[o][p] = memberDocs[o][p]
    BY <1>2, <1>4, <1>5 DEF MemberDocsFollow
  <2>2. QED
    BY <1>3, <2>1 DEF StoresGrow, MembersKept, Revoked
<1>7. StoresAgree'
  BY <1>3, <1>5, <1>6, OwnedKept, PrivateKept, PlacedKept, MessageDocsKept, RunDocsKept,
     AuditKept DEF AccessInv, StoresAgree, StoresGrow
<1>8. Keeps(q, "audit")
  BY <1>1, GotoKeeps DEF SetMember, Stages
<1>9. LetIn(requests[q])' /\ InHand(requests[q])'
  BY <1>8 DEF Keeps, LetIn, InHand
<1>10. Done(requests[q])'
  BY <1>2, <1>3, <1>4, <1>8 DEF Keeps, Done, Recording
<1>11. QED
  BY <1>6, <1>7, <1>8, <1>9, <1>10, KeepsInformed, OthersInformed DEF Keeps, Stages

\* A revocation is recorded by the request that has made it.
LEMMA RevocationRecorded ==
  ASSUME NEW r, r.op \in Recording, NEW k, AuditEntry(r) = <<"api_key.revoked", k>>
  PROVE  r.op = "revokeKey" /\ r.about = k
  BY DEF AuditEntry, Recording

LEMMA AuditInformed ==
  ASSUME TypeInv, AccessInv, NEW q \in Requests, Audit(q)
  PROVE  AccessInv'
<1> DEFINE r == requests[q]
<1>1. Typed /\ Informed(r) /\ At(q, "audit")
  BY DEF TypeInv, AccessInv, Audit
<1>2. r.op \in Recording
  BY <1>1 DEF At, Informed, Done
<1>3. UNCHANGED <<slugs, members, sessions, messages, runs, keys, docVars, actors>>
  BY DEF Audit
<1>4. audit \subseteq audit' /\ audit' \subseteq audit \cup {AuditEntry(r)}
  BY DEF Audit
<1>5. StoresGrow
  BY <1>3, <1>4 DEF StoresGrow, MembersKept, Revoked, docVars
<1>6. AuditTrue'
  <2>1. ASSUME NEW k \in Keys, <<"api_key.revoked", k>> \in audit'
        PROVE  Revoked(k)
    <3>1. CASE <<"api_key.revoked", k>> \in audit
      BY <3>1 DEF AccessInv, StoresAgree, AuditTrue
    <3>2. CASE AuditEntry(r) = <<"api_key.revoked", k>>
      <4>1. r.op = "revokeKey" /\ r.about = k
        BY <1>2, <3>2, RevocationRecorded
      <4>2. QED
        BY <1>1, <4>1 DEF At, Informed, Done
    <3>3. QED
      BY <1>4, <2>1, <3>1, <3>2
  <2>2. QED
    BY <1>3, <2>1 DEF AuditTrue, Revoked
<1>7. StoresAgree'
  BY <1>3, <1>5, <1>6, OwnedKept, PrivateKept, PlacedKept, MemberDocsKept,
     MessageDocsKept, RunDocsKept DEF AccessInv, StoresAgree, StoresGrow, docVars
<1>8. Keeps(q, "answered") /\ requests'[q].made = r.made
  BY <1>1, AnswerKeeps DEF Audit
<1>9. LetIn(requests[q])' /\ InHand(requests[q])'
  BY <1>8 DEF Keeps, LetIn, InHand
<1>10. Done(requests[q])'
  BY <1>1, <1>3, <1>8 DEF At, Informed, Done, Revoked, Keeps, docVars
<1>11. r.op # "authenticate"
  BY <1>2 DEF Recording
<1>12. QED
  BY <1>5, <1>7, <1>8, <1>9, <1>10, <1>11, KeepsInformed, OthersInformed DEF Keeps, Stages

-----------------------------------------------------------------------------
(* Sessions and messages.                                                  *)

LEMMA InsertSessionInformed ==
  ASSUME TypeInv, AccessInv, NEW q \in Requests, InsertSession(q)
  PROVE  AccessInv'
<1>1. Typed /\ WellFormed(requests[q]) /\ At(q, "insertSession")
  BY DEF TypeInv, InsertSession
<1>2. requests[q].op = "createSession"
  BY <1>1 DEF At, WellFormed
<1>3. PICK s \in Sessions :
        /\ sessions[s] = None
        /\ sessions' = [sessions EXCEPT ![s] =
             [org |-> requests[q].org, creator |-> requests[q].who]]
        /\ GotoWith(q, "audit", s)
  BY DEF InsertSession
<1>4. UNCHANGED <<slugs, members, messages, runs, keys, audit, docVars, actors>>
  BY DEF InsertSession
<1>5. \A s2 \in Sessions : sessions[s2] # None => sessions'[s2] = sessions[s2]
  BY <1>3 DEF TypeInv, StoresTyped
<1>6. StoresGrow
  BY <1>4, <1>5 DEF StoresGrow, MembersKept, Revoked, docVars
<1>7. StoresAgree'
  BY <1>4, <1>6, OwnedKept, PrivateKept, PlacedKept, MemberDocsKept, MessageDocsKept,
     RunDocsKept, AuditKept DEF AccessInv, StoresAgree, StoresGrow, docVars
<1>8. Keeps(q, "audit")
  BY <1>1, <1>3, GotoWithKeeps DEF Stages, Absent, Ids
<1>9. LetIn(requests[q])' /\ InHand(requests[q])' /\ Done(requests[q])'
  BY <1>2, <1>8 DEF Keeps, LetIn, InHand, Done, Recording
<1>10. QED
  BY <1>6, <1>7, <1>8, <1>9, KeepsInformed, OthersInformed DEF Keeps, Stages

\* May p act on the session s by its row and his own?
MayAct(p, s) ==
  /\ sessions[s] # None
  /\ \/ p = sessions[s].creator
     \/ members[sessions[s].org][p] \in {"OWNER", "ADMIN"}

\* Where only a person joins who may, the sessions stay private.
LEMMA OneActs ==
  ASSUME TypeInv, AccessInv, UNCHANGED storeVars, NEW s \in Sessions, NEW p \in People,
         \/ actors' = actors
         \/ actors' = [actors EXCEPT ![s] = @ \cup {p}] /\ MayAct(p, s)
  PROVE  StoresGrow /\ StoresAgree'
<1>1. UNCHANGED <<slugs, members, sessions, messages, runs, keys, audit>>
      /\ UNCHANGED docVars
  BY DEF storeVars, rowVars
<1>2. StoresGrow
  BY <1>1 DEF StoresGrow, MembersKept, Revoked, docVars
<1>3. SessionsPrivate'
  <2>1. ASSUME NEW t \in Sessions, NEW x \in actors'[t]
        PROVE  MayAct(x, t)
    <3>1. CASE x \in actors[t]
      BY <3>1 DEF AccessInv, StoresAgree, SessionsPrivate, MayAct
    <3>2. CASE x \notin actors[t]
      <4>1. actors' = [actors EXCEPT ![s] = actors[s] \cup {p}] /\ MayAct(p, s)
        BY <2>1, <3>2
      <4>2. t = s /\ x = p
        BY <2>1, <3>2, <4>1 DEF TypeInv, StoresTyped
      <4>3. QED
        BY <4>1, <4>2
    <3>3. QED
      BY <3>1, <3>2
  <2>2. QED
    BY <1>1, <2>1 DEF SessionsPrivate, MayAct
<1>4. QED
  BY <1>1, <1>2, <1>3, OwnedKept, PlacedKept, MemberDocsKept, MessageDocsKept, RunDocsKept,
     AuditKept DEF AccessInv, StoresAgree, StoresGrow, docVars

\* A role that was read from the row and lets its bearer see a session does so by
\* the rows.
LEMMA RoleAllows ==
  ASSUME TypeInv, RolesInv, NEW q \in Requests, NEW s \in Sessions, sessions[s] # None,
         requests[q].op \in Guarded, requests[q].role # None,
         sessions[s].org = requests[q].org,
         requests[q].role # "MEMBER" \/ sessions[s].creator = requests[q].who
  PROVE  MayAct(requests[q].who, s)
<1>1. requests[q].org \in Orgs /\ requests[q].who \in People
  BY DEF TypeInv, WellFormed
<1>2. requests[q].role = members[requests[q].org][requests[q].who]
  BY DEF RolesInv, RoleHeld
<1>3. members[requests[q].org][requests[q].who] \in Roles
  BY <1>1, <1>2 DEF TypeInv, StoresTyped, Absent
<1>4. QED
  BY <1>2, <1>3 DEF MayAct, Roles

LEMMA FindSessionInformed ==
  ASSUME TypeInv, RolesInv, AccessInv, NEW q \in Requests, FindSession(q)
  PROVE  AccessInv'
<1> DEFINE r == requests[q]
           session == sessions[r.about]
<1>1. Typed /\ WellFormed(r) /\ Informed(r) /\ At(q, "findSession")
  BY DEF TypeInv, AccessInv, FindSession
<1>2. /\ r.op \in OnSession /\ r.op \in Guarded
      /\ r.about \in Sessions /\ r.who \in People /\ r.role # None
  BY <1>1 DEF At, WellFormed, Guarded, Informed, LetIn
<1>3. \/ Refuse(q) /\ actors' = actors
      \/ /\ session # None /\ session.org = r.org
         /\ r.role # "MEMBER" \/ session.creator = r.who
         /\ actors' = [actors EXCEPT ![r.about] = @ \cup {r.who}]
         /\ \/ r.op = "getSession" /\ Answer(q)
            \/ r.op = "updateSession" /\ Goto(q, "updateSession")
            \/ r.op = "createMessage" /\ Goto(q, "insertMessage")
  BY <1>2 DEF FindSession, CanAccess, OnSession
<1>4. UNCHANGED storeVars /\ sessions' = sessions
  BY DEF FindSession, storeVars, rowVars
<1>5. CASE Refuse(q) /\ actors' = actors
  BY <1>2, <1>4, <1>5, OneActs, RefuseInformed
<1>6. CASE /\ session # None /\ session.org = r.org
           /\ r.role # "MEMBER" \/ session.creator = r.who
           /\ actors' = [actors EXCEPT ![r.about] = @ \cup {r.who}]
           /\ \/ r.op = "getSession" /\ Answer(q)
              \/ r.op = "updateSession" /\ Goto(q, "updateSession")
              \/ r.op = "createMessage" /\ Goto(q, "insertMessage")
  <2>1. MayAct(r.who, r.about)
    BY <1>2, <1>6, RoleAllows
  <2>2. StoresGrow /\ StoresAgree'
    BY <1>2, <1>4, <1>6, <2>1, OneActs
  <2>3. PICK stage \in {"answered", "updateSession", "insertMessage"} :
          Keeps(q, stage) /\ (stage = "answered" => r.op = "getSession")
    BY <1>1, <1>6, GotoKeeps, AnswerKeeps DEF Stages
  <2>4. LetIn(requests[q])' /\ Done(requests[q])'
    BY <2>3 DEF Keeps, LetIn, Done
  <2>5. InHand(requests[q])'
    BY <1>4, <1>6, <2>3 DEF Keeps, InHand
  <2>6. /\ stage \in Stages /\ stage \notin {"outsider", "touchKey"}
        /\ stage = "answered" => r.op # "authenticate"
    BY <2>3 DEF Stages
  <2>7. QED
    BY <2>2, <2>3, <2>4, <2>5, <2>6, KeepsInformed, OthersInformed DEF Keeps
<1>7. QED
  BY <1>3, <1>5, <1>6

LEMMA InsertMessageInformed ==
  ASSUME TypeInv, AccessInv, NEW q \in Requests, InsertMessage(q)
  PROVE  AccessInv'
<1> DEFINE r == requests[q]
<1>1. Typed /\ WellFormed(r) /\ Informed(r) /\ At(q, "insertMessage")
  BY DEF TypeInv, AccessInv, InsertMessage
<1>2. r.op = "createMessage" /\ r.about \in Sessions /\ sessions[r.about].org = r.org
  BY <1>1 DEF At, WellFormed, OnSession, Informed, InHand
<1>3. PICK m \in Messages :
        /\ messages[m] = None
        /\ messages' = [messages EXCEPT ![m] = r.about]
        /\ GotoWith(q, "addMessage", m)
  BY DEF InsertMessage
<1>4. UNCHANGED <<slugs, members, sessions, runs, keys, audit, docVars, actors>>
  BY DEF InsertMessage
<1>5. /\ messages'[m] = r.about
      /\ \A m2 \in Messages : messages[m2] # None => messages'[m2] = messages[m2]
  BY <1>3 DEF TypeInv, StoresTyped
<1>6. StoresGrow
  BY <1>4, <1>5 DEF StoresGrow, MembersKept, Revoked, docVars
<1>7. StoresAgree'
  BY <1>4, <1>6, OwnedKept, PrivateKept, PlacedKept, MemberDocsKept, MessageDocsKept,
     RunDocsKept, AuditKept DEF AccessInv, StoresAgree, StoresGrow, docVars
<1>8. Keeps(q, "addMessage") /\ requests'[q].made = m
  BY <1>1, <1>3, GotoWithKeeps DEF Stages, Absent, Ids
<1>9. LetIn(requests[q])' /\ Done(requests[q])'
  BY <1>8 DEF Keeps, LetIn, Done
<1>10. InHand(requests[q])'
  BY <1>2, <1>4, <1>5, <1>8 DEF Keeps, InHand
<1>11. QED
  BY <1>6, <1>7, <1>8, <1>9, <1>10, KeepsInformed, OthersInformed DEF Keeps, Stages

\* The document carries the organization and the creator of the row.
LEMMA AddMessageInformed ==
  ASSUME TypeInv, AccessInv, NEW q \in Requests, AddMessage(q)
  PROVE  AccessInv'
<1> DEFINE r == requests[q]
           doc == [org |-> r.org, session |-> r.about,
                   sessionCreator |-> sessions[r.about].creator]
<1>1. Typed /\ WellFormed(r) /\ Found(r) /\ Informed(r) /\ At(q, "addMessage")
  BY DEF TypeInv, AccessInv, AddMessage
<1>2. /\ r.op = "createMessage" /\ r.about \in Sessions /\ r.org \in Orgs
      /\ r.made \in Messages /\ messages[r.made] = r.about
      /\ sessions[r.about] # None /\ sessions[r.about].org = r.org
  BY <1>1 DEF At, WellFormed, Guarded, OnSession, Found, Informed, InHand
<1>3. /\ UNCHANGED <<memberDocs, runDocs, actors>>
      /\ UNCHANGED <<slugs, members, sessions, messages, runs, keys, audit>>
  BY DEF AddMessage, rowVars
<1>4. messageDocs' = [messageDocs EXCEPT ![r.made] = doc]
  BY DEF AddMessage
<1>5. /\ messageDocs'[r.made] = doc
      /\ \A m \in Messages \ {r.made} : messageDocs'[m] = messageDocs[m]
  BY <1>2, <1>4 DEF TypeInv, StoresTyped
<1>6. doc # None
  <2>1. sessions[r.about] \in SessionRows
    BY <1>2 DEF TypeInv, StoresTyped, Absent
  <2>2. doc \in MessageDocs
    BY <1>2, <2>1 DEF SessionRows, MessageDocs
  <2>3. QED
    BY <2>2, NoneAssumption
<1>7. StoresGrow
  <2>1. \A m \in Messages : messageDocs[m] # None => messageDocs'[m] # None
    BY <1>2, <1>5, <1>6
  <2>2. QED
    BY <1>3, <2>1 DEF StoresGrow, MembersKept, Revoked
<1>8. MessageDocsFollow'
  <2>1. Names(doc, r.about)
    BY <1>2 DEF Names
  <2>2. \A m \in Messages : messageDocs'[m] # None =>
          messages[m] \in Sessions /\ Names(messageDocs'[m], messages[m])
    BY <1>2, <1>5, <2>1 DEF AccessInv, StoresAgree, MessageDocsFollow
  <2>3. QED
    BY <1>3, <2>2 DEF MessageDocsFollow, Names
<1>9. StoresAgree'
  BY <1>3, <1>7, <1>8, OwnedKept, PrivateKept, PlacedKept, MemberDocsKept, RunDocsKept,
     AuditKept DEF AccessInv, StoresAgree, StoresGrow
<1>10. Keeps(q, "answered") /\ requests'[q].made = r.made
  BY <1>1, AnswerKeeps DEF AddMessage
<1>11. LetIn(requests[q])' /\ InHand(requests[q])'
  BY <1>10 DEF Keeps, LetIn, InHand
<1>12. Done(requests[q])'
  BY <1>2, <1>5, <1>6, <1>10 DEF Keeps, Done
<1>13. QED
  BY <1>2, <1>7, <1>9, <1>10, <1>11, <1>12, KeepsInformed, OthersInformed DEF Keeps, Stages

-----------------------------------------------------------------------------
(* Runs.                                                                   *)

LEMMA FindRunSessionInformed ==
  ASSUME TypeInv, RolesInv, AccessInv, NEW q \in Requests, FindRunSession(q)
  PROVE  AccessInv'
<1> DEFINE r == requests[q]
<1>1. Typed /\ WellFormed(r) /\ Informed(r) /\ At(q, "findRunSession")
  BY DEF TypeInv, AccessInv, FindRunSession
<1>2. /\ r.op = "createRun" /\ r.op \in Guarded
      /\ r.about \in Sessions /\ r.who \in People /\ r.role # None
  BY <1>1 DEF At, WellFormed, Guarded, OnRunsOfSession, Informed, LetIn
<1>3. UNCHANGED storeVars /\ sessions' = sessions
  BY DEF FindRunSession, storeVars, rowVars
<1>4. CASE Refuse(q) /\ actors' = actors
  BY <1>2, <1>3, <1>4, OneActs, RefuseInformed
<1>5. CASE /\ sessions[r.about] # None /\ sessions[r.about].org = r.org
           /\ r.role # "MEMBER" \/ sessions[r.about].creator = r.who
           /\ actors' = [actors EXCEPT ![r.about] = @ \cup {r.who}]
           /\ Goto(q, "insertRun")
  <2>1. MayAct(r.who, r.about)
    BY <1>2, <1>5, RoleAllows
  <2>2. StoresGrow /\ StoresAgree'
    BY <1>2, <1>3, <1>5, <2>1, OneActs
  <2>3. Keeps(q, "insertRun")
    BY <1>1, <1>5, GotoKeeps DEF Stages
  <2>4. LetIn(requests[q])' /\ Done(requests[q])'
    BY <2>3 DEF Keeps, LetIn, Done
  <2>5. InHand(requests[q])'
    BY <1>3, <1>5, <2>3 DEF Keeps, InHand
  <2>6. QED
    BY <2>2, <2>3, <2>4, <2>5, KeepsInformed, OthersInformed DEF Keeps, Stages
<1>6. QED
  BY <1>4, <1>5 DEF FindRunSession, Visible, InSessionScope, SeeSession

LEMMA InsertRunInformed ==
  ASSUME TypeInv, AccessInv, NEW q \in Requests, InsertRun(q)
  PROVE  AccessInv'
<1> DEFINE r == requests[q]
           row == [org |-> r.org, session |-> r.about]
<1>1. Typed /\ WellFormed(r) /\ Found(r) /\ Informed(r) /\ At(q, "insertRun")
  BY DEF TypeInv, AccessInv, InsertRun
<1>2. /\ r.op = "createRun" /\ r.about \in Sessions
      /\ sessions[r.about] # None /\ sessions[r.about].org = r.org
  BY <1>1 DEF At, WellFormed, OnRunsOfSession, Found, Informed, InHand
<1>3. PICK x \in RunIds :
        /\ runs[x] = None
        /\ runs' = [runs EXCEPT ![x] = row]
        /\ GotoWith(q, "setRun", x)
  BY DEF InsertRun
<1>4. UNCHANGED <<slugs, members, sessions, messages, keys, audit, docVars, actors>>
  BY DEF InsertRun
<1>5. /\ runs'[x] = row
      /\ \A y \in RunIds \ {x} : runs'[y] = runs[y]
  BY <1>3 DEF TypeInv, StoresTyped
<1>6. StoresGrow
  <2>1. \A y \in RunIds : runs[y] # None => runs'[y] = runs[y]
    BY <1>3, <1>5
  <2>2. QED
    BY <1>4, <2>1 DEF StoresGrow, MembersKept, Revoked, docVars
<1>7. RunsPlaced'
  <2>1. \A y \in RunIds : runs'[y] # None =>
          sessions[runs'[y].session] # None /\ sessions[runs'[y].session].org = runs'[y].org
    BY <1>2, <1>5 DEF AccessInv, StoresAgree, RunsPlaced
  <2>2. QED
    BY <1>4, <2>1 DEF RunsPlaced
<1>8. StoresAgree'
  BY <1>4, <1>6, <1>7, OwnedKept, PrivateKept, MemberDocsKept, MessageDocsKept,
     RunDocsKept, AuditKept DEF AccessInv, StoresAgree, StoresGrow, docVars
<1>9. Keeps(q, "setRun") /\ requests'[q].made = x
  BY <1>1, <1>3, GotoWithKeeps DEF Stages, Absent, Ids
<1>10. LetIn(requests[q])' /\ Done(requests[q])'
  BY <1>9 DEF Keeps, LetIn, Done
<1>11. InHand(requests[q])'
  BY <1>2, <1>4, <1>5, <1>9 DEF Keeps, InHand
<1>12. QED
  BY <1>6, <1>8, <1>9, <1>10, <1>11, KeepsInformed, OthersInformed DEF Keeps, Stages

\* The document carries the organization and the creator of the session's row.
LEMMA SetRunInformed ==
  ASSUME TypeInv, AccessInv, NEW q \in Requests, SetRun(q)
  PROVE  AccessInv'
<1> DEFINE r == requests[q]
           doc == [org |-> r.org, session |-> r.about,
                   sessionCreator |-> sessions[r.about].creator]
<1>1. Typed /\ WellFormed(r) /\ Found(r) /\ Informed(r) /\ At(q, "setRun")
  BY DEF TypeInv, AccessInv, SetRun
<1>2. /\ r.op = "createRun" /\ r.about \in Sessions /\ r.org \in Orgs
      /\ r.made \in RunIds /\ runs[r.made] = [org |-> r.org, session |-> r.about]
      /\ sessions[r.about] # None /\ sessions[r.about].org = r.org
  BY <1>1 DEF At, WellFormed, Guarded, OnRunsOfSession, Found, Informed, InHand
<1>3. /\ UNCHANGED <<memberDocs, messageDocs, actors>>
      /\ UNCHANGED <<slugs, members, sessions, messages, runs, keys, audit>>
  BY DEF SetRun, rowVars
<1>4. runDocs' = [runDocs EXCEPT ![r.made] = doc]
  BY DEF SetRun
<1>5. /\ runDocs'[r.made] = doc
      /\ \A x \in RunIds \ {r.made} : runDocs'[x] = runDocs[x]
  BY <1>2, <1>4 DEF TypeInv, StoresTyped
<1>6. doc # None /\ runs[r.made] # None /\ runs[r.made].session = r.about
  <2>1. sessions[r.about] \in SessionRows
    BY <1>2 DEF TypeInv, StoresTyped, Absent
  <2>2. doc \in RunDocs /\ [org |-> r.org, session |-> r.about] \in RunRows
    BY <1>2, <2>1 DEF SessionRows, RunDocs, RunRows
  <2>3. QED
    BY <1>2, <2>2, NoneAssumption
<1>7. StoresGrow
  <2>1. \A x \in RunIds : runDocs[x] # None => runDocs'[x] # None
    BY <1>2, <1>5, <1>6
  <2>2. QED
    BY <1>3, <2>1 DEF StoresGrow, MembersKept, Revoked
<1>8. RunDocsFollow'
  <2>1. Names(doc, r.about)
    BY <1>2 DEF Names
  <2>2. \A x \in RunIds : runDocs'[x] # None =>
          runs[x] # None /\ Names(runDocs'[x], runs[x].session)
    BY <1>2, <1>5, <1>6, <2>1 DEF AccessInv, StoresAgree, RunDocsFollow
  <2>3. QED
    BY <1>3, <2>2 DEF RunDocsFollow, Names
<1>9. StoresAgree'
  BY <1>3, <1>7, <1>8, OwnedKept, PrivateKept, PlacedKept, MemberDocsKept,
     MessageDocsKept, AuditKept DEF AccessInv, StoresAgree, StoresGrow
<1>10. Keeps(q, "audit") /\ requests'[q].made = r.made
  BY <1>1, GotoKeeps DEF SetRun, Stages
<1>11. LetIn(requests[q])' /\ InHand(requests[q])'
  BY <1>10 DEF Keeps, LetIn, InHand
<1>12. Done(requests[q])'
  BY <1>2, <1>5, <1>6, <1>10 DEF Keeps, Done, Recording
<1>13. QED
  BY <1>7, <1>9, <1>10, <1>11, <1>12, KeepsInformed, OthersInformed DEF Keeps, Stages

\* That there is a run of the organization in the session shows that the session is
\* one of it.
LEMMA ListRunsInformed ==
  ASSUME TypeInv, RolesInv, AccessInv, NEW q \in Requests, ListRuns(q)
  PROVE  AccessInv'
<1> DEFINE r == requests[q]
<1>1. Typed /\ WellFormed(r) /\ Informed(r) /\ At(q, "listRuns")
  BY DEF TypeInv, AccessInv, ListRuns
<1>2. /\ r.op = "listRuns" /\ r.op \in Guarded
      /\ r.about \in Sessions /\ r.who \in People /\ r.role # None
  BY <1>1 DEF At, WellFormed, Guarded, OnRunsOfSession, Informed, LetIn
<1>3. \/ actors' = actors
      \/ actors' = [actors EXCEPT ![r.about] = @ \cup {r.who}] /\ MayAct(r.who, r.about)
  <2>1. ASSUME NEW x \in RunIds, runs[x] # None, runs[x].org = r.org,
               runs[x].session = r.about, Visible(r.about, r)
        PROVE  MayAct(r.who, r.about)
    <3>1. sessions[r.about] # None /\ sessions[r.about].org = r.org
      BY <2>1 DEF AccessInv, StoresAgree, RunsPlaced
    <3>2. QED
      BY <1>2, <2>1, <3>1, RoleAllows DEF Visible, InSessionScope
  <2>2. QED
    BY <2>1 DEF ListRuns, SeeSession
<1>4. StoresGrow /\ StoresAgree'
  BY <1>2, <1>3, OneActs DEF ListRuns
<1>5. Keeps(q, "answered")
  BY <1>1, AnswerKeeps DEF ListRuns
<1>6. LetIn(requests[q])' /\ InHand(requests[q])' /\ Done(requests[q])'
  BY <1>2, <1>5 DEF Keeps, LetIn, InHand, Done
<1>7. QED
  BY <1>2, <1>4, <1>5, <1>6, KeepsInformed, OthersInformed DEF Keeps, Stages

LEMMA FindRunInformed ==
  ASSUME TypeInv, RolesInv, AccessInv, NEW q \in Requests, FindRun(q)
  PROVE  AccessInv'
<1> DEFINE r == requests[q]
           run == runs[r.about]
<1>1. Typed /\ WellFormed(r) /\ Informed(r) /\ At(q, "findRun")
  BY DEF TypeInv, AccessInv, FindRun
<1>2. /\ r.op \in OnRun /\ r.op \in Guarded
      /\ r.about \in RunIds /\ r.who \in People /\ r.role # None
  BY <1>1 DEF At, WellFormed, Guarded, Informed, LetIn
<1>3. \/ Refuse(q) /\ actors' = actors
      \/ /\ run # None /\ run.org = r.org /\ Visible(run.session, r)
         /\ SeeSession(q, run.session)
         /\ Refuse(q) \/ (r.op = "getRun" /\ Answer(q))
              \/ (r.op = "cancelRun" /\ Goto(q, "audit"))
  BY <1>2 DEF FindRun, OnRun
<1>4. UNCHANGED storeVars
  BY DEF FindRun
<1>5. StoresGrow /\ StoresAgree'
  <2>1. CASE actors' = actors
    BY <1>4, <2>1, SameRows DEF storeVars
  <2>2. CASE /\ run # None /\ run.org = r.org /\ Visible(run.session, r)
             /\ SeeSession(q, run.session)
    <3>1. run.session \in Sessions
      BY <1>2, <2>2 DEF TypeInv, StoresTyped, Absent, RunRows
    <3>2. sessions[run.session] # None /\ sessions[run.session].org = r.org
      BY <1>2, <2>2 DEF AccessInv, StoresAgree, RunsPlaced
    <3>3. MayAct(r.who, run.session)
      BY <1>2, <2>2, <3>1, <3>2, RoleAllows DEF Visible, InSessionScope
    <3>4. QED
      BY <1>2, <1>4, <2>2, <3>1, <3>3, OneActs DEF SeeSession
  <2>3. QED
    BY <1>3, <2>1, <2>2
<1>6. CASE Refuse(q)
  BY <1>5, <1>6, RefuseInformed
<1>7. CASE (r.op = "getRun" /\ Answer(q)) \/ (r.op = "cancelRun" /\ Goto(q, "audit"))
  <2>1. PICK stage \in {"answered", "audit"} :
          Keeps(q, stage) /\ r.op \in {"getRun", "cancelRun"}
            /\ (stage = "audit" => r.op = "cancelRun")
    BY <1>1, <1>7, GotoKeeps, AnswerKeeps DEF Stages
  <2>2. LetIn(requests[q])' /\ InHand(requests[q])' /\ Done(requests[q])'
    BY <2>1 DEF Keeps, LetIn, InHand, Done, Recording
  <2>3. QED
    BY <1>5, <2>1, <2>2, KeepsInformed, OthersInformed DEF Keeps, Stages
<1>8. QED
  BY <1>3, <1>6, <1>7

-----------------------------------------------------------------------------
(* API keys.                                                               *)

LEMMA InsertKeyInformed ==
  ASSUME TypeInv, AccessInv, NEW q \in Requests, InsertKey(q)
  PROVE  AccessInv'
<1>1. Typed /\ WellFormed(requests[q]) /\ At(q, "insertKey")
  BY DEF TypeInv, InsertKey
<1>2. requests[q].op = "createKey"
  BY <1>1 DEF At, WellFormed
<1>3. PICK k \in Keys :
        /\ keys[k] = None
        /\ keys' = [keys EXCEPT ![k] = [org |-> requests[q].org, revoked |-> FALSE]]
        /\ GotoWith(q, "audit", k)
  BY DEF InsertKey
<1>4. UNCHANGED <<slugs, members, sessions, messages, runs, audit, docVars, actors>>
  BY DEF InsertKey
<1>5. \A c \in Keys : keys[c] # None => keys'[c] = keys[c]
  BY <1>3 DEF TypeInv, StoresTyped
<1>6. StoresGrow
  BY <1>4, <1>5 DEF StoresGrow, MembersKept, Revoked, docVars
<1>7. StoresAgree'
  BY <1>4, <1>6, OwnedKept, PrivateKept, PlacedKept, MemberDocsKept, MessageDocsKept,
     RunDocsKept, AuditKept DEF AccessInv, StoresAgree, StoresGrow, docVars
<1>8. Keeps(q, "audit")
  BY <1>1, <1>3, GotoWithKeeps DEF Stages, Absent, Ids
<1>9. LetIn(requests[q])' /\ InHand(requests[q])' /\ Done(requests[q])'
  BY <1>2, <1>8 DEF Keeps, LetIn, InHand, Done, Recording
<1>10. QED
  BY <1>6, <1>7, <1>8, <1>9, KeepsInformed, OthersInformed DEF Keeps, Stages

LEMMA RevokeKeyInformed ==
  ASSUME TypeInv, AccessInv, NEW q \in Requests, RevokeKey(q)
  PROVE  AccessInv'
<1> PICK about \in Keys : about = requests[q].about
  BY DEF RevokeKey, At, TypeInv, WellFormed
<1>1. Typed /\ WellFormed(requests[q]) /\ Found(requests[q]) /\ At(q, "revokeKey")
  BY DEF TypeInv, RevokeKey
<1>2. requests[q].op = "revokeKey" /\ keys[about] # None
  BY <1>1 DEF At, WellFormed, Found
<1>3. UNCHANGED <<slugs, members, sessions, messages, runs, audit, docVars, actors>>
  BY DEF RevokeKey
<1>4. keys' = [keys EXCEPT ![about] = [keys[about] EXCEPT !.revoked = TRUE]]
  BY DEF RevokeKey
<1>5. Revoked(about)'
  <2>1. keys[about] \in KeyRows
    BY <1>2 DEF TypeInv, StoresTyped, Absent
  <2>2. [keys[about] EXCEPT !.revoked = TRUE] \in KeyRows
    BY <2>1 DEF KeyRows
  <2>3. [keys[about] EXCEPT !.revoked = TRUE] # None
    BY <2>2, NoneAssumption
  <2>4. keys'[about] = [keys[about] EXCEPT !.revoked = TRUE]
    BY <1>2, <1>4 DEF TypeInv, StoresTyped
  <2>5. [keys[about] EXCEPT !.revoked = TRUE].revoked
    BY <2>1 DEF KeyRows
  <2>6. QED
    BY <2>3, <2>4, <2>5 DEF Revoked
<1>6. \A k \in Keys \ {about} : keys'[k] = keys[k]
  BY <1>4 DEF TypeInv, StoresTyped
<1>7. \A k \in Keys : Revoked(k) => Revoked(k)'
  BY <1>5, <1>6 DEF Revoked
<1>8. StoresGrow
  BY <1>3, <1>7 DEF StoresGrow, MembersKept, docVars
<1>9. StoresAgree'
  BY <1>3, <1>8, OwnedKept, PrivateKept, PlacedKept, MemberDocsKept, MessageDocsKept,
     RunDocsKept, AuditKept DEF AccessInv, StoresAgree, StoresGrow, docVars
<1>10. Keeps(q, "audit")
  BY <1>1, GotoKeeps DEF RevokeKey, Stages
<1>11. LetIn(requests[q])' /\ InHand(requests[q])'
  BY <1>10 DEF Keeps, LetIn, InHand
<1>12. Done(requests[q])'
  BY <1>2, <1>5, <1>10 DEF Keeps, Done, Recording, Revoked
<1>13. QED
  BY <1>8, <1>9, <1>10, <1>11, <1>12, KeepsInformed, OthersInformed DEF Keeps, Stages

\* Where the revocation had been recorded, the row says so by now.
LEMMA FindByPrefixInformed ==
  ASSUME TypeInv, AccessInv, NEW q \in Requests, FindByPrefix(q)
  PROVE  AccessInv'
<1> DEFINE r == requests[q]
<1>1. Typed /\ WellFormed(r) /\ Informed(r) /\ At(q, "findByPrefix")
  BY DEF TypeInv, AccessInv, FindByPrefix
<1>2. r.op = "authenticate" /\ r.about \in Keys
  BY <1>1 DEF At, WellFormed
<1>3. StoresGrow /\ StoresAgree'
  BY SameRows DEF FindByPrefix, storeVars
<1>4. CASE Refuse(q)
  BY <1>3, <1>4, RefuseInformed
<1>5. CASE ~ Revoked(r.about) /\ Goto(q, "touchKey")
  <2>1. ~ r.before
    BY <1>1, <1>2, <1>5 DEF Informed, Authentic, AccessInv, StoresAgree, AuditTrue
  <2>2. Keeps(q, "touchKey")
    BY <1>1, <1>5, GotoKeeps DEF Stages
  <2>3. LetIn(requests[q])' /\ InHand(requests[q])' /\ Done(requests[q])'
    BY <2>2 DEF Keeps, LetIn, InHand, Done
  <2>4. QED
    BY <1>3, <2>1, <2>2, <2>3, KeepsInformed, OthersInformed DEF Keeps, Stages
<1>6. QED
  BY <1>4, <1>5 DEF FindByPrefix, Revoked

LEMMA TouchKeyInformed ==
  ASSUME TypeInv, AccessInv, NEW q \in Requests, TouchKey(q)
  PROVE  AccessInv'
<1>1. Typed /\ WellFormed(requests[q]) /\ Informed(requests[q]) /\ At(q, "touchKey")
  BY DEF TypeInv, AccessInv, TouchKey
<1>2. requests[q].op = "authenticate" /\ ~ requests[q].before
  BY <1>1 DEF At, WellFormed, Informed, Authentic
<1>3. StoresGrow /\ StoresAgree'
  BY SameRows DEF TouchKey, storeVars
<1>4. Keeps(q, "answered")
  BY <1>1, AnswerKeeps DEF TouchKey
<1>5. LetIn(requests[q])' /\ InHand(requests[q])' /\ Done(requests[q])'
  BY <1>2, <1>4 DEF Keeps, LetIn, InHand, Done
<1>6. QED
  BY <1>2, <1>3, <1>4, <1>5, KeepsInformed, OthersInformed DEF Keeps, Stages

-----------------------------------------------------------------------------
(* The theorems.                                                           *)

LEMMA AccessInit == Init => AccessInv
<1> SUFFICES ASSUME Init PROVE AccessInv
  OBVIOUS
<1>1. OrganizationsOwned /\ SessionsPrivate /\ RunsPlaced
  BY DEF Init, OrganizationsOwned, SessionsPrivate, RunsPlaced
<1>2. MemberDocsFollow /\ MessageDocsFollow /\ RunDocsFollow /\ AuditTrue
  BY DEF Init, MemberDocsFollow, MessageDocsFollow, RunDocsFollow, AuditTrue
<1>3. Informed(Idle)
  BY DEF Idle, Informed, Welcome, LetIn, InHand, Done, Authentic
<1>4. QED
  BY <1>1, <1>2, <1>3 DEF Init, AccessInv, StoresAgree

LEMMA AccessStep == TypeInv /\ RolesInv /\ AccessInv /\ [Next]_vars => AccessInv'
<1> SUFFICES ASSUME TypeInv, RolesInv, AccessInv, [Next]_vars PROVE AccessInv'
  OBVIOUS
<1>1. CASE UNCHANGED vars
  <2>1. StoresAgree'
    BY <1>1, SameRows DEF vars, storeVars
  <2>2. \A q \in Requests : Informed(requests[q])'
    BY <1>1 DEF vars, storeVars, rowVars, docVars, AccessInv, Informed, Welcome, LetIn,
                InHand, Done, Revoked, Authentic
  <2>3. QED
    BY <2>1, <2>2 DEF AccessInv
<1>2. ASSUME NEW q \in Requests, Step(q)
      PROVE  AccessInv'
  <2>1. CASE Guard(q)
    BY <2>1, ReadCacheInformed, FindMembershipInformed, FillCacheInformed DEF Guard
  <2>2. CASE HandleOrganization(q)
    BY <2>2, PlainHandlers, InsertOrganizationInformed, InsertMembershipInformed,
       InvalidateInformed, SetMemberInformed, AuditInformed DEF HandleOrganization
  <2>3. CASE HandleSession(q)
    BY <2>3, InsertSessionInformed, FindSessionInformed, UpdateSessionInformed,
       InsertMessageInformed, AddMessageInformed DEF HandleSession
  <2>4. CASE HandleRun(q)
    BY <2>4, FindRunSessionInformed, InsertRunInformed, SetRunInformed,
       ListRunsInformed, FindRunInformed DEF HandleRun
  <2>5. CASE HandleKey(q)
    BY <2>5, PlainHandlers, InsertKeyInformed, RevokeKeyInformed, FindByPrefixInformed,
       TouchKeyInformed DEF HandleKey
  <2>6. QED
    BY <1>2, <2>1, <2>2, <2>3, <2>4, <2>5, RequestInformed, PlainHandlers DEF Step
<1>3. QED
  BY <1>1, <1>2, CacheExpiresInformed DEF Next

LEMMA AccessHolds == Spec => []AccessInv
<1>1. TypeInv /\ RolesInv /\ AccessInv /\ [Next]_vars
        => TypeInv' /\ RolesInv' /\ AccessInv'
  BY TypeStep, RolesStep, AccessStep
<1>2. QED
  BY <1>1, TypeInit, RolesInit, AccessInit, PTL DEF Spec

\* For any number of concurrent requests, of whatever operations and stopped between
\* any two of their calls: an organization has an owner from the moment it exists,
\* and of two creates with one slug only one goes through.
THEOREM EveryOrganizationOwned == Spec => []OrganizationsOwned
<1>1. AccessInv => OrganizationsOwned
  BY DEF AccessInv, StoresAgree
<1>2. QED
  BY <1>1, AccessHolds, PTL

\* However lookups, cache entries, their expiry and addMember interleave, the guard
\* turns nobody away who was a member when the request came in.
THEOREM MembersAdmitted == Spec => []MembersLetIn
<1>1. AccessInv => MembersLetIn
  BY DEF AccessInv, Informed, Welcome, MembersLetIn
<1>2. QED
  BY <1>1, AccessHolds, PTL

\* Whatever route leads to a session (its own, that of its runs, or that of a run
\* given by its id alone) and however old the cached role is that opened it: only
\* its creator and owners and admins of its organization get there.
THEOREM SessionsStayPrivate == Spec => []SessionsPrivate
<1>1. AccessInv => SessionsPrivate
  BY DEF AccessInv, StoresAgree
<1>2. QED
  BY <1>1, AccessHolds, PTL

\* A document tells of the session what its row says.
LEMMA ReaderHasAccess ==
  ASSUME TypeInv, MemberDocsFollow, NEW p \in People, NEW s \in Sessions, NEW doc,
         doc.org \in Orgs, Names(doc, s), ReadableBy(p, doc)
  PROVE  HasAccess(p, s)
<1>1. /\ memberDocs[doc.org][p] # None
      /\ memberDocs[doc.org][p] # "MEMBER" \/ p = doc.sessionCreator
  BY DEF ReadableBy, CanReadPrivate
<1>2. memberDocs[doc.org][p] = members[doc.org][p]
  BY <1>1 DEF MemberDocsFollow
<1>3. sessions[s].org = doc.org /\ sessions[s].creator = doc.sessionCreator
  BY DEF Names
<1>4. QED
  BY <1>1, <1>2, <1>3 DEF HasAccess, CanAccess

\* What the Firestore rules let a client read of messages and runs, the API would
\* let him read: the documents the rules decide by were written from the rows, some
\* time after them, and the rows have not changed since.
THEOREM RulesAreNoWider == Spec => []RulesNoWider
<1>1. TypeInv /\ AccessInv => RulesNoWider
  <2> SUFFICES ASSUME TypeInv, AccessInv, NEW p \in People
               PROVE  /\ \A m \in Messages :
                           ReadableBy(p, messageDocs[m]) => HasAccess(p, messages[m])
                      /\ \A x \in RunIds :
                           ReadableBy(p, runDocs[x]) => HasAccess(p, runs[x].session)
    BY DEF RulesNoWider
  <2>1. ASSUME NEW m \in Messages, ReadableBy(p, messageDocs[m])
        PROVE  HasAccess(p, messages[m])
    <3>1. messages[m] \in Sessions /\ Names(messageDocs[m], messages[m])
      BY <2>1 DEF AccessInv, StoresAgree, MessageDocsFollow, ReadableBy
    <3>2. messageDocs[m].org \in Orgs
      BY <2>1 DEF TypeInv, StoresTyped, Absent, MessageDocs, ReadableBy
    <3>3. QED
      BY <2>1, <3>1, <3>2, ReaderHasAccess DEF AccessInv, StoresAgree
  <2>2. ASSUME NEW x \in RunIds, ReadableBy(p, runDocs[x])
        PROVE  HasAccess(p, runs[x].session)
    <3>1. runs[x] # None /\ Names(runDocs[x], runs[x].session)
      BY <2>2 DEF AccessInv, StoresAgree, RunDocsFollow, ReadableBy
    <3>2. runDocs[x].org \in Orgs /\ runs[x].session \in Sessions
      BY <2>2, <3>1 DEF TypeInv, StoresTyped, Absent, RunDocs, RunRows, ReadableBy
    <3>3. QED
      BY <2>2, <3>1, <3>2, ReaderHasAccess DEF AccessInv, StoresAgree
  <2>3. QED
    BY <2>1, <2>2
<1>2. TypeInv /\ [Next]_vars => TypeInv'
  BY TypeStep
<1>3. Spec => []TypeInv
  BY <1>2, TypeInit, PTL DEF Spec
<1>4. QED
  BY <1>1, <1>3, AccessHolds, PTL

\* What a request has been answered with is in PostgreSQL and in Firestore, whatever
\* other requests have written since.
THEOREM AnswersMirrored == Spec => []AnsweredMirrored
<1>1. AccessInv => AnsweredMirrored
  BY DEF AccessInv, Informed, Done, AnsweredMirrored
<1>2. QED
  BY <1>1, AccessHolds, PTL

\* A key whose revocation is on record is accepted by no authentication that begins
\* afterwards, with any number of revocations and authentications of it under way.
THEOREM RevokedKeysRefused == Spec => []RevokedKeyRefused
<1>1. AccessInv => RevokedKeyRefused
  BY DEF AccessInv, Informed, Authentic, RevokedKeyRefused
<1>2. QED
  BY <1>1, AccessHolds, PTL

==============================================================================
