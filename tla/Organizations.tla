---------------------------- MODULE Organizations ----------------------------
(***************************************************************************)
(* Users, organizations and their members: UsersService as JwtAuthGuard    *)
(* uses it, OrgMembershipGuard with MembershipCacheService, and            *)
(* OrganizationsService.                                                   *)
(***************************************************************************)
EXTENDS TenancyState

-----------------------------------------------------------------------------
(* JwtAuthGuard and OrgMembershipGuard.                                    *)

\* Where a request goes once it is let in.
FirstStage(op) ==
  CASE op = "addMember"     -> "findUser"
    [] op = "createSession" -> "insertSession"
    [] op \in OnSession     -> "findSession"
    [] op = "createRun"     -> "findRunSession"
    [] op = "listRuns"      -> "listRuns"
    [] op \in OnRun         -> "findRun"
    [] op = "createKey"     -> "insertKey"
    [] op = "revokeKey"     -> "findKey"
    [] OTHER                -> "answered"

\* @OrgRoles; a route without it is open to every member.
RequiredRoles(op) ==
  IF op \in {"addMember", "createKey", "revokeKey"} THEN {"OWNER", "ADMIN"} ELSE Roles

\* The guard with the role that MembershipCacheService.get returned.
Admit(q, role) ==
  CASE role \notin Roles -> RefuseOutsider(q)
    [] role \in Roles \ RequiredRoles(requests[q].op) -> Refuse(q)
    [] OTHER -> requests' = [requests EXCEPT
                  ![q].stage = FirstStage(requests[q].op), ![q].role = role]

\* Mutant: the key of an entry lacks the organization.
ReadCacheOfUser(q) ==
  LET found == {cache[o][requests[q].who] : o \in Orgs} \ {None} IN
  /\ At(q, "readCache")
  /\ IF found = {} THEN Goto(q, "findMembership")
                   ELSE Admit(q, CHOOSE role \in found : TRUE)
  /\ UNCHANGED <<storeVars, actors>>

ReadCache(q) ==
  LET role == cache[requests[q].org][requests[q].who] IN
  /\ At(q, "readCache")
  /\ IF role = None THEN Goto(q, "findMembership") ELSE Admit(q, role)
  /\ UNCHANGED <<storeVars, actors>>

\* Mutant: that somebody is not a member is cached as well.
FindMembershipCachesAbsence(q) ==
  LET role == members[requests[q].org][requests[q].who] IN
  /\ At(q, "findMembership")
  /\ requests' = [requests EXCEPT ![q].stage = "fillCache",
                     ![q].role = IF role = None THEN "ABSENT" ELSE role]
  /\ UNCHANGED <<storeVars, actors>>

FindMembership(q) ==
  LET role == members[requests[q].org][requests[q].who] IN
  /\ At(q, "findMembership")
  /\ IF role = None
       THEN Admit(q, None)
       ELSE requests' = [requests EXCEPT ![q].stage = "fillCache", ![q].role = role]
  /\ UNCHANGED <<storeVars, actors>>

FillCache(q) ==
  LET r == requests[q] IN
  /\ At(q, "fillCache")
  /\ cache' = [cache EXCEPT ![r.org][r.who] = r.role]
  /\ Admit(q, r.role)
  /\ UNCHANGED <<rowVars, docVars, actors>>

\* MEMBERSHIP_CACHE_TTL_SECONDS have passed.
CacheExpires(o, p) ==
  /\ cache[o][p] # None
  /\ cache' = [cache EXCEPT ![o][p] = None]
  /\ UNCHANGED <<rowVars, docVars, requests, actors>>

-----------------------------------------------------------------------------
(* create                                                                  *)

\* The lookup of the slug and that of the creator, who has just been provisioned.
FindSlug(q) ==
  /\ At(q, "findSlug")
  /\ IF \E o \in Orgs : slugs[o] = requests[q].about
       THEN Refuse(q) ELSE Goto(q, "insertOrganization")
  /\ UNCHANGED <<storeVars, actors>>

\* Mutant: the membership of the owner is not part of the transaction.
InsertOrganizationOnly(q) ==
  /\ At(q, "insertOrganization")
  /\ IF \E o \in Orgs : slugs[o] = requests[q].about
       THEN Refuse(q) /\ UNCHANGED slugs
       ELSE \E o \in Orgs :
              /\ slugs[o] = None
              /\ slugs' = [slugs EXCEPT ![o] = requests[q].about]
              /\ requests' = [requests EXCEPT ![q].stage = "setMember",
                    ![q].org = o, ![q].about = requests[q].who,
                    ![q].granting = "OWNER", ![q].made = o]
  /\ UNCHANGED <<users, members, sessions, messages, runs, keys, audit, docVars, cache,
                 actors>>

\* The transaction.  The slug is unique: if it has been taken by now, it throws.
InsertOrganization(q) ==
  LET r == requests[q] IN
  /\ At(q, "insertOrganization")
  /\ IF \E o \in Orgs : slugs[o] = r.about
       THEN Refuse(q) /\ UNCHANGED <<slugs, members>>
       ELSE \E o \in Orgs :
              /\ slugs[o] = None
              /\ slugs' = [slugs EXCEPT ![o] = r.about]
              /\ members' = [members EXCEPT ![o][r.who] = "OWNER"]
              /\ requests' = [requests EXCEPT ![q].stage = "setMember",
                    ![q].org = o, ![q].about = r.who,
                    ![q].granting = "OWNER", ![q].made = o]
  /\ UNCHANGED <<users, sessions, messages, runs, keys, audit, docVars, cache, actors>>

-----------------------------------------------------------------------------
(* addMember                                                               *)

\* The user is looked up by email, then the membership.  Users are never removed,
\* so nothing can come between the two that the second would not see.
FindUser(q) ==
  LET r == requests[q] IN
  /\ At(q, "findUser")
  /\ IF r.about \notin users \/ members[r.org][r.about] # None
       THEN Refuse(q) ELSE Goto(q, "insertMembership")
  /\ UNCHANGED <<storeVars, actors>>

\* There is one membership of a user in an organization: a second insert throws.
InsertMembership(q) ==
  LET r == requests[q] IN
  /\ At(q, "insertMembership")
  /\ IF members[r.org][r.about] # None
       THEN Refuse(q) /\ UNCHANGED members
       ELSE /\ members' = [members EXCEPT ![r.org][r.about] = r.granting]
            /\ Goto(q, "invalidate")
  /\ UNCHANGED <<users, slugs, sessions, messages, runs, keys, audit, docVars, cache,
                 actors>>

\* Mutant: the entry is emptied, not deleted.
InvalidateEmpties(q) ==
  LET r == requests[q] IN
  /\ At(q, "invalidate")
  /\ cache' = [cache EXCEPT ![r.org][r.about] = ""]
  /\ Goto(q, "setMember")
  /\ UNCHANGED <<rowVars, docVars, actors>>

Invalidate(q) ==
  LET r == requests[q] IN
  /\ At(q, "invalidate")
  /\ cache' = [cache EXCEPT ![r.org][r.about] = None]
  /\ Goto(q, "setMember")
  /\ UNCHANGED <<rowVars, docVars, actors>>

\* create and addMember; the document is named by the uid of the member.
SetMember(q) ==
  LET r == requests[q] IN
  /\ At(q, "setMember")
  /\ memberDocs' = [memberDocs EXCEPT ![r.org][r.about] = r.granting]
  /\ Goto(q, "audit")
  /\ UNCHANGED <<rowVars, messageDocs, runDocs, cache, actors>>

-----------------------------------------------------------------------------
(* AuditService.record, the last call of every handler that records.       *)

AuditEntry(r) ==
  CASE r.op = "createOrganization" -> <<"organization.created", r.made>>
    [] r.op = "addMember"          -> <<"membership.created", <<r.org, r.about>>>>
    [] r.op = "createSession"      -> <<"session.created", r.made>>
    [] r.op = "updateSession"      -> <<"session.updated", r.about>>
    [] r.op = "createRun"          -> <<"agent_run.created", r.made>>
    [] r.op = "cancelRun"          -> <<"agent_run.cancellation_requested", r.about>>
    [] r.op = "createKey"          -> <<"api_key.created", r.made>>
    [] r.op = "revokeKey"          -> <<"api_key.revoked", r.about>>

Audit(q) ==
  /\ At(q, "audit")
  /\ audit' = audit \cup {e \in {AuditEntry(requests[q])} : e[1] \in Recorded}
  /\ Answer(q)
  /\ UNCHANGED <<users, slugs, members, sessions, messages, runs, keys, docVars, cache,
                 actors>>

==============================================================================
