------------------------------- MODULE ApiKeys -------------------------------
(***************************************************************************)
(* ApiKeysService.  A secret is known by the id of its key: the prefix is  *)
(* unique and a secret that does not hash to the stored value is refused.  *)
(***************************************************************************)
EXTENDS TenancyState

InsertKey(q) ==
  LET r == requests[q] IN
  /\ At(q, "insertKey")
  /\ \E k \in Keys :
       /\ keys[k] = None
       /\ keys' = [keys EXCEPT ![k] = [org |-> r.org, revoked |-> FALSE]]
       /\ GotoWith(q, "audit", k)
  /\ UNCHANGED <<users, slugs, members, sessions, messages, runs, audit, docVars, cache,
                 actors>>

\* revoke: the key has to be of this organization and not revoked yet.
FindKey(q) ==
  LET key == keys[requests[q].about] IN
  /\ At(q, "findKey")
  /\ IF key = None
       THEN Refuse(q)
       ELSE IF key.org # requests[q].org \/ key.revoked
              THEN Refuse(q) ELSE Goto(q, "revokeKey")
  /\ UNCHANGED <<storeVars, actors>>

\* By id: two requests that have both found the key revoke it twice.
RevokeKey(q) ==
  /\ At(q, "revokeKey")
  /\ keys' = [keys EXCEPT ![requests[q].about].revoked = TRUE]
  /\ Goto(q, "audit")
  /\ UNCHANGED <<users, slugs, members, sessions, messages, runs, audit, docVars, cache,
                 actors>>

\* authenticate: the key is found by the prefix of the secret.
FindByPrefix(q) ==
  LET key == keys[requests[q].about] IN
  /\ At(q, "findByPrefix")
  /\ IF key = None
       THEN Refuse(q)
       ELSE IF key.revoked THEN Refuse(q) ELSE Goto(q, "touchKey")
  /\ UNCHANGED <<storeVars, actors>>

\* Mutant: the whole row is written back as it was found.
TouchKeySaves(q) ==
  /\ At(q, "touchKey")
  /\ keys' = [keys EXCEPT ![requests[q].about].revoked = FALSE]
  /\ Answer(q)
  /\ UNCHANGED <<users, slugs, members, sessions, messages, runs, audit, docVars, cache,
                 actors>>

\* Only lastUsedAt is written, whatever has become of the key in between.
TouchKey(q) ==
  /\ At(q, "touchKey")
  /\ Answer(q)
  /\ UNCHANGED <<storeVars, actors>>

==============================================================================
