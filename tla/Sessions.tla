------------------------------ MODULE Sessions -------------------------------
(***************************************************************************)
(* SessionsService, and the Firestore rules that repeat its access control *)
(* for clients that read the mirrored documents.  The title and the status *)
(* of a session and the text of a message are left out.                    *)
(***************************************************************************)
EXTENDS TenancyState

\* create
InsertSession(q) ==
  LET r == requests[q] IN
  /\ At(q, "insertSession")
  /\ \E s \in Sessions :
       /\ sessions[s] = None
       /\ sessions' = [sessions EXCEPT ![s] = [org |-> r.org, creator |-> r.who]]
       /\ GotoWith(q, "audit", s)
  /\ UNCHANGED <<users, slugs, members, messages, runs, keys, audit, docVars, cache,
                 actors>>

CanAccess(session, person, role) == role # "MEMBER" \/ session.creator = person

\* getById, which update, listMessages and createMessage begin with.  listMessages
\* goes on to read and is the same as getSession here.
FindSession(q) ==
  LET r == requests[q]
      session == sessions[r.about] IN
  /\ At(q, "findSession")
  /\ IF session = None
       THEN Refuse(q) /\ UNCHANGED actors
       ELSE IF session.org # r.org \/ ~ CanAccess(session, r.who, r.role)
              THEN Refuse(q) /\ UNCHANGED actors
              ELSE /\ actors' = [actors EXCEPT ![r.about] = @ \cup {r.who}]
                   /\ CASE r.op = "getSession"    -> Answer(q)
                        [] r.op = "updateSession" -> Goto(q, "updateSession")
                        [] r.op = "createMessage" -> Goto(q, "insertMessage")
  /\ UNCHANGED storeVars

\* update, by id.
UpdateSession(q) ==
  /\ At(q, "updateSession")
  /\ Goto(q, "audit")
  /\ UNCHANGED <<storeVars, actors>>

InsertMessage(q) ==
  LET r == requests[q] IN
  /\ At(q, "insertMessage")
  /\ \E m \in Messages :
       /\ messages[m] = None
       /\ messages' = [messages EXCEPT ![m] = r.about]
       /\ GotoWith(q, "addMessage", m)
  /\ UNCHANGED <<users, slugs, members, sessions, runs, keys, audit, docVars, cache,
                 actors>>

\* Mutant: the message is answered without its document.
AddMessageInBackground(q) ==
  /\ At(q, "addMessage")
  /\ Answer(q)
  /\ UNCHANGED <<storeVars, actors>>

\* The document carries the creator of the session, as read by getById.
AddMessage(q) ==
  LET r == requests[q] IN
  /\ At(q, "addMessage")
  /\ messageDocs' = [messageDocs EXCEPT ![r.made] =
       [org |-> r.org, session |-> r.about,
        sessionCreator |-> sessions[r.about].creator]]
  /\ Answer(q)
  /\ UNCHANGED <<rowVars, memberDocs, runDocs, cache, actors>>

-----------------------------------------------------------------------------
\* Mutant: to be a member is enough.
CanReadAsMember(p, org, sessionCreator) == memberDocs[org][p] # None

\* canReadPrivate of firestore.rules, for a client signed in as p.
CanReadPrivate(p, org, sessionCreator) ==
  /\ memberDocs[org][p] # None
  /\ memberDocs[org][p] # "MEMBER" \/ p = sessionCreator

==============================================================================
