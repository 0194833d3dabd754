----------------------------- MODULE RunRequests -----------------------------
(***************************************************************************)
(* Who may create, read and cancel agent runs: AgentRunsService as far as   *)
(* its queries decide it.  What becomes of a run is the subject of AgentRuns.*)
(***************************************************************************)
EXTENDS TenancyState

\* A run is in an actor's scope by the session it belongs to.
InSessionScope(session, person, role) == role # "MEMBER" \/ session.creator = person

Visible(s, r) ==
  /\ sessions[s] # None
  /\ InSessionScope(sessions[s], r.who, r.role)

SeeSession(q, s) == actors' = [actors EXCEPT ![s] = @ \cup {requests[q].who}]

-----------------------------------------------------------------------------
(* create, up to the queue                                                 *)

FindRunSession(q) ==
  LET r == requests[q] IN
  /\ At(q, "findRunSession")
  /\ IF Visible(r.about, r) /\ sessions[r.about].org = r.org
       THEN Goto(q, "insertRun") /\ SeeSession(q, r.about)
       ELSE Refuse(q) /\ UNCHANGED actors
  /\ UNCHANGED storeVars

InsertRun(q) ==
  LET r == requests[q] IN
  /\ At(q, "insertRun")
  /\ \E x \in RunIds :
       /\ runs[x] = None
       /\ runs' = [runs EXCEPT ![x] = [org |-> r.org, session |-> r.about]]
       /\ GotoWith(q, "setRun", x)
  /\ UNCHANGED <<users, slugs, members, sessions, messages, keys, audit, docVars,
                 cache, actors>>

\* The document carries the creator of the session, as it was found.
SetRun(q) ==
  LET r == requests[q] IN
  /\ At(q, "setRun")
  /\ runDocs' = [runDocs EXCEPT ![r.made] =
       [org |-> r.org, session |-> r.about,
        sessionCreator |-> sessions[r.about].creator]]
  /\ Goto(q, "audit")
  /\ UNCHANGED <<rowVars, memberDocs, messageDocs, cache, actors>>

-----------------------------------------------------------------------------
(* list, getById, listSteps, cancel and the event stream                   *)

\* The session itself is not looked up: one the actor may not see has no runs
\* for it.
ListRuns(q) ==
  LET r == requests[q] IN
  /\ At(q, "listRuns")
  /\ Answer(q)
  /\ IF \E x \in RunIds : /\ runs[x] # None
                          /\ runs[x].org = r.org /\ runs[x].session = r.about
                          /\ Visible(r.about, r)
       THEN SeeSession(q, r.about)
       ELSE UNCHANGED actors
  /\ UNCHANGED storeVars

\* Mutant: any member finds the run.
FindRunUnscoped(q) ==
  LET r == requests[q]
      run == runs[r.about] IN
  /\ At(q, "findRun")
  /\ IF run = None
       THEN Refuse(q) /\ UNCHANGED actors
       ELSE IF run.org # r.org
              THEN Refuse(q) /\ UNCHANGED actors
              ELSE /\ SeeSession(q, run.session)
                   /\ CASE r.op = "getRun"    -> Answer(q)
                        [] r.op = "cancelRun" -> Refuse(q) \/ Goto(q, "audit")
  /\ UNCHANGED storeVars

\* getById, which listSteps, cancel and the event stream begin with.  cancel goes
\* on if the run is RUNNING, and records that it was asked for.
FindRun(q) ==
  LET r == requests[q]
      run == runs[r.about] IN
  /\ At(q, "findRun")
  /\ IF run = None
       THEN Refuse(q) /\ UNCHANGED actors
       ELSE IF run.org # r.org \/ ~ Visible(run.session, r)
              THEN Refuse(q) /\ UNCHANGED actors
              ELSE /\ SeeSession(q, run.session)
                   /\ CASE r.op = "getRun"    -> Answer(q)
                        [] r.op = "cancelRun" -> Refuse(q) \/ Goto(q, "audit")
  /\ UNCHANGED storeVars

==============================================================================
