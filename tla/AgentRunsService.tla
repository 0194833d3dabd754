-------------------------- MODULE AgentRunsService ---------------------------
(***************************************************************************)
(* The requests of AgentRunsService: create, which inserts the run, mirrors *)
(* it, records it in the audit log and enqueues its job, and cancel, which  *)
(* leaves a key for the execution to find.  The lookup of the session and   *)
(* what getById checks of the actor are not part of a run's life.           *)
(***************************************************************************)
EXTENDS RunState

-----------------------------------------------------------------------------
(* create                                                                  *)
\* Mutant: a document that could not be written is only logged.
RescueIgnoresMirror(stage) ==
  CASE stage = "setRun"  -> "audit"
    [] stage = "enqueue" -> "compensate"
    [] OTHER             -> "rejected"

\* Mutant: a run that could not be enqueued is left as it is.
RescueIgnoresQueue(stage) ==
  IF stage = "setRun" THEN "abandon" ELSE "rejected"

\* Where an exception takes the request: only setRun and enqueue are inside a
\* try block; the audit write is not, nor are the writes of the catch clauses.
Rescue(stage) ==
  CASE stage = "setRun"  -> "abandon"
    [] stage = "enqueue" -> "compensate"
    [] OTHER             -> "rejected"

CreateThrows(r) ==
  /\ CreateServiceOf[create[r]] \in Faults
  /\ create' = [create EXCEPT ![r] = Rescue(@)]

\* The call made at create[r] took effect; its reply arrives or is lost.
CreateGoto(r, stage) ==
  \/ create' = [create EXCEPT ![r] = stage]
  \/ LostReplies /\ CreateThrows(r)

\* The row is inserted RUNNING by the column's default, once the session has
\* been found.  A failed lookup or insert leaves nothing behind.
CreateRun(r) ==
  /\ create[r] = "idle"
  /\ status' = [status EXCEPT ![r] = "RUNNING"]
  /\ CreateGoto(r, "setRun")
  /\ UNCHANGED <<sandboxId, steps, audit, mirrorVars, redisVars, sandboxes,
                 counted, cancel, exec, ghostVars>>

SetRun(r) ==
  /\ create[r] = "setRun"
  /\ mirror' = [mirror EXCEPT ![r] = [created |-> TRUE, status |-> "RUNNING",
                                      sandboxId |-> 0]]
  /\ CreateGoto(r, "audit")
  /\ UNCHANGED <<postgresVars, mirrorSteps, redisVars, sandboxes, counted,
                 cancel, exec, ghostVars>>

AuditCreated(r) ==
  /\ create[r] = "audit"
  /\ audit' = [audit EXCEPT ![r] = @ \cup {"agent_run.created"}]
  /\ CreateGoto(r, "enqueue")
  /\ UNCHANGED <<status, sandboxId, steps, mirrorVars, redisVars, sandboxes,
                 counted, cancel, exec, ghostVars>>

\* queue.add with jobId = runId: the job is added unless one has that id.
Enqueue(r) ==
  /\ create[r] = "enqueue"
  /\ job' = IF job[r].state = "none"
              THEN [job EXCEPT ![r].state = "waiting"] ELSE job
  /\ CreateGoto(r, "accepted")
  /\ UNCHANGED <<postgresVars, mirrorVars, cancelKeys, published, sandboxes,
                 counted, cancel, exec, ghostVars>>

\* The two catch clauses write FAILED to the row, the second one (compensate)
\* to the document as well, and rethrow.
FailRow(r) ==
  /\ create[r] \in {"abandon", "compensate"}
  /\ status' = [status EXCEPT ![r] = "FAILED"]
  /\ CreateGoto(r, IF create[r] = "abandon" THEN "rejected"
                                            ELSE "compensateMirror")
  /\ UNCHANGED <<sandboxId, steps, audit, mirrorVars, redisVars, sandboxes,
                 counted, cancel, exec, ghostVars>>

FailDocument(r) ==
  /\ create[r] = "compensateMirror"
  /\ mirror' = [mirror EXCEPT ![r].status = "FAILED"]
  /\ CreateGoto(r, "rejected")
  /\ UNCHANGED <<postgresVars, mirrorSteps, redisVars, sandboxes, counted,
                 cancel, exec, ghostVars>>

CreateThrow(r) ==
  /\ create[r] \in InFlight
  /\ CreateThrows(r)
  /\ UNCHANGED <<postgresVars, mirrorVars, redisVars, sandboxes, counted,
                 cancel, exec, ghostVars>>

\* The API process dies between two awaits of the request.
ApiCrash(r) ==
  /\ create[r] \in InFlight
  /\ spent.apiCrashes < MaxApiCrashes
  /\ create' = [create EXCEPT ![r] = "lost"]
  /\ spent' = [spent EXCEPT !.apiCrashes = @ + 1]
  /\ UNCHANGED <<postgresVars, mirrorVars, redisVars, sandboxes, counted,
                 cancel, exec, history>>

-----------------------------------------------------------------------------
(* cancel, with AgentLoopService.requestCancellation                       *)
CancelThrows(r) ==
  /\ (IF cancel[r] = "setKey" THEN "redis" ELSE "postgres") \in Faults
  /\ cancel' = [cancel EXCEPT ![r] = "idle"]

CancelGoto(r, stage) ==
  \/ cancel' = [cancel EXCEPT ![r] = stage]
  \/ LostReplies /\ CancelThrows(r)

\* getById found the run RUNNING; otherwise 404 or 409 and nothing changes.
ReadForCancel(r) ==
  /\ r \in Cancellable
  /\ cancel[r] = "idle"
  /\ status[r] = "RUNNING"
  /\ cancel' = [cancel EXCEPT ![r] = "setKey"]
  /\ UNCHANGED <<postgresVars, mirrorVars, redisVars, sandboxes, counted,
                 create, exec, ghostVars>>

SetCancelKey(r) ==
  /\ cancel[r] = "setKey"
  /\ cancelKeys' = cancelKeys \cup {r}
  /\ history' = [history EXCEPT ![r].cancelled = TRUE]
  /\ CancelGoto(r, "audit")
  /\ UNCHANGED <<postgresVars, mirrorVars, job, published, sandboxes, counted,
                 create, exec, spent>>

AuditCancel(r) ==
  /\ cancel[r] = "audit"
  /\ audit' = [audit EXCEPT ![r] = @ \cup {"agent_run.cancellation_requested"}]
  /\ CancelGoto(r, "idle")
  /\ UNCHANGED <<status, sandboxId, steps, mirrorVars, redisVars, sandboxes,
                 counted, create, exec, ghostVars>>

CancelThrow(r) ==
  /\ cancel[r] # "idle"
  /\ CancelThrows(r)
  /\ UNCHANGED <<postgresVars, mirrorVars, redisVars, sandboxes, counted,
                 create, exec, ghostVars>>

\* The key's TTL of 86400 seconds runs out.
KeyExpires(r) ==
  /\ KeysExpire
  /\ r \in cancelKeys
  /\ cancelKeys' = cancelKeys \ {r}
  /\ UNCHANGED <<postgresVars, mirrorVars, job, published, sandboxes, counted,
                 requestVars, exec, ghostVars>>

==============================================================================
