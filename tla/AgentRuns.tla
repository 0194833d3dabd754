------------------------------ MODULE AgentRuns ------------------------------
(***************************************************************************)
(* The life of agent runs: the requests that create and cancel them, the    *)
(* queue and its workers, composed, and what holds of them together.        *)
(***************************************************************************)
EXTENDS AgentRunsService, AgentRunQueue, AgentLoop

CreateStep(r) ==
  \/ SetRun(r)
  \/ AuditCreated(r)
  \/ Enqueue(r)
  \/ FailRow(r)
  \/ FailDocument(r)
  \/ CreateThrow(r)

CancelStep(r) ==
  \/ SetCancelKey(r)
  \/ AuditCancel(r)
  \/ CancelThrow(r)

ExecStep(w) ==
  \/ CallFails(w)
  \/ FindRun(w)
  \/ CreateSandbox(w)
  \/ SaveSandbox(w)
  \/ MirrorSandbox(w)
  \/ EmitStarted(w)
  \/ CountSteps(w)
  \/ CheckCancel(w)
  \/ CallModel(w)
  \/ InsertStep(w)
  \/ MirrorStep(w)
  \/ EmitStep(w)
  \/ RunTool(w)
  \/ SaveOutcome(w)
  \/ MirrorOutcome(w)
  \/ EmitOutcome(w)
  \/ KillSandbox(w)
  \/ EndStream(w)
  \/ ClearCancel(w)
  \/ SettleJob(w)

Next ==
  \/ \E r \in Runs :
       \/ CreateRun(r)
       \/ CreateStep(r)
       \/ ApiCrash(r)
       \/ ReadForCancel(r)
       \/ CancelStep(r)
       \/ KeyExpires(r)
       \/ RecoverJob(r)
       \/ LoseLock(r)
       \/ \E a \in sandboxes[r] : SandboxExpires(r, a)
  \/ \E w \in Workers :
       \/ \E r \in Runs : TakeJob(w, r)
       \/ ExecStep(w)
       \/ WorkerCrash(w)

Spec == Init /\ [][Next]_vars

\* What is scheduled: a request that was begun and an execution run on, a free
\* worker takes a waiting job, and the stalled-job check comes round.  Nobody
\* has to create or cancel a run, and nothing has to fail, crash or expire.
Fairness ==
  /\ \A r \in Runs : /\ WF_vars(CreateStep(r))
                     /\ WF_vars(CancelStep(r))
                     /\ WF_vars(RecoverJob(r))
                     /\ WF_vars(\E w \in Workers : TakeJob(w, r))
  /\ \A w \in Workers : WF_vars(ExecStep(w))

FairSpec == Spec /\ Fairness

-----------------------------------------------------------------------------
(* Properties.                                                             *)

StoresTypeOK ==
  /\ status \in [Runs -> Statuses]
  /\ sandboxId \in [Runs -> Nat]
  /\ DOMAIN steps = Runs
  /\ DOMAIN mirrorSteps = Runs
  /\ \A r \in Runs : IsFiniteSet(DOMAIN steps[r])
  /\ \A r \in Runs : \A i \in DOMAIN steps[r] :
       i \in Nat /\ steps[r][i] \in StepTypes
  /\ \A r \in Runs : \A i \in DOMAIN mirrorSteps[r] :
       i \in Nat /\ mirrorSteps[r][i] \in StepTypes
  /\ audit \in [Runs -> SUBSET {"agent_run.created",
                                "agent_run.cancellation_requested"}]
  /\ mirror \in [Runs -> Documents]
  /\ job \in [Runs -> Jobs]
  /\ cancelKeys \subseteq Runs
  /\ published \in [Runs -> SUBSET (Terminal \cup {"stream_end"})]
  /\ sandboxes \in [Runs -> SUBSET Nat]
  /\ counted \in [Runs -> [Terminal -> Nat]]
  /\ create \in [Runs -> CreateStages]
  /\ cancel \in [Runs -> CancelStages]
  /\ spent \in Budgets
  /\ history \in [Runs -> Histories]

\* Every variable has its type: the stores hold what their columns and fields
\* allow, and no execution ticks off a text or a tool that was not pending.
TypeOK == StoresTypeOK /\ exec \in [Workers -> Executions]

\* The transcript of a run has no gap, whatever number of attempts wrote it and
\* even while two of them run at once: each counts the rows before it writes,
\* and the unique key stops the one that counted too early.
StepsContiguous ==
  \A r \in Runs : \A i \in DOMAIN steps[r] : 0..i \subseteq DOMAIN steps[r]

\* A TOOL_RESULT comes right after a TOOL_CALL, which recordStep's separate
\* awaits do not say and concurrent attempts could break.
TranscriptPaired ==
  \A r \in Runs : \A i \in DOMAIN steps[r] :
    steps[r][i] = "TOOL_RESULT" =>
      i > 0 /\ i - 1 \in DOMAIN steps[r] /\ steps[r][i - 1] = "TOOL_CALL"

\* A mirrored step is the step of the row with its index: Firestore never shows
\* a step that PostgreSQL, the source of truth, does not have.
MirroredStepsMatch ==
  \A r \in Runs : \A i \in DOMAIN mirrorSteps[r] :
    i \in DOMAIN steps[r] /\ mirrorSteps[r][i] = steps[r][i]

\* What a subscriber was told is the outcome for good: a published outcome is in
\* the row and in the document, and no failure or crash after it changes them.
AnnouncedOutcomeFinal ==
  \A r \in Runs : \A o \in published[r] \cap Terminal :
    status[r] = o /\ mirror[r].status = o

\* A run that ended COMPLETED or CANCELLED is mirrored to the last step: a mirror
\* write that failed on the way has turned the run FAILED.
SettledRunMirrored ==
  \A r \in Runs :
    job[r].state = "done" /\ status[r] \in {"COMPLETED", "CANCELLED"} =>
      mirror[r].status = status[r] /\ mirrorSteps[r] = steps[r]

\* The same of the steps alone, whatever dies on the way: no step of a run that
\* ended COMPLETED or CANCELLED is missing in its mirror.
SettledStepsMirrored ==
  \A r \in Runs :
    job[r].state = "done" /\ status[r] \in {"COMPLETED", "CANCELLED"} =>
      mirrorSteps[r] = steps[r]

\* A run that is RUNNING has somebody who will end it: the request that creates
\* it or a job in the queue.
NoOrphanedRun ==
  \A r \in Runs :
    status[r] = "RUNNING" =>
      create[r] \in InFlight \/ job[r].state \in {"waiting", "active"}

\* Once a cancellation is acknowledged, at most one more model call begins, the
\* one whose check of the key came before.
LateCallBound == \A r \in Runs : history[r].lateCalls <= 1

\* An acknowledged cancellation is not forgotten while its run is RUNNING: an
\* execution deletes the key only after it has saved an outcome.
CancelRequestKept ==
  \A r \in Runs :
    history[r].cancelled /\ status[r] = "RUNNING" => r \in cancelKeys

\* Only a run whose own cancellation was asked for is ever CANCELLED.
CancelledOnlyIfAsked ==
  \A r \in Runs : status[r] = "CANCELLED" => history[r].cancelled

\* A live sandbox belongs to the execution that created it, which still has its
\* finally clause before it: no path out of execute leaks one.
SandboxesOwned ==
  \A r \in Runs : \A a \in sandboxes[r] :
    \E w \in Workers :
      /\ exec[w].run = r /\ exec[w].attempt = a /\ exec[w].sandbox
      /\ exec[w].pc \in TryBody \cup Finishing \cup {"killSandbox"}

\* A run is offered to the workers only once its document and its audit record
\* exist, so that updateRun never makes a document without an owner.
EnqueuedRunRecorded ==
  \A r \in Runs :
    /\ job[r].state # "none" =>
         mirror[r].created /\ "agent_run.created" \in audit[r]
    /\ mirror[r].status # "none" => mirror[r].created

\* agent_runs_total counts a run at most once, under the status it has.
CountedOnce ==
  \A r \in Runs : \A s \in Terminal :
    counted[r][s] <= IF status[r] = s THEN 1 ELSE 0

\* A run whose request was accepted ends, by itself or by the queue's recovery.
RunSettles ==
  \A r \in Runs : create[r] = "accepted" ~> status[r] \in Terminal

\* The event stream of an accepted run is ended.
StreamEnds ==
  \A r \in Runs : create[r] = "accepted" ~> "stream_end" \in published[r]

-----------------------------------------------------------------------------
(* The refinement of RunLifecycle.                                         *)

Lifecycle ==
  INSTANCE RunLifecycle
    WITH outcome   <- status,
         announced <- {r \in Runs : published[r] \cap Terminal # {}}

\* Every behaviour of the executors, the requests and the queue is one of the
\* abstract life cycle, seen through the status column and the run's channel.
ImplementsLifecycle == Lifecycle!Spec

==============================================================================
