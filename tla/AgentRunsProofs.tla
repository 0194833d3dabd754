--------------------------- MODULE AgentRunsProofs ---------------------------
(***************************************************************************)
(* Proofs about AgentRuns for every number of runs, workers, iterations,   *)
(* blocks, faults, crashes and lock losses: type correctness, and that the *)
(* transcript of a run stays in one piece however many executions write it *)
(* and that the mirror shows only steps of it.                             *)
(***************************************************************************)
EXTENDS AgentRuns, FiniteSetTheorems, TLAPS

\* The stages of an execution that write a step or are between two writes.
Recording == {"insertStep", "mirrorStep", "emitStep", "runTool"}

Busy(e) == e \in Executions /\ e.run \in Runs

\* What the fields of an execution say of one another.  Without it the type is
\* not inductive: a text or a tool is ticked off only while one is pending.
WellFormed(e) ==
  /\ e \in Executions
  /\ e.pc # "idle" => e.run \in Runs
  /\ e.pc \in Recording /\ e.step = "ASSISTANT" => e.texts > 0
  /\ e.pc \in Recording /\ e.step # "ASSISTANT" => e.tools > 0
  /\ e.pc = "runTool" => e.step = "TOOL_CALL"
  /\ e.pc = "mirrorStep" => e.index > 0
  /\ e.pc \in Finishing => e.outcome # "none"

Executing == exec \in [Workers -> Executions] /\ \A w \in Workers : WellFormed(exec[w])

TypeInv == StoresTypeOK /\ Executing

-----------------------------------------------------------------------------
(* Where an execution goes next.                                           *)

LEMMA ThrownWellFormed ==
  ASSUME NEW e, Busy(e), e.pc # "idle"
  PROVE  WellFormed(Thrown(e))
  BY DEF Busy, WellFormed, Thrown, Caught, Unwound, Executions, ExecStages, TryBody,
         Finishing, Finally, Recording, Terminal

LEMMA ProceedCases ==
  ASSUME NEW e
  PROVE  \/ /\ e.texts # 0
            /\ Proceed(e) = [e EXCEPT !.pc = "insertStep", !.step = "ASSISTANT"]
         \/ /\ e.texts = 0 /\ e.tools # 0
            /\ Proceed(e) = [e EXCEPT !.pc = "insertStep", !.step = "TOOL_CALL"]
         \/ /\ e.texts = 0 /\ e.tools = 0 /\ e.outcome = "COMPLETED"
            /\ Proceed(e) = [e EXCEPT !.pc = "saveOutcome"]
         \/ Proceed(e) = [e EXCEPT !.pc = "checkCancel", !.iteration = @ + 1]
         \/ Proceed(e) = Thrown(e)
  BY Zenon DEF Proceed

\* Moving on to record a step of some type, and to the next iteration.
LEMMA RecordWellFormed ==
  ASSUME NEW e, Busy(e),
         NEW stage \in {"insertStep", "emitStep"}, NEW type \in StepTypes,
         type = "ASSISTANT" => e.texts # 0,
         type # "ASSISTANT" => e.tools # 0
  PROVE  WellFormed([e EXCEPT !.pc = stage, !.step = type])
<1> DEFINE f == [e EXCEPT !.pc = stage, !.step = type]
<1>1. e \in Executions /\ stage \in ExecStages
  BY DEF Busy, Recording, ExecStages, TryBody
<1>2. f \in Executions
  BY <1>1 DEF Executions
<1>3. f.pc = stage /\ f.step = type
  BY <1>1 DEF Executions
<1>4. f.run = e.run /\ f.texts = e.texts /\ f.tools = e.tools
  BY <1>1 DEF Executions
<1>5. e.texts \in Nat /\ e.tools \in Nat
  BY <1>1 DEF Executions
<1> HIDE DEF f
<1>6. stage \notin Finishing \cup {"idle", "runTool", "mirrorStep"} /\ e.run \in Runs
  BY DEF Busy, Recording, Finishing
<1>7. /\ type = "ASSISTANT" => f.texts > 0
      /\ type # "ASSISTANT" => f.tools > 0
  BY <1>4, <1>5
<1>8. WellFormed(f)
  BY <1>2, <1>3, <1>4, <1>6, <1>7 DEF WellFormed
<1>9. QED
  BY <1>8 DEF f

LEMMA IterateWellFormed ==
  ASSUME NEW e, Busy(e)
  PROVE  WellFormed([e EXCEPT !.pc = "checkCancel", !.iteration = @ + 1])
<1> DEFINE f(n) == [e EXCEPT !.pc = "checkCancel", !.iteration = n]
<1>1. e \in Executions /\ e.iteration + 1 \in Nat
  BY DEF Busy, Executions
<1>2. ASSUME NEW n \in Nat
      PROVE  f(n) \in Executions /\ f(n).pc = "checkCancel" /\ f(n).run = e.run
  BY <1>1 DEF Executions, ExecStages, TryBody
<1>3. [e EXCEPT !.pc = "checkCancel", !.iteration = @ + 1] = f(e.iteration + 1)
  BY <1>1 DEF Executions
<1> HIDE DEF f
<1>4. QED
  BY <1>1, <1>2, <1>3 DEF Busy, WellFormed, Recording, Finishing

LEMMA ProceedWellFormed ==
  ASSUME NEW e, Busy(e), e.pc \in {"callModel", "emitStep"}
  PROVE  WellFormed(Proceed(e))
<1>1. WellFormed([e EXCEPT !.pc = "checkCancel", !.iteration = @ + 1])
  BY IterateWellFormed
<1>2. ASSUME e.texts # 0
      PROVE  WellFormed([e EXCEPT !.pc = "insertStep", !.step = "ASSISTANT"])
  BY <1>2, RecordWellFormed DEF Recording, StepTypes
<1>3. ASSUME e.tools # 0
      PROVE  WellFormed([e EXCEPT !.pc = "insertStep", !.step = "TOOL_CALL"])
  BY <1>3, RecordWellFormed DEF Recording, StepTypes
<1>4. ASSUME e.outcome = "COMPLETED"
      PROVE  WellFormed([e EXCEPT !.pc = "saveOutcome"])
  BY <1>4 DEF Busy, WellFormed, Executions, ExecStages, Finishing, Recording
<1>5. WellFormed(Thrown(e))
  BY ThrownWellFormed
<1>6. QED
  BY <1>1, <1>2, <1>3, <1>4, <1>5, ProceedCases, Zenon

-----------------------------------------------------------------------------
(* A step of a worker changes its execution to a well-formed one.          *)

LEMMA ExecutionChanges ==
  ASSUME Executing, NEW w \in Workers, NEW next, WellFormed(next),
         exec' = [exec EXCEPT ![w] = next]
  PROVE  Executing'
  BY DEF Executing, WellFormed

LEMMA ThrowExecuting ==
  ASSUME Executing, NEW w \in Workers, exec[w].pc # "idle", Throw(w)
  PROVE  Executing'
<1>1. WellFormed(Thrown(exec[w]))
  BY ThrownWellFormed DEF Executing, WellFormed, Busy
<1>2. QED
  BY <1>1, ExecutionChanges DEF Throw

LEMMA AnsweredExecuting ==
  ASSUME Executing, NEW w \in Workers, exec[w].pc # "idle",
         NEW next, WellFormed(next), Answered(w, next)
  PROVE  Executing'
  BY ThrowExecuting, ExecutionChanges DEF Answered, CallThrows

LEMMA GotoExecuting ==
  ASSUME Executing, NEW w \in Workers, exec[w].pc # "idle",
         NEW stage \in ExecStages \ Recording,
         stage \in Finishing => exec[w].outcome # "none",
         Goto(w, stage)
  PROVE  Executing'
<1> DEFINE e == exec[w]
           f == [e EXCEPT !.pc = stage]
<1>1. WellFormed(e) /\ e \in Executions /\ e.run \in Runs
  BY DEF Executing, WellFormed
<1>2. f \in Executions /\ f.pc = stage /\ f.run = e.run /\ f.outcome = e.outcome
  BY <1>1 DEF Executions
<1> HIDE DEF f
<1>3. WellFormed(f)
  BY <1>1, <1>2 DEF WellFormed, Recording
<1>4. QED
  BY <1>3, AnsweredExecuting DEF Goto, f

-----------------------------------------------------------------------------
(* Type correctness.                                                       *)

LEMMA SpentTyped ==
  ASSUME spent \in Budgets,
         \/ spent' = [spent EXCEPT !.workerCrashes = @ + 1]
         \/ spent' = [spent EXCEPT !.apiCrashes = @ + 1]
         \/ spent' = [spent EXCEPT !.lockLosses = @ + 1]
  PROVE  spent' \in Budgets
  BY DEF Budgets

LEMMA DocumentTyped ==
  ASSUME mirror \in [Runs -> Documents], NEW r \in Runs
  PROVE  /\ \A s \in Statuses :
              [mirror EXCEPT ![r].status = s] \in [Runs -> Documents]
         /\ \A a \in Nat :
              [mirror EXCEPT ![r].sandboxId = a] \in [Runs -> Documents]
  BY DEF Documents

LEMMA CallCountedTyped ==
  ASSUME NEW h \in Histories
  PROVE  [lateCalls |-> IF h.cancelled THEN h.lateCalls + 1 ELSE h.lateCalls,
          cancelled |-> h.cancelled] \in Histories
<1>1. /\ h.cancelled \in BOOLEAN
      /\ h.lateCalls \in Nat /\ h.lateCalls + 1 \in Nat
  BY DEF Histories
<1>2. QED
  BY <1>1 DEF Histories

LEMMA CountedTyped ==
  ASSUME counted \in [Runs -> [Terminal -> Nat]], NEW r \in Runs,
         NEW s \in Terminal
  PROVE  [counted EXCEPT ![r][s] = @ + 1] \in [Runs -> [Terminal -> Nat]]
<1>1. [counted[r] EXCEPT ![s] = @ + 1] \in [Terminal -> Nat]
  OBVIOUS
<1>2. [counted EXCEPT ![r] = [counted[r] EXCEPT ![s] = @ + 1]]
        \in [Runs -> [Terminal -> Nat]]
  BY <1>1
<1>3. QED
  BY <1>2

LEMMA JobStateTyped ==
  ASSUME job \in [Runs -> Jobs], NEW r \in Runs,
         NEW state \in {"none", "waiting", "active", "done"}
  PROVE  [job EXCEPT ![r].state = state] \in [Runs -> Jobs]
  BY DEF Jobs

LEMMA MoveStalledTyped ==
  ASSUME job \in [Runs -> Jobs], NEW r \in Runs, MoveStalled(r)
  PROVE  job' \in [Runs -> Jobs]
  BY DEF MoveStalled, Jobs

LEMMA TakeJobTyped ==
  ASSUME job \in [Runs -> Jobs], NEW r \in Runs, NEW w, TakeJob(w, r)
  PROVE  job' \in [Runs -> Jobs]
<1>1. job' = [job EXCEPT ![r] = [state |-> "active", attempt |-> @.attempt + 1,
                                 stalls |-> @.stalls]]
  BY DEF TakeJob
<1>2. QED
  BY <1>1 DEF Jobs

LEMMA CancelledTyped ==
  ASSUME history \in [Runs -> Histories], NEW r \in Runs
  PROVE  [history EXCEPT ![r].cancelled = TRUE] \in [Runs -> Histories]
  BY DEF Histories

LEMMA RescueStages ==
  ASSUME NEW stage \in CreateStages
  PROVE  Rescue(stage) \in CreateStages
  BY DEF Rescue, CreateStages

LEMMA CreateGotoTyped ==
  ASSUME create \in [Runs -> CreateStages], NEW r \in Runs,
         NEW stage \in CreateStages, CreateGoto(r, stage)
  PROVE  create' \in [Runs -> CreateStages]
  BY RescueStages DEF CreateGoto, CreateThrows

LEMMA CreateTyped ==
  ASSUME TypeInv, NEW r \in Runs,
         CreateRun(r) \/ CreateStep(r) \/ ApiCrash(r)
  PROVE  TypeInv'
<1> USE DEF TypeInv, StoresTypeOK, Executing, postgresVars, mirrorVars, redisVars,
            requestVars, ghostVars
<1>1. CASE CreateRun(r)
  <2>1. create' \in [Runs -> CreateStages]
    BY <1>1, CreateGotoTyped, "setRun" \in CreateStages DEF CreateRun, CreateStages
  <2>2. QED
    BY <1>1, <2>1 DEF CreateRun, Statuses
<1>2. CASE SetRun(r)
  <2>1. create' \in [Runs -> CreateStages]
    BY <1>2, CreateGotoTyped, "audit" \in CreateStages DEF SetRun, CreateStages
  <2>2. mirror' \in [Runs -> Documents]
    BY <1>2 DEF SetRun, Documents, Statuses
  <2>3. QED
    BY <1>2, <2>1, <2>2 DEF SetRun
<1>3. CASE AuditCreated(r)
  <2>1. create' \in [Runs -> CreateStages]
    BY <1>3, CreateGotoTyped, "enqueue" \in CreateStages
    DEF AuditCreated, CreateStages
  <2>2. QED
    BY <1>3, <2>1 DEF AuditCreated
<1>4. CASE Enqueue(r)
  <2>1. create' \in [Runs -> CreateStages]
    BY <1>4, CreateGotoTyped, "accepted" \in CreateStages DEF Enqueue, CreateStages
  <2>2. job' \in [Runs -> Jobs]
    BY <1>4, JobStateTyped DEF Enqueue
  <2>3. QED
    BY <1>4, <2>1, <2>2 DEF Enqueue
<1>5. CASE FailRow(r)
  <2>1. create' \in [Runs -> CreateStages]
    BY <1>5, CreateGotoTyped, {"rejected", "compensateMirror"} \subseteq CreateStages
    DEF FailRow, CreateStages
  <2>2. QED
    BY <1>5, <2>1 DEF FailRow, Statuses, Terminal
<1>6. CASE FailDocument(r)
  <2>1. create' \in [Runs -> CreateStages]
    BY <1>6, CreateGotoTyped, "rejected" \in CreateStages
    DEF FailDocument, CreateStages
  <2>2. mirror' \in [Runs -> Documents]
    BY <1>6, DocumentTyped, "FAILED" \in Statuses DEF FailDocument, Statuses, Terminal
  <2>3. QED
    BY <1>6, <2>1, <2>2 DEF FailDocument
<1>7. CASE CreateThrow(r)
  <2>1. create' \in [Runs -> CreateStages]
    BY <1>7, RescueStages DEF CreateThrow, CreateThrows
  <2>2. QED
    BY <1>7, <2>1 DEF CreateThrow
<1>8. CASE ApiCrash(r)
  <2>1. spent' \in Budgets
    BY <1>8, SpentTyped DEF ApiCrash
  <2>2. QED
    BY <1>8, <2>1 DEF ApiCrash, CreateStages
<1>9. QED
  BY <1>1, <1>2, <1>3, <1>4, <1>5, <1>6, <1>7, <1>8 DEF CreateStep

LEMMA CancelTyped ==
  ASSUME TypeInv, NEW r \in Runs,
         ReadForCancel(r) \/ CancelStep(r) \/ KeyExpires(r)
  PROVE  TypeInv'
<1> USE DEF TypeInv, StoresTypeOK, Executing, postgresVars, mirrorVars, redisVars,
            requestVars, ghostVars, CancelStages
<1>1. CASE ReadForCancel(r)
  BY <1>1 DEF ReadForCancel
<1>2. CASE SetCancelKey(r)
  <2>1. history' \in [Runs -> Histories]
    BY <1>2, CancelledTyped DEF SetCancelKey
  <2>2. QED
    BY <1>2, <2>1 DEF SetCancelKey, CancelGoto, CancelThrows
<1>3. CASE AuditCancel(r)
  BY <1>3 DEF AuditCancel, CancelGoto, CancelThrows
<1>4. CASE CancelThrow(r)
  BY <1>4 DEF CancelThrow, CancelThrows
<1>5. CASE KeyExpires(r)
  BY <1>5 DEF KeyExpires
<1>6. QED
  BY <1>1, <1>2, <1>3, <1>4, <1>5 DEF CancelStep

LEMMA IdleWellFormed == WellFormed(Idle)
  BY DEF WellFormed, Idle, Executions, ExecStages, Recording, Finishing,
         Terminal, StepTypes

LEMMA QueueTyped ==
  ASSUME TypeInv,
         \/ \E r \in Runs : RecoverJob(r) \/ LoseLock(r)
         \/ \E w \in Workers : SettleJob(w) \/ WorkerCrash(w)
         \/ \E w \in Workers, r \in Runs : TakeJob(w, r)
  PROVE  TypeInv'
<1> USE DEF TypeInv, postgresVars, mirrorVars, redisVars, requestVars, ghostVars
<1>1. ASSUME NEW r \in Runs, RecoverJob(r)
      PROVE  TypeInv'
  <2>1. job' \in [Runs -> Jobs]
    BY <1>1, MoveStalledTyped DEF RecoverJob, StoresTypeOK
  <2>2. QED
    BY <1>1, <2>1 DEF RecoverJob, StoresTypeOK, Executing
<1>2. ASSUME NEW r \in Runs, LoseLock(r)
      PROVE  TypeInv'
  <2>1. job' \in [Runs -> Jobs]
    BY <1>2, MoveStalledTyped DEF LoseLock, StoresTypeOK
  <2>2. spent' \in Budgets
    BY <1>2, SpentTyped DEF LoseLock, StoresTypeOK
  <2>3. QED
    BY <1>2, <2>1, <2>2 DEF LoseLock, StoresTypeOK, Executing
<1>3. ASSUME NEW w \in Workers, SettleJob(w)
      PROVE  TypeInv'
  <2>1. Executing'
    BY <1>3, IdleWellFormed, ExecutionChanges DEF SettleJob
  <2>2. job' \in [Runs -> Jobs]
    <3>1. job \in [Runs -> Jobs]
      BY DEF StoresTypeOK
    <3>2. job' = job \/ job' = [job EXCEPT ![exec[w].run].state = "done"]
      BY <1>3 DEF SettleJob
    <3>3. CASE exec[w].run \in Runs
      BY <3>1, <3>2, <3>3, JobStateTyped
    <3>4. CASE exec[w].run \notin Runs
      BY <3>1, <3>2, <3>4
    <3>5. QED
      BY <3>3, <3>4
  <2>3. StoresTypeOK'
    BY <1>3, <2>2 DEF SettleJob, StoresTypeOK
  <2>4. QED
    BY <2>1, <2>3
<1>4. ASSUME NEW w \in Workers, WorkerCrash(w)
      PROVE  TypeInv'
  <2>1. Executing'
    BY <1>4, IdleWellFormed, ExecutionChanges DEF WorkerCrash
  <2>2. spent' \in Budgets
    BY <1>4, SpentTyped DEF WorkerCrash, StoresTypeOK
  <2>3. StoresTypeOK'
    BY <1>4, <2>2 DEF WorkerCrash, StoresTypeOK
  <2>4. QED
    BY <2>1, <2>3
<1>5. ASSUME NEW w \in Workers, NEW r \in Runs, TakeJob(w, r)
      PROVE  TypeInv'
  <2> DEFINE f(n) == [Idle EXCEPT !.pc = "findRun", !.run = r, !.attempt = n]
  <2>1. job[r].attempt + 1 \in Nat
    BY DEF StoresTypeOK, Jobs
  <2>2. \A n \in Nat : WellFormed(f(n))
    BY DEF WellFormed, Idle, Executions, ExecStages, Recording, Finishing,
           Terminal, StepTypes
  <2>3. exec' = [exec EXCEPT ![w] = f(job[r].attempt + 1)]
    BY <1>5 DEF TakeJob
  <2> HIDE DEF f
  <2>4. Executing'
    BY <2>1, <2>2, <2>3, ExecutionChanges
  <2>5. job' \in [Runs -> Jobs]
    BY <1>5, TakeJobTyped DEF StoresTypeOK
  <2>6. StoresTypeOK'
    BY <1>5, <2>5 DEF TakeJob, StoresTypeOK
  <2>7. QED
    BY <2>4, <2>6
<1>6. QED
  BY <1>1, <1>2, <1>3, <1>4, <1>5

LEMMA StoresUnchanged ==
  ASSUME StoresTypeOK, UNCHANGED storeVars
  PROVE  StoresTypeOK'
  BY DEF StoresTypeOK, storeVars, postgresVars, mirrorVars, redisVars,
         requestVars, ghostVars

\* The executor's steps that write to no store.
LEMMA SilentStepTyped ==
  ASSUME TypeInv, NEW w \in Workers,
         \/ CallFails(w) \/ FindRun(w) \/ EmitStarted(w) \/ CountSteps(w)
         \/ CheckCancel(w) \/ EmitStep(w) \/ RunTool(w)
  PROVE  TypeInv'
<1> DEFINE e == exec[w]
<1>1. StoresTypeOK'
  BY StoresUnchanged DEF TypeInv, CallFails, FindRun, EmitStarted, CountSteps,
     CheckCancel, EmitStep, RunTool
<1>2. WellFormed(e) /\ e \in Executions /\ Executing
  BY DEF TypeInv, Executing, WellFormed
<1>3. CASE CallFails(w)
  <2>1. e.pc # "idle"
    BY <1>3 DEF CallFails, CallThrows, ServiceOf
  <2>2. QED
    BY <1>1, <1>2, <1>3, <2>1, ThrowExecuting DEF TypeInv, CallFails, CallThrows
<1>4. CASE FindRun(w)
  <2>1. {"createSandbox", "settleJob"} \subseteq (ExecStages \ Recording) \ Finishing
    BY DEF ExecStages, TryBody, Recording, Finishing
  <2>2. QED
    BY <1>1, <1>2, <1>4, <2>1, GotoExecuting DEF TypeInv, FindRun
<1>5. CASE EmitStarted(w)
  <2>1. "countSteps" \in (ExecStages \ Recording) \ Finishing
    BY DEF ExecStages, TryBody, Recording, Finishing
  <2>2. QED
    BY <1>1, <1>2, <1>5, <2>1, GotoExecuting DEF TypeInv, EmitStarted
<1>6. CASE CountSteps(w)
  <2> DEFINE f(n) == [e EXCEPT !.pc = "checkCancel", !.index = n]
  <2>1. Cardinality(DOMAIN steps[e.run]) \in Nat
    BY <1>2, <1>6, FS_CardinalityType
    DEF TypeInv, StoresTypeOK, CountSteps, WellFormed
  <2>2. ASSUME NEW n \in Nat
        PROVE  f(n) \in Executions /\ f(n).pc = "checkCancel" /\ f(n).run = e.run
    BY <1>2 DEF Executions, ExecStages, TryBody
  <2>3. e.pc = "countSteps" /\ Answered(w, f(Cardinality(DOMAIN steps[e.run])))
    BY <1>6 DEF CountSteps
  <2> HIDE DEF f
  <2>4. \A n \in Nat : WellFormed(f(n))
    BY <1>2, <2>2, <2>3 DEF WellFormed, Recording, Finishing
  <2>5. QED
    BY <1>1, <1>2, <2>1, <2>3, <2>4, AnsweredExecuting DEF TypeInv
<1>7. CASE CheckCancel(w)
  <2>1. WellFormed(Cancelled(e)) /\ WellFormed([e EXCEPT !.pc = "callModel"])
    BY <1>2, <1>7 DEF CheckCancel, Cancelled, WellFormed, Executions, ExecStages,
       TryBody, Finishing, Recording, Terminal
  <2>2. QED
    BY <1>1, <1>2, <1>7, <2>1, AnsweredExecuting DEF TypeInv, CheckCancel
<1>8. CASE EmitStep(w)
  <2>1. /\ e.pc = "emitStep" /\ e.run \in Runs
        /\ e.step = "ASSISTANT" => e.texts - 1 \in Nat
        /\ e.step # "ASSISTANT" => e.tools - 1 \in Nat
    BY <1>2, <1>8 DEF EmitStep, WellFormed, Recording, Executions
  <2>2. CASE e.step = "ASSISTANT"
    <3> DEFINE f == [e EXCEPT !.texts = @ - 1]
    <3>1. Busy(f) /\ f.pc = "emitStep"
      BY <1>2, <2>1, <2>2 DEF Busy, Executions
    <3>2. Answered(w, Proceed(f))
      BY <1>8, <2>2 DEF EmitStep
    <3> HIDE DEF f
    <3>3. QED
      BY <1>1, <1>2, <2>1, <3>1, <3>2, ProceedWellFormed, AnsweredExecuting
      DEF TypeInv
  <2>3. CASE e.step = "TOOL_CALL"
    <3> DEFINE f == [e EXCEPT !.pc = "runTool"]
    <3>1. WellFormed(f)
      BY <1>2, <2>1, <2>3 DEF WellFormed, Executions, ExecStages, TryBody,
         Recording, Finishing
    <3>2. Answered(w, f)
      BY <1>8, <2>3 DEF EmitStep
    <3> HIDE DEF f
    <3>3. QED
      BY <1>1, <1>2, <2>1, <3>1, <3>2, AnsweredExecuting DEF TypeInv
  <2>4. CASE e.step = "TOOL_RESULT"
    <3> DEFINE f == [e EXCEPT !.tools = @ - 1]
    <3>1. Busy(f) /\ f.pc = "emitStep"
      BY <1>2, <2>1, <2>4 DEF Busy, Executions
    <3>2. Answered(w, Proceed(f))
      BY <1>8, <2>4 DEF EmitStep
    <3> HIDE DEF f
    <3>3. QED
      BY <1>1, <1>2, <2>1, <3>1, <3>2, ProceedWellFormed, AnsweredExecuting
      DEF TypeInv
  <2>5. QED
    BY <1>2, <2>2, <2>3, <2>4 DEF Executions, StepTypes
<1>9. CASE RunTool(w)
  <2>1. e.pc = "runTool" /\ e.step = "TOOL_CALL" /\ e.tools # 0
    BY <1>2, <1>9 DEF RunTool, WellFormed, Recording, Executions
  <2>2. WellFormed([e EXCEPT !.pc = "insertStep", !.step = "TOOL_RESULT"])
    <3>1. Busy(e)
      BY <1>2, <2>1 DEF WellFormed, Busy
    <3>2. "TOOL_RESULT" \in StepTypes
      BY DEF StepTypes
    <3>3. QED
      BY <2>1, <3>1, <3>2, RecordWellFormed
  <2>3. QED
    BY <1>1, <1>2, <1>9, <2>1, <2>2, ExecutionChanges, ThrowExecuting
    DEF TypeInv, RunTool
<1>10. QED
  BY <1>3, <1>4, <1>5, <1>6, <1>7, <1>8, <1>9

\* The executor's steps that write to a store.
LEMMA CreateSandboxTyped ==
  ASSUME TypeInv, NEW w \in Workers, CreateSandbox(w)
  PROVE  TypeInv'
<1> DEFINE e == exec[w]
           f == [e EXCEPT !.pc = "saveSandbox", !.sandbox = TRUE]
<1>1. /\ WellFormed(e) /\ e \in Executions /\ Executing
      /\ e.pc = "createSandbox" /\ e.run \in Runs /\ e.attempt \in Nat
  BY DEF TypeInv, Executing, WellFormed, CreateSandbox, Executions
<1>2. WellFormed(f)
  BY <1>1 DEF WellFormed, Executions, ExecStages, TryBody, Recording, Finishing
<1>3. Answered(w, f)
  BY DEF CreateSandbox
<1> HIDE DEF f
<1>4. Executing'
  BY <1>1, <1>2, <1>3, AnsweredExecuting
<1>5. sandboxes' \in [Runs -> SUBSET Nat]
  BY <1>1 DEF TypeInv, StoresTypeOK, CreateSandbox
<1>6. StoresTypeOK'
  BY <1>5 DEF TypeInv, StoresTypeOK, CreateSandbox, postgresVars, mirrorVars,
     redisVars, requestVars, ghostVars
<1>7. QED
  BY <1>4, <1>6 DEF TypeInv

LEMMA SandboxStepTyped ==
  ASSUME TypeInv, NEW w \in Workers,
         SaveSandbox(w) \/ MirrorSandbox(w) \/ KillSandbox(w)
  PROVE  TypeInv'
<1> DEFINE e == exec[w]
<1>1. WellFormed(e) /\ Executing /\ e.attempt \in Nat
  BY DEF TypeInv, Executing, WellFormed, Executions
<1>2. {"mirrorSandbox", "emitStarted", "endStream"}
        \subseteq (ExecStages \ Recording) \ Finishing
  BY DEF ExecStages, TryBody, Finally, Recording, Finishing
<1>3. Executing'
  BY <1>1, <1>2, GotoExecuting DEF SaveSandbox, MirrorSandbox, KillSandbox
<1> USE DEF TypeInv, StoresTypeOK, postgresVars, mirrorVars, redisVars,
            requestVars, ghostVars
<1>4. CASE SaveSandbox(w)
  BY <1>1, <1>3, <1>4 DEF SaveSandbox
<1>5. CASE MirrorSandbox(w)
  <2>1. e.run \in Runs
    BY <1>1, <1>5 DEF MirrorSandbox, WellFormed
  <2>2. mirror' \in [Runs -> Documents]
    BY <1>1, <1>5, <2>1, DocumentTyped DEF MirrorSandbox
  <2>3. QED
    BY <1>3, <1>5, <2>2 DEF MirrorSandbox
<1>6. CASE KillSandbox(w)
  BY <1>3, <1>6 DEF KillSandbox
<1>7. QED
  BY <1>4, <1>5, <1>6

LEMMA FinallyStepTyped ==
  ASSUME TypeInv, NEW w \in Workers,
         EmitOutcome(w) \/ EndStream(w) \/ ClearCancel(w)
  PROVE  TypeInv'
<1> DEFINE e == exec[w]
<1>1. WellFormed(e) /\ Executing
  BY DEF TypeInv, Executing
<1>2. {"killSandbox", "clearCancel", "settleJob"}
        \subseteq (ExecStages \ Recording) \ Finishing
  BY DEF ExecStages, Finally, Recording, Finishing
<1>3. Executing'
  BY <1>1, <1>2, GotoExecuting DEF EmitOutcome, EndStream, ClearCancel
<1>4. e.pc = "emitOutcome" => e.outcome \in Terminal
  BY <1>1 DEF WellFormed, Finishing, Executions
<1> USE DEF TypeInv, StoresTypeOK, postgresVars, mirrorVars, redisVars,
            requestVars, ghostVars
<1>5. CASE EmitOutcome(w)
  BY <1>3, <1>4, <1>5 DEF EmitOutcome
<1>6. CASE EndStream(w)
  BY <1>3, <1>6 DEF EndStream
<1>7. CASE ClearCancel(w)
  BY <1>3, <1>7 DEF ClearCancel
<1>8. QED
  BY <1>5, <1>6, <1>7

LEMMA WithStepTyped ==
  ASSUME NEW rows, \A i \in DOMAIN rows : i \in Nat /\ rows[i] \in StepTypes,
         NEW i \in Nat, NEW type \in StepTypes
  PROVE  \A j \in DOMAIN WithStep(rows, i, type) :
           j \in Nat /\ WithStep(rows, i, type)[j] \in StepTypes
  BY DEF WithStep

LEMMA InsertStepTyped ==
  ASSUME TypeInv, NEW w \in Workers, InsertStep(w)
  PROVE  TypeInv'
<1> DEFINE e == exec[w]
           r == e.run
           f(n) == [e EXCEPT !.pc = "mirrorStep", !.index = n]
<1>1. /\ WellFormed(e) /\ e \in Executions /\ Executing /\ StoresTypeOK
      /\ e.pc = "insertStep" /\ r \in Runs /\ e.index \in Nat
      /\ e.step \in StepTypes
  BY DEF TypeInv, Executing, WellFormed, InsertStep, Executions
<1>2. CASE e.index \in DOMAIN steps[r]
  <2>1. Throw(w) /\ UNCHANGED storeVars
    BY <1>2 DEF InsertStep, storeVars, postgresVars
  <2>2. QED
    BY <1>1, <2>1, ThrowExecuting, StoresUnchanged DEF TypeInv
<1>3. CASE e.index \notin DOMAIN steps[r]
  <2>1. ASSUME NEW n \in Nat, n > 0
        PROVE  WellFormed(f(n))
    <3>1. /\ f(n) \in Executions /\ f(n).pc = "mirrorStep" /\ f(n).run = e.run
          /\ f(n).step = e.step /\ f(n).texts = e.texts /\ f(n).tools = e.tools
          /\ f(n).index = n
      BY <1>1 DEF Executions, ExecStages, TryBody
    <3> HIDE DEF f
    <3>2. QED
      BY <1>1, <2>1, <3>1 DEF WellFormed, Recording, Finishing
  <2>2. Answered(w, f(e.index + 1)) /\ e.index + 1 \in Nat /\ e.index + 1 > 0
    BY <1>1, <1>3 DEF InsertStep
  <2> HIDE DEF f
  <2>3. Executing'
    BY <1>1, <2>1, <2>2, AnsweredExecuting
  <2>4. steps' = [steps EXCEPT ![r] = WithStep(steps[r], e.index, e.step)]
    BY <1>3 DEF InsertStep
  <2>5. /\ DOMAIN steps = Runs
        /\ \A q \in Runs : /\ IsFiniteSet(DOMAIN steps[q])
                          /\ \A i \in DOMAIN steps[q] :
                               i \in Nat /\ steps[q][i] \in StepTypes
    BY <1>1 DEF StoresTypeOK
  <2>6. IsFiniteSet(DOMAIN WithStep(steps[r], e.index, e.step))
    BY <1>1, <2>5, FS_AddElement DEF WithStep
  <2>7. \A j \in DOMAIN WithStep(steps[r], e.index, e.step) :
          j \in Nat /\ WithStep(steps[r], e.index, e.step)[j] \in StepTypes
    BY <1>1, <2>5, WithStepTyped
  <2>8. /\ DOMAIN steps' = Runs
        /\ \A q \in Runs : /\ IsFiniteSet(DOMAIN steps'[q])
                          /\ \A i \in DOMAIN steps'[q] :
                               i \in Nat /\ steps'[q][i] \in StepTypes
    BY <2>4, <2>5, <2>6, <2>7
  <2>9. StoresTypeOK'
    BY <1>1, <2>8 DEF InsertStep, StoresTypeOK, mirrorVars, redisVars,
       requestVars, ghostVars
  <2>10. QED
    BY <2>3, <2>9 DEF TypeInv
<1>4. QED
  BY <1>2, <1>3

LEMMA MirrorStepTyped ==
  ASSUME TypeInv, NEW w \in Workers, MirrorStep(w)
  PROVE  TypeInv'
<1> DEFINE e == exec[w]
           r == e.run
           i == e.index - 1
           f == [e EXCEPT !.pc = "emitStep"]
<1>1. /\ WellFormed(e) /\ e \in Executions /\ Executing /\ StoresTypeOK
      /\ e.pc = "mirrorStep" /\ r \in Runs /\ e.step \in StepTypes
  BY DEF TypeInv, Executing, WellFormed, MirrorStep, Executions
<1>2. i \in Nat
  BY <1>1 DEF WellFormed, Executions
<1>3. CASE i \in DOMAIN mirrorSteps[r]
  <2>1. Throw(w) /\ UNCHANGED storeVars
    BY <1>3 DEF MirrorStep, storeVars, mirrorVars
  <2>2. QED
    BY <1>1, <2>1, ThrowExecuting, StoresUnchanged DEF TypeInv
<1>4. CASE i \notin DOMAIN mirrorSteps[r]
  <2>1. /\ f \in Executions /\ f.pc = "emitStep" /\ f.run = e.run
        /\ f.step = e.step /\ f.texts = e.texts /\ f.tools = e.tools
    BY <1>1 DEF Executions, ExecStages, TryBody
  <2>2. Answered(w, f)
    BY <1>4 DEF MirrorStep, Goto
  <2> HIDE DEF f
  <2>3. WellFormed(f)
    BY <1>1, <2>1 DEF WellFormed, Recording, Finishing
  <2>4. Executing'
    BY <1>1, <2>2, <2>3, AnsweredExecuting
  <2>5. mirrorSteps' = [mirrorSteps EXCEPT ![r] = WithStep(mirrorSteps[r], i, e.step)]
    BY <1>4 DEF MirrorStep
  <2>6. /\ DOMAIN mirrorSteps = Runs
        /\ \A q \in Runs : \A j \in DOMAIN mirrorSteps[q] :
              j \in Nat /\ mirrorSteps[q][j] \in StepTypes
    BY <1>1 DEF StoresTypeOK
  <2> HIDE DEF i
  <2>7. \A j \in DOMAIN WithStep(mirrorSteps[r], i, e.step) :
          j \in Nat /\ WithStep(mirrorSteps[r], i, e.step)[j] \in StepTypes
    BY <1>1, <1>2, <2>6, WithStepTyped
  <2>8. /\ DOMAIN mirrorSteps' = Runs
        /\ \A q \in Runs : \A j \in DOMAIN mirrorSteps'[q] :
              j \in Nat /\ mirrorSteps'[q][j] \in StepTypes
    BY <2>5, <2>6, <2>7
  <2>9. StoresTypeOK'
    BY <1>1, <2>8 DEF MirrorStep, StoresTypeOK, postgresVars, redisVars,
       requestVars, ghostVars
  <2>10. QED
    BY <2>4, <2>9 DEF TypeInv
<1>5. QED
  BY <1>3, <1>4

LEMMA CallModelAnswered ==
  ASSUME NEW w, CallModel(w), exec[w] \in Executions
  PROVE  \E n \in Nat, m \in Nat, o \in Terminal \cup {"none"} :
           Answered(w, Proceed([exec[w] EXCEPT !.texts = n, !.tools = m,
                                               !.outcome = o]))
<1> DEFINE e == exec[w]
           f(x, t, o) == [e EXCEPT !.texts = x, !.tools = t, !.outcome = o]
<1>1. PICK x \in 0..MaxTexts, t \in 0..MaxToolUses, b \in BOOLEAN :
        LET final == ~ b \/ t = 0 IN
        Answered(w, Proceed(f(x, IF final THEN 0 ELSE t,
                              IF final THEN "COMPLETED" ELSE e.outcome)))
  BY DEF CallModel
<1>2. /\ x \in Nat /\ t \in Nat /\ 0 \in Nat
      /\ e.outcome \in Terminal \cup {"none"}
      /\ "COMPLETED" \in Terminal \cup {"none"}
  BY BlocksAssumption DEF Executions, Terminal
<1> HIDE DEF f
<1>3. \E n \in Nat, m \in Nat, o \in Terminal \cup {"none"} :
        Answered(w, Proceed(f(n, m, o)))
  BY <1>1, <1>2
<1>4. QED
  BY <1>3 DEF f

LEMMA CallModelTyped ==
  ASSUME TypeInv, NEW w \in Workers, CallModel(w)
  PROVE  TypeInv'
<1> DEFINE e == exec[w]
           r == e.run
           f(x, t, o) == [e EXCEPT !.texts = x, !.tools = t, !.outcome = o]
<1>1. /\ WellFormed(e) /\ e \in Executions /\ Executing /\ StoresTypeOK
      /\ e.pc = "callModel" /\ r \in Runs
  BY DEF TypeInv, Executing, WellFormed, CallModel
<1>2. PICK n \in Nat, m \in Nat, o \in Terminal \cup {"none"} :
        Answered(w, Proceed(f(n, m, o)))
  BY <1>1, CallModelAnswered
<1>3. Busy(f(n, m, o)) /\ f(n, m, o).pc = "callModel"
  BY <1>1 DEF Busy, Executions
<1> HIDE DEF f
<1>5. Executing'
  BY <1>1, <1>2, <1>3, ProceedWellFormed, AnsweredExecuting
<1>6. history' \in [Runs -> Histories]
  <2>1. history \in [Runs -> Histories]
    BY <1>1 DEF StoresTypeOK
  <2>2. history' = [history EXCEPT ![r] =
          [lateCalls |-> IF @.cancelled THEN @.lateCalls + 1 ELSE @.lateCalls,
           cancelled |-> @.cancelled]]
    BY DEF CallModel
  <2>3. QED
    BY <2>1, <2>2, CallCountedTyped
<1>7. StoresTypeOK'
  BY <1>1, <1>6 DEF CallModel, StoresTypeOK, postgresVars, mirrorVars, redisVars,
     requestVars
<1>8. QED
  BY <1>5, <1>7 DEF TypeInv

LEMMA OutcomeStepTyped ==
  ASSUME TypeInv, NEW w \in Workers, SaveOutcome(w) \/ MirrorOutcome(w)
  PROVE  TypeInv'
<1> DEFINE e == exec[w]
<1>1. /\ WellFormed(e) /\ e \in Executions /\ Executing /\ StoresTypeOK
      /\ e.pc \in Finishing /\ e.pc # "idle" /\ e.run \in Runs
      /\ e.outcome \in Terminal
  BY DEF TypeInv, Executing, WellFormed, Executions, SaveOutcome, MirrorOutcome,
     Finishing
<1>2. e.outcome # "none" /\ e.outcome \in Statuses
  BY <1>1 DEF Terminal, Statuses
<1>3. {"mirrorOutcome", "emitOutcome"} \subseteq ExecStages \ Recording
  BY DEF ExecStages, Finishing, Recording
<1>4. CASE SaveOutcome(w)
  <2>1. Executing'
    BY <1>1, <1>2, <1>3, <1>4, GotoExecuting DEF SaveOutcome
  <2>2. status' \in [Runs -> Statuses]
    BY <1>1, <1>2, <1>4 DEF SaveOutcome, StoresTypeOK
  <2>3. StoresTypeOK'
    BY <1>1, <1>4, <2>2 DEF SaveOutcome, StoresTypeOK, mirrorVars, redisVars,
       requestVars, ghostVars
  <2>4. QED
    BY <2>1, <2>3 DEF TypeInv
<1>5. CASE MirrorOutcome(w)
  <2>1. Executing'
    <3>1. WellFormed([e EXCEPT !.pc = "emitOutcome"])
      BY <1>1, <1>2 DEF WellFormed, Executions, ExecStages, Finishing, Recording
    <3>2. QED
      BY <1>1, <1>5, <3>1, ExecutionChanges, ThrowExecuting
      DEF MirrorOutcome, CallThrows
  <2>2. mirror' \in [Runs -> Documents]
    BY <1>1, <1>2, <1>5, DocumentTyped DEF MirrorOutcome, StoresTypeOK
  <2>3. counted' \in [Runs -> [Terminal -> Nat]]
    <3>1. counted \in [Runs -> [Terminal -> Nat]]
      BY <1>1 DEF StoresTypeOK
    <3>2. counted' \in {counted, [counted EXCEPT ![e.run][e.outcome] = @ + 1]}
      BY <1>5 DEF MirrorOutcome
    <3>3. QED
      BY <1>1, <3>1, <3>2, CountedTyped
  <2>4. StoresTypeOK'
    BY <1>1, <1>5, <2>2, <2>3 DEF MirrorOutcome, StoresTypeOK, postgresVars,
       redisVars, requestVars, ghostVars
  <2>5. QED
    BY <2>1, <2>4 DEF TypeInv
<1>6. QED
  BY <1>4, <1>5

LEMMA ExpiryTyped ==
  ASSUME TypeInv, NEW r \in Runs, NEW a \in sandboxes[r], SandboxExpires(r, a)
  PROVE  TypeInv'
  BY DEF TypeInv, StoresTypeOK, Executing, SandboxExpires, postgresVars,
     mirrorVars, redisVars, requestVars, ghostVars

LEMMA TypeStep == TypeInv /\ [Next]_vars => TypeInv'
<1> SUFFICES ASSUME TypeInv, [Next]_vars PROVE TypeInv'
  OBVIOUS
<1>1. ASSUME NEW w \in Workers, ExecStep(w)
      PROVE  TypeInv'
  BY <1>1, SilentStepTyped, CreateSandboxTyped, SandboxStepTyped,
     FinallyStepTyped, InsertStepTyped, MirrorStepTyped, CallModelTyped,
     OutcomeStepTyped, QueueTyped
  DEF ExecStep
<1>2. ASSUME NEW w \in Workers, WorkerCrash(w) \/ \E r \in Runs : TakeJob(w, r)
      PROVE  TypeInv'
  BY <1>2, QueueTyped
<1>3. ASSUME NEW r \in Runs,
             \/ CreateRun(r) \/ CreateStep(r) \/ ApiCrash(r)
             \/ ReadForCancel(r) \/ CancelStep(r) \/ KeyExpires(r)
             \/ RecoverJob(r) \/ LoseLock(r)
             \/ \E a \in sandboxes[r] : SandboxExpires(r, a)
      PROVE  TypeInv'
  BY <1>3, CreateTyped, CancelTyped, QueueTyped, ExpiryTyped
<1>4. CASE UNCHANGED vars
  BY <1>4, StoresUnchanged DEF TypeInv, Executing, vars
<1>5. QED
  BY <1>1, <1>2, <1>3, <1>4 DEF Next

LEMMA TypeInit == Init => TypeInv
<1> SUFFICES ASSUME Init PROVE TypeInv
  OBVIOUS
<1>1. StoresTypeOK
  <2>1. NoDocument \in Documents
    BY DEF NoDocument, Documents, Statuses
  <2>2. spent \in Budgets /\ history \in [Runs -> Histories] /\ job \in [Runs -> Jobs]
    BY DEF Init, Budgets, Histories, Jobs
  <2>3. \A r \in Runs : IsFiniteSet(DOMAIN steps[r])
    BY FS_EmptySet DEF Init
  <2>4. QED
    BY <2>1, <2>2, <2>3 DEF Init, StoresTypeOK, Statuses, CreateStages, CancelStages
<1>2. Executing
  BY IdleWellFormed DEF Init, Executing, WellFormed
<1>3. QED
  BY <1>1, <1>2 DEF TypeInv

LEMMA TypeInvariant == Spec => []TypeInv
  BY TypeInit, TypeStep, PTL DEF Spec

\* Every variable keeps its type, for any number of runs, workers, faults and
\* crashes.
THEOREM TypeCorrect == Spec => []TypeOK
<1>1. TypeInv => TypeOK
  BY DEF TypeInv, TypeOK, Executing
<1>2. QED
  BY <1>1, TypeInvariant, PTL

-----------------------------------------------------------------------------
(* The transcript.  Its parts, for one run: the rows have no gap, every    *)
(* TOOL_RESULT follows its TOOL_CALL, and a mirrored step is a row.  They  *)
(* are inductive with what an execution knows about the rows once it has   *)
(* counted them: those below its index are there, whoever wrote them, and  *)
(* the one it wrote last is still what it wrote.                           *)

Contiguous(rows) == \E n \in Nat : DOMAIN rows = 0..(n - 1)

Paired(rows) ==
  \A i \in DOMAIN rows :
    rows[i] = "TOOL_RESULT" =>
      i > 0 /\ i - 1 \in DOMAIN rows /\ rows[i - 1] = "TOOL_CALL"

Mirrored(documents, rows) ==
  \A i \in DOMAIN documents : i \in DOMAIN rows /\ documents[i] = rows[i]

Counting == {"checkCancel", "callModel"} \cup Recording

Placed(e, rows) ==
  /\ e.pc \in Counting => 0..(e.index - 1) \subseteq DOMAIN rows
  /\ e.pc \in Recording \ {"insertStep"} => e.index > 0 /\ rows[e.index - 1] = e.step
  /\ e.pc = "insertStep" /\ e.step = "TOOL_RESULT" =>
       e.index > 0 /\ rows[e.index - 1] = "TOOL_CALL"

TranscriptInv ==
  /\ \A r \in Runs : /\ Contiguous(steps[r])
                    /\ Paired(steps[r])
                    /\ Mirrored(mirrorSteps[r], steps[r])
  /\ \A w \in Workers : Placed(exec[w], steps[exec[w].run])

\* Outside the loop an execution knows nothing of the rows.
LEMMA OutsidePlaced ==
  ASSUME NEW e, NEW rows, e.pc \notin Counting
  PROVE  Placed(e, rows)
  BY DEF Placed, Counting, Recording

LEMMA ThrownPlaced ==
  ASSUME NEW e, Busy(e), e.pc # "idle", NEW rows
  PROVE  Placed(Thrown(e), rows)
<1>1. Thrown(e).pc \notin Counting
  BY DEF Busy, Thrown, Caught, Unwound, Executions, ExecStages, TryBody,
     Finishing, Finally, Counting, Recording
<1>2. QED
  BY <1>1, OutsidePlaced

LEMMA ProceedPlaced ==
  ASSUME NEW e, Busy(e), e.pc \in {"callModel", "emitStep"}, NEW rows,
         0..(e.index - 1) \subseteq DOMAIN rows
  PROVE  Placed(Proceed(e), rows)
<1>1. ASSUME NEW type \in {"ASSISTANT", "TOOL_CALL"}
      PROVE  Placed([e EXCEPT !.pc = "insertStep", !.step = type], rows)
  <2> DEFINE f == [e EXCEPT !.pc = "insertStep", !.step = type]
  <2>1. f.pc = "insertStep" /\ f.step = type /\ f.index = e.index
    BY DEF Busy, Executions
  <2> HIDE DEF f
  <2>2. Placed(f, rows)
    BY <2>1 DEF Placed, Counting, Recording
  <2>3. QED
    BY <2>2 DEF f
<1>2. Placed([e EXCEPT !.pc = "checkCancel", !.iteration = @ + 1], rows)
  <2> DEFINE f == [e EXCEPT !.pc = "checkCancel", !.iteration = @ + 1]
  <2>1. f.pc = "checkCancel" /\ f.index = e.index
    BY DEF Busy, Executions
  <2> HIDE DEF f
  <2>2. Placed(f, rows)
    BY <2>1 DEF Placed, Counting, Recording
  <2>3. QED
    BY <2>2 DEF f
<1>3. Placed([e EXCEPT !.pc = "saveOutcome"], rows)
  BY OutsidePlaced DEF Busy, Executions, Counting, Recording
<1>4. Placed(Thrown(e), rows)
  BY ThrownPlaced
<1>5. QED
  BY <1>1, <1>2, <1>3, <1>4, ProceedCases

\* A step that leaves both transcripts alone.
LEMMA MovePlaced ==
  ASSUME TypeInv, TranscriptInv, NEW w \in Workers, NEW next,
         Placed(next, steps[next.run]), exec' = [exec EXCEPT ![w] = next],
         UNCHANGED <<steps, mirrorSteps>>
  PROVE  TranscriptInv'
<1>1. exec \in [Workers -> Executions]
  BY DEF TypeInv, Executing
<1>2. \A v \in Workers : Placed(exec[v], steps[exec[v].run])'
  <2>1. ASSUME NEW v \in Workers
        PROVE  Placed(exec'[v], steps[exec'[v].run])
    <3>1. CASE v = w
      BY <1>1, <3>1
    <3>2. CASE v # w
      BY <1>1, <3>2 DEF TranscriptInv
    <3>3. QED
      BY <3>1, <3>2
  <2>2. QED
    BY <2>1 DEF Placed
<1>3. QED
  BY <1>2 DEF TranscriptInv, Contiguous, Paired, Mirrored

LEMMA ThrowPlaced ==
  ASSUME TypeInv, TranscriptInv, NEW w \in Workers, exec[w].pc # "idle", Throw(w),
         UNCHANGED <<steps, mirrorSteps>>
  PROVE  TranscriptInv'
<1>1. Busy(exec[w])
  BY DEF TypeInv, Executing, WellFormed, Busy
<1>2. Placed(Thrown(exec[w]), steps[Thrown(exec[w]).run])
  BY <1>1, ThrownPlaced
<1>3. QED
  BY <1>2, MovePlaced DEF Throw

LEMMA AnsweredPlaced ==
  ASSUME TypeInv, TranscriptInv, NEW w \in Workers, exec[w].pc # "idle",
         NEW next, Placed(next, steps[next.run]), Answered(w, next),
         UNCHANGED <<steps, mirrorSteps>>
  PROVE  TranscriptInv'
  BY ThrowPlaced, MovePlaced DEF Answered, CallThrows

LEMMA GotoPlaced ==
  ASSUME TypeInv, TranscriptInv, NEW w \in Workers, exec[w].pc # "idle",
         NEW stage, stage \notin Counting, Goto(w, stage),
         UNCHANGED <<steps, mirrorSteps>>
  PROVE  TranscriptInv'
<1> DEFINE f == [exec[w] EXCEPT !.pc = stage]
<1>1. f.pc = stage
  BY DEF TypeInv, Executing, WellFormed, Executions
<1>2. Answered(w, f)
  BY DEF Goto
<1> HIDE DEF f
<1>3. Placed(f, steps[f.run])
  BY <1>1, OutsidePlaced
<1>4. QED
  BY <1>2, <1>3, AnsweredPlaced

\* The executor's steps that stay outside the loop or leave it.
LEMMA OutsideStepPlaced ==
  ASSUME TypeInv, TranscriptInv, NEW w \in Workers,
         \/ CallFails(w) \/ FindRun(w) \/ CreateSandbox(w) \/ SaveSandbox(w)
         \/ MirrorSandbox(w) \/ EmitStarted(w) \/ SaveOutcome(w)
         \/ MirrorOutcome(w) \/ EmitOutcome(w) \/ KillSandbox(w)
         \/ EndStream(w) \/ ClearCancel(w)
  PROVE  TranscriptInv'
<1> DEFINE e == exec[w]
<1>1. UNCHANGED <<steps, mirrorSteps>>
  BY DEF CallFails, FindRun, CreateSandbox, SaveSandbox, MirrorSandbox,
     EmitStarted, SaveOutcome, MirrorOutcome, EmitOutcome, KillSandbox, EndStream,
     ClearCancel, storeVars, postgresVars, mirrorVars
<1>2. e \in Executions
  BY DEF TypeInv, Executing
<1>3. Counting \cap {"createSandbox", "settleJob", "mirrorSandbox", "emitStarted",
                    "countSteps", "mirrorOutcome", "emitOutcome", "killSandbox",
                    "endStream", "clearCancel"} = {}
  BY DEF Counting, Recording
<1>4. CASE CallFails(w)
  BY <1>1, <1>4, ThrowPlaced DEF CallFails, CallThrows, ServiceOf
<1>5. CASE FindRun(w)
  BY <1>1, <1>3, <1>5, GotoPlaced DEF FindRun
<1>6. CASE CreateSandbox(w)
  <2> DEFINE f == [e EXCEPT !.pc = "saveSandbox", !.sandbox = TRUE]
  <2>1. e.pc = "createSandbox" /\ Answered(w, f)
    BY <1>6 DEF CreateSandbox
  <2>2. f.pc = "saveSandbox"
    BY <1>2 DEF Executions
  <2> HIDE DEF f
  <2>3. Placed(f, steps[f.run])
    BY <2>2, OutsidePlaced DEF Counting, Recording
  <2>4. QED
    BY <1>1, <2>1, <2>3, AnsweredPlaced
<1>7. CASE SaveSandbox(w) \/ MirrorSandbox(w) \/ EmitStarted(w)
  BY <1>1, <1>3, <1>7, GotoPlaced DEF SaveSandbox, MirrorSandbox, EmitStarted
<1>8. CASE SaveOutcome(w) \/ EmitOutcome(w)
  BY <1>1, <1>3, <1>8, GotoPlaced DEF SaveOutcome, EmitOutcome
<1>9. CASE MirrorOutcome(w)
  <2>1. e.pc = "mirrorOutcome"
    BY <1>9 DEF MirrorOutcome
  <2>2. [e EXCEPT !.pc = "emitOutcome"].pc \notin Counting
    BY <1>2, <1>3 DEF Executions
  <2>3. Throw(w) \/ exec' = [exec EXCEPT ![w] = [e EXCEPT !.pc = "emitOutcome"]]
    BY <1>9 DEF MirrorOutcome, CallThrows
  <2>4. QED
    BY <1>1, <2>1, <2>2, <2>3, OutsidePlaced, MovePlaced, ThrowPlaced
<1>10. CASE KillSandbox(w) \/ EndStream(w) \/ ClearCancel(w)
  BY <1>1, <1>3, <1>10, GotoPlaced DEF KillSandbox, EndStream, ClearCancel
<1>11. QED
  BY <1>4, <1>5, <1>6, <1>7, <1>8, <1>9, <1>10

LEMMA CountStepsPlaced ==
  ASSUME TypeInv, TranscriptInv, NEW w \in Workers, CountSteps(w)
  PROVE  TranscriptInv'
<1> DEFINE e == exec[w]
           f(k) == [e EXCEPT !.pc = "checkCancel", !.index = k]
<1>1. /\ e \in Executions /\ e.run \in Runs /\ e.pc = "countSteps"
      /\ UNCHANGED <<steps, mirrorSteps>>
  BY DEF TypeInv, Executing, WellFormed, CountSteps, storeVars, postgresVars,
     mirrorVars
<1>2. PICK n \in Nat : DOMAIN steps[e.run] = 0..(n - 1)
  BY <1>1 DEF TranscriptInv, Contiguous
<1>3. Cardinality(DOMAIN steps[e.run]) = n
  BY <1>2, FS_Interval
<1>4. Answered(w, f(n))
  BY <1>3 DEF CountSteps
<1>5. f(n).pc = "checkCancel" /\ f(n).index = n /\ f(n).run = e.run
  BY <1>1 DEF Executions
<1> HIDE DEF f
<1>6. Placed(f(n), steps[f(n).run])
  BY <1>2, <1>5 DEF Placed, Counting, Recording
<1>7. QED
  BY <1>1, <1>4, <1>6, AnsweredPlaced

LEMMA LoopStepPlaced ==
  ASSUME TypeInv, TranscriptInv, NEW w \in Workers,
         CheckCancel(w) \/ CallModel(w) \/ EmitStep(w) \/ RunTool(w)
  PROVE  TranscriptInv'
<1> DEFINE e == exec[w]
           rows == steps[e.run]
<1>1. /\ WellFormed(e) /\ e \in Executions /\ e.run \in Runs /\ Busy(e)
      /\ e.pc \in {"checkCancel", "callModel", "emitStep", "runTool"}
      /\ Placed(e, rows) /\ 0..(e.index - 1) \subseteq DOMAIN rows
      /\ UNCHANGED <<steps, mirrorSteps>>
  BY DEF TypeInv, Executing, WellFormed, Busy, TranscriptInv, Placed, Counting,
     Recording, CheckCancel, CallModel, EmitStep, RunTool, storeVars,
     postgresVars, mirrorVars
<1>2. CASE CheckCancel(w)
  <2>1. Placed(Cancelled(e), rows) /\ Cancelled(e).run = e.run
    <3>1. Cancelled(e).pc = "saveOutcome" /\ Cancelled(e).run = e.run
      BY <1>1 DEF Cancelled, Executions
    <3>2. QED
      BY <3>1, OutsidePlaced DEF Counting, Recording
  <2> DEFINE f == [e EXCEPT !.pc = "callModel"]
  <2>2. f.pc = "callModel" /\ f.index = e.index /\ f.run = e.run
    BY <1>1 DEF Executions
  <2>3. Answered(w, Cancelled(e)) \/ Answered(w, f)
    BY <1>2 DEF CheckCancel
  <2> HIDE DEF f
  <2>4. Placed(f, rows)
    BY <1>1, <2>2 DEF Placed, Counting, Recording
  <2>5. QED
    BY <1>1, <2>1, <2>2, <2>3, <2>4, AnsweredPlaced
<1>3. ASSUME NEW f, Busy(f), f.run = e.run, f.index = e.index,
             f.pc \in {"callModel", "emitStep"}, Answered(w, Proceed(f))
      PROVE  TranscriptInv'
  <2>1. Placed(Proceed(f), rows)
    BY <1>1, <1>3, ProceedPlaced
  <2>2. Proceed(f).run = e.run
    BY <1>3, ProceedCases DEF Busy, Executions, Thrown
  <2>3. QED
    BY <1>1, <1>3, <2>1, <2>2, AnsweredPlaced
<1>4. CASE CallModel(w)
  <2> DEFINE f(x, t, o) == [e EXCEPT !.texts = x, !.tools = t, !.outcome = o]
  <2>1. PICK n \in Nat, m \in Nat, o \in Terminal \cup {"none"} :
          Answered(w, Proceed(f(n, m, o)))
    BY <1>4, CallModelAnswered, <1>1
  <2>2. /\ Busy(f(n, m, o)) /\ f(n, m, o).pc = e.pc /\ e.pc = "callModel"
        /\ f(n, m, o).run = e.run /\ f(n, m, o).index = e.index
    BY <1>1, <1>4 DEF Busy, Executions, CallModel
  <2> HIDE DEF f
  <2>3. QED
    BY <1>3, <2>1, <2>2
<1>5. CASE EmitStep(w)
  <2>1. e.pc = "emitStep" /\ e.step \in StepTypes
    BY <1>1, <1>5 DEF EmitStep, Executions
  <2>2. CASE e.step = "ASSISTANT"
    <3> DEFINE f == [e EXCEPT !.texts = @ - 1]
    <3>1. Busy(f) /\ f.pc = "emitStep" /\ f.run = e.run /\ f.index = e.index
      BY <1>1, <2>1, <2>2 DEF WellFormed, Recording, Busy, Executions
    <3>2. Answered(w, Proceed(f))
      BY <1>5, <2>2 DEF EmitStep
    <3> HIDE DEF f
    <3>3. QED
      BY <1>3, <3>1, <3>2
  <2>3. CASE e.step = "TOOL_CALL"
    <3>1. /\ Placed([e EXCEPT !.pc = "runTool"], rows)
          /\ [e EXCEPT !.pc = "runTool"].run = e.run
      BY <1>1, <2>1, <2>3 DEF Placed, Executions, Counting, Recording
    <3>2. QED
      BY <1>1, <1>5, <2>3, <3>1, AnsweredPlaced DEF EmitStep
  <2>4. CASE e.step = "TOOL_RESULT"
    <3> DEFINE f == [e EXCEPT !.tools = @ - 1]
    <3>1. Busy(f) /\ f.pc = "emitStep" /\ f.run = e.run /\ f.index = e.index
      BY <1>1, <2>1, <2>4 DEF WellFormed, Recording, Busy, Executions
    <3>2. Answered(w, Proceed(f))
      BY <1>5, <2>4 DEF EmitStep
    <3> HIDE DEF f
    <3>3. QED
      BY <1>3, <3>1, <3>2
  <2>5. QED
    BY <2>1, <2>2, <2>3, <2>4 DEF StepTypes
<1>6. CASE RunTool(w)
  <2> DEFINE f == [e EXCEPT !.pc = "insertStep", !.step = "TOOL_RESULT"]
  <2>1. f.pc = "insertStep" /\ f.step = "TOOL_RESULT" /\ f.run = e.run
        /\ f.index = e.index
    BY <1>1 DEF Executions
  <2>2. e.pc = "runTool" /\ e.step = "TOOL_CALL"
    BY <1>1, <1>6 DEF RunTool, WellFormed
  <2>3. exec' = [exec EXCEPT ![w] = f] \/ Throw(w)
    BY <1>6 DEF RunTool
  <2> HIDE DEF f
  <2>4. Placed(f, steps[f.run])
    BY <1>1, <2>1, <2>2 DEF Placed, Counting, Recording
  <2>5. QED
    BY <1>1, <2>2, <2>3, <2>4, MovePlaced, ThrowPlaced
<1>7. QED
  BY <1>2, <1>4, <1>5, <1>6

-----------------------------------------------------------------------------
(* The steps that write.                                                   *)

\* A row added after the last one.
LEMMA AppendedRow ==
  ASSUME NEW n \in Nat, NEW rows, DOMAIN rows = 0..(n - 1), Paired(rows), NEW type,
         type = "TOOL_RESULT" => n > 0 /\ rows[n - 1] = "TOOL_CALL"
  PROVE  Contiguous(WithStep(rows, n, type)) /\ Paired(WithStep(rows, n, type))
<1> DEFINE more == WithStep(rows, n, type)
<1>1. DOMAIN more = 0..n /\ more[n] = type /\ \A i \in 0..(n - 1) : more[i] = rows[i]
  BY DEF WithStep
<1> HIDE DEF more
<1>2. n + 1 \in Nat /\ DOMAIN more = 0..((n + 1) - 1)
  BY <1>1
<1>3. Contiguous(more)
  BY <1>2 DEF Contiguous
<1>4. ASSUME NEW i \in DOMAIN more, more[i] = "TOOL_RESULT"
      PROVE  i > 0 /\ i - 1 \in DOMAIN more /\ more[i - 1] = "TOOL_CALL"
  <2>1. CASE i = n
    BY <1>1, <1>4, <2>1
  <2>2. CASE i # n
    <3>1. i \in DOMAIN rows /\ rows[i] = "TOOL_RESULT"
      BY <1>1, <1>4, <2>2
    <3>2. i > 0 /\ i - 1 \in DOMAIN rows /\ rows[i - 1] = "TOOL_CALL"
      BY <3>1 DEF Paired
    <3>3. QED
      BY <1>1, <3>2
  <2>3. QED
    BY <2>1, <2>2
<1>5. Paired(more)
  BY <1>4 DEF Paired
<1>6. QED
  BY <1>3, <1>5 DEF more

\* A new row disturbs neither the documents nor what an execution knows.
LEMMA AddedRow ==
  ASSUME NEW rows, NEW i, i \notin DOMAIN rows, NEW type
  PROVE  /\ \A documents : Mirrored(documents, rows) =>
               Mirrored(documents, WithStep(rows, i, type))
         /\ \A e \in Executions : Placed(e, rows) =>
               Placed(e, WithStep(rows, i, type))
<1> DEFINE more == WithStep(rows, i, type)
<1>1. \A j \in DOMAIN rows : j \in DOMAIN more /\ more[j] = rows[j]
  BY DEF WithStep
<1> HIDE DEF more
<1>2. ASSUME NEW documents, Mirrored(documents, rows)
      PROVE  Mirrored(documents, more)
  BY <1>1, <1>2 DEF Mirrored
<1>3. ASSUME NEW e \in Executions, Placed(e, rows)
      PROVE  Placed(e, more)
  <2>1. CASE e.pc \notin Counting
    BY <2>1, OutsidePlaced
  <2>2. CASE e.pc \in Counting
    <3>1. e.index \in Nat /\ 0..(e.index - 1) \subseteq DOMAIN rows
      BY <1>3, <2>2 DEF Placed, Executions
    <3>2. 0..(e.index - 1) \subseteq DOMAIN more
      BY <1>1, <3>1
    <3>3. e.index > 0 => more[e.index - 1] = rows[e.index - 1]
      BY <1>1, <3>1
    <3>4. QED
      BY <1>3, <3>2, <3>3 DEF Placed
  <2>3. QED
    BY <2>1, <2>2
<1>4. QED
  BY <1>2, <1>3 DEF more

LEMMA InsertStepPlaced ==
  ASSUME TypeInv, TranscriptInv, NEW w \in Workers, InsertStep(w)
  PROVE  TranscriptInv'
<1> DEFINE e == exec[w]
           r == e.run
           rows == steps[r]
           more == WithStep(rows, e.index, e.step)
           f(k) == [e EXCEPT !.pc = "mirrorStep", !.index = k]
<1>1. /\ e \in Executions /\ r \in Runs /\ e.pc = "insertStep" /\ e.index \in Nat
      /\ Busy(e) /\ exec \in [Workers -> Executions] /\ DOMAIN steps = Runs
      /\ Placed(e, rows) /\ UNCHANGED mirrorSteps
  BY DEF TypeInv, StoresTypeOK, Executing, WellFormed, Busy, Executions,
     TranscriptInv, InsertStep, mirrorVars
<1>2. CASE e.index \in DOMAIN rows
  <2>1. Throw(w) /\ UNCHANGED <<steps, mirrorSteps>>
    BY <1>1, <1>2 DEF InsertStep
  <2>2. QED
    BY <1>1, <2>1, ThrowPlaced
<1>3. CASE e.index \notin DOMAIN rows
  <2>1. PICK n \in Nat : DOMAIN rows = 0..(n - 1)
    BY <1>1 DEF TranscriptInv, Contiguous
  <2>2. 0..(e.index - 1) \subseteq 0..(n - 1) /\ e.index \notin 0..(n - 1)
    BY <1>1, <1>3, <2>1 DEF Placed, Counting, Recording
  <2>3. e.index = n
    <3>1. e.index >= n
      BY <1>1, <2>2
    <3>2. e.index > n => n \in 0..(e.index - 1)
      BY <1>1
    <3>3. QED
      BY <1>1, <2>2, <3>1, <3>2
  <2>4. e.step = "TOOL_RESULT" => n > 0 /\ rows[n - 1] = "TOOL_CALL"
    BY <1>1, <2>3 DEF Placed
  <2>5. Contiguous(more) /\ Paired(more)
    BY <1>1, <2>1, <2>3, <2>4, AppendedRow DEF TranscriptInv
  <2>6. steps' = [steps EXCEPT ![r] = more] /\ Answered(w, f(e.index + 1))
    BY <1>3 DEF InsertStep
  <2>7. more[n] = e.step /\ DOMAIN more = 0..n
    BY <2>1, <2>3 DEF WithStep
  <2>8. f(n + 1).pc = "mirrorStep" /\ f(n + 1).index = n + 1
        /\ f(n + 1).step = e.step /\ f(n + 1).run = r
    <3>1. ASSUME NEW k \in Nat
          PROVE  f(k).pc = "mirrorStep" /\ f(k).index = k
                 /\ f(k).step = e.step /\ f(k).run = r
      BY <1>1 DEF Executions
    <3> HIDE DEF f
    <3>2. QED
      BY <3>1
  <2> HIDE DEF more, f
  <2>9. Placed(f(n + 1), more)
    BY <2>7, <2>8 DEF Placed, Counting, Recording
  <2>10. Placed(Thrown(e), more)
    BY <1>1, ThrownPlaced
  <2>11. PICK next : /\ exec' = [exec EXCEPT ![w] = next]
                     /\ Placed(next, more) /\ next.run = r
    <3>1. Thrown(e).run = r
      BY <1>1 DEF Thrown, Executions
    <3>2. exec' = [exec EXCEPT ![w] = f(n + 1)] \/ exec' = [exec EXCEPT ![w] = Thrown(e)]
      BY <2>3, <2>6 DEF Answered, CallThrows, Throw
    <3>3. QED
      BY <2>8, <2>9, <2>10, <3>1, <3>2
  <2>12. ASSUME NEW q \in Runs
         PROVE  /\ Contiguous(steps'[q]) /\ Paired(steps'[q])
                /\ Mirrored(mirrorSteps'[q], steps'[q])
    <3>1. Mirrored(mirrorSteps[q], steps[q]) /\ Contiguous(steps[q]) /\ Paired(steps[q])
      BY DEF TranscriptInv
    <3>2. CASE q = r
      BY <1>1, <1>3, <2>5, <2>6, <3>1, <3>2, AddedRow DEF more
    <3>3. CASE q # r
      BY <1>1, <2>6, <3>1, <3>3
    <3>4. QED
      BY <3>2, <3>3
  <2>13. ASSUME NEW v \in Workers
         PROVE  Placed(exec'[v], steps'[exec'[v].run])
    <3>1. CASE v = w
      BY <1>1, <2>6, <2>11, <3>1
    <3>2. CASE v # w
      <4>1. exec'[v] = exec[v] /\ exec[v] \in Executions
            /\ Placed(exec[v], steps[exec[v].run])
        BY <1>1, <2>11, <3>2 DEF TranscriptInv
      <4>2. CASE exec[v].run = r
        BY <1>1, <1>3, <2>6, <4>1, <4>2, AddedRow DEF more
      <4>3. CASE exec[v].run # r
        <5>1. steps'[exec[v].run] = steps[exec[v].run] \/ exec[v].pc = "idle"
          BY <1>1, <2>6, <4>1, <4>3 DEF TypeInv, Executing, WellFormed
        <5>2. QED
          BY <4>1, <5>1, OutsidePlaced DEF Counting, Recording
      <4>4. QED
        BY <4>2, <4>3
    <3>3. QED
      BY <3>1, <3>2
  <2>14. QED
    BY <2>12, <2>13 DEF TranscriptInv, Contiguous, Paired, Mirrored, Placed
<1>4. QED
  BY <1>2, <1>3

LEMMA MirrorStepPlaced ==
  ASSUME TypeInv, TranscriptInv, NEW w \in Workers, MirrorStep(w)
  PROVE  TranscriptInv'
<1> DEFINE e == exec[w]
           r == e.run
           i == e.index - 1
           f == [e EXCEPT !.pc = "emitStep"]
<1>1. /\ e \in Executions /\ r \in Runs /\ e.pc = "mirrorStep" /\ e.index \in Nat
      /\ exec \in [Workers -> Executions] /\ DOMAIN mirrorSteps = Runs
      /\ Placed(e, steps[r]) /\ UNCHANGED steps
  BY DEF TypeInv, StoresTypeOK, Executing, WellFormed, Executions,
     TranscriptInv, MirrorStep, postgresVars
<1>2. e.index > 0 /\ i \in DOMAIN steps[r] /\ steps[r][i] = e.step
  BY <1>1 DEF Placed, Counting, Recording
<1>3. CASE i \in DOMAIN mirrorSteps[r]
  <2>1. Throw(w) /\ UNCHANGED <<steps, mirrorSteps>>
    BY <1>1, <1>3 DEF MirrorStep
  <2>2. QED
    BY <1>1, <2>1, ThrowPlaced
<1>4. CASE i \notin DOMAIN mirrorSteps[r]
  <2>1. mirrorSteps' = [mirrorSteps EXCEPT ![r] = WithStep(mirrorSteps[r], i, e.step)]
        /\ Answered(w, f)
    BY <1>4 DEF MirrorStep, Goto
  <2>2. /\ f.pc = "emitStep" /\ f.index = e.index /\ f.run = r
        /\ f.step = e.step
    BY <1>1 DEF Executions
  <2> HIDE DEF f
  <2>3. Placed(f, steps[r])
    BY <1>1, <2>2 DEF Placed, Counting, Recording
  <2>4. Placed(Thrown(e), steps[r]) /\ Thrown(e).run = r
    BY <1>1, ThrownPlaced DEF Busy, Thrown, Executions
  <2>5. PICK next : /\ exec' = [exec EXCEPT ![w] = next]
                    /\ Placed(next, steps[r]) /\ next.run = r
    BY <2>1, <2>2, <2>3, <2>4 DEF Answered, CallThrows, Throw
  <2>6. ASSUME NEW v \in Workers
        PROVE  Placed(exec'[v], steps'[exec'[v].run])
    BY <1>1, <2>5 DEF TranscriptInv
  <2> HIDE DEF i
  <2>7. ASSUME NEW q \in Runs
        PROVE  Mirrored(mirrorSteps'[q], steps'[q])
    <3>1. Mirrored(mirrorSteps[q], steps[q])
      BY DEF TranscriptInv
    <3>2. CASE q = r
      BY <1>1, <1>2, <2>1, <3>1, <3>2 DEF Mirrored, WithStep
    <3>3. CASE q # r
      BY <1>1, <2>1, <3>1, <3>3
    <3>4. QED
      BY <3>2, <3>3
  <2>8. QED
    BY <1>1, <2>6, <2>7 DEF TranscriptInv, Contiguous, Paired, Mirrored, Placed
<1>5. QED
  BY <1>3, <1>4

-----------------------------------------------------------------------------
(* The steps that neither write a transcript nor go on with an execution.  *)

LEMMA TranscriptUnchanged ==
  ASSUME TranscriptInv, UNCHANGED <<steps, mirrorSteps, exec>>
  PROVE  TranscriptInv'
  BY DEF TranscriptInv, Contiguous, Paired, Mirrored, Placed

LEMMA QueuePlaced ==
  ASSUME TypeInv, TranscriptInv, NEW w \in Workers,
         SettleJob(w) \/ WorkerCrash(w) \/ \E r \in Runs : TakeJob(w, r)
  PROVE  TranscriptInv'
<1>1. UNCHANGED <<steps, mirrorSteps>>
  BY DEF SettleJob, WorkerCrash, TakeJob, postgresVars, mirrorVars
<1>2. PICK next : exec' = [exec EXCEPT ![w] = next] /\ next.pc \in {"idle", "findRun"}
  <2>1. CASE SettleJob(w) \/ WorkerCrash(w)
    <3>1. exec' = [exec EXCEPT ![w] = Idle]
      BY <2>1 DEF SettleJob, WorkerCrash
    <3>2. Idle.pc = "idle"
      BY DEF Idle
    <3>3. QED
      BY <3>1, <3>2
  <2>2. ASSUME NEW r \in Runs, TakeJob(w, r)
        PROVE  \E next : /\ exec' = [exec EXCEPT ![w] = next]
                         /\ next.pc \in {"idle", "findRun"}
    <3> DEFINE f(n) == [Idle EXCEPT !.pc = "findRun", !.run = r, !.attempt = n]
    <3>1. exec' = [exec EXCEPT ![w] = f(job[r].attempt + 1)]
      BY <2>2 DEF TakeJob
    <3>2. \A n : f(n).pc = "findRun"
      BY DEF Idle
    <3> HIDE DEF f
    <3>3. QED
      BY <3>1, <3>2
  <2>3. QED
    BY <2>1, <2>2, Zenon
<1>3. Placed(next, steps[next.run])
  BY <1>2, OutsidePlaced DEF Counting, Recording
<1>4. QED
  BY <1>1, <1>2, <1>3, MovePlaced

LEMMA TranscriptStep == TypeInv /\ TranscriptInv /\ [Next]_vars => TranscriptInv'
<1> SUFFICES ASSUME TypeInv, TranscriptInv, [Next]_vars PROVE TranscriptInv'
  OBVIOUS
<1>1. ASSUME NEW w \in Workers, ExecStep(w)
      PROVE  TranscriptInv'
  BY <1>1, OutsideStepPlaced, CountStepsPlaced, LoopStepPlaced, InsertStepPlaced,
     MirrorStepPlaced, QueuePlaced
  DEF ExecStep
<1>2. ASSUME NEW w \in Workers, WorkerCrash(w) \/ \E r \in Runs : TakeJob(w, r)
      PROVE  TranscriptInv'
  BY <1>2, QueuePlaced
<1>3. ASSUME NEW r \in Runs,
             \/ CreateRun(r) \/ CreateStep(r) \/ ApiCrash(r)
             \/ ReadForCancel(r) \/ CancelStep(r) \/ KeyExpires(r)
             \/ RecoverJob(r) \/ LoseLock(r)
             \/ \E a \in sandboxes[r] : SandboxExpires(r, a)
      PROVE  TranscriptInv'
  <2>1. UNCHANGED <<steps, mirrorSteps, exec>>
    <3>1. CASE CreateRun(r) \/ CreateStep(r) \/ ApiCrash(r)
      BY <3>1 DEF CreateRun, CreateStep, SetRun, AuditCreated, Enqueue, FailRow,
         FailDocument, CreateThrow, ApiCrash, postgresVars, mirrorVars
    <3>2. CASE ReadForCancel(r) \/ CancelStep(r) \/ KeyExpires(r)
      BY <3>2 DEF ReadForCancel, CancelStep, SetCancelKey, AuditCancel,
         CancelThrow, KeyExpires, postgresVars, mirrorVars
    <3>3. CASE \/ RecoverJob(r) \/ LoseLock(r)
               \/ \E a \in sandboxes[r] : SandboxExpires(r, a)
      BY <3>3 DEF RecoverJob, LoseLock, SandboxExpires, postgresVars, mirrorVars
    <3>4. QED
      BY <1>3, <3>1, <3>2, <3>3
  <2>2. QED
    BY <2>1, TranscriptUnchanged
<1>4. CASE UNCHANGED vars
  BY <1>4, TranscriptUnchanged DEF vars, storeVars, postgresVars, mirrorVars
<1>5. QED
  BY <1>1, <1>2, <1>3, <1>4 DEF Next

LEMMA TranscriptInit == Init => TranscriptInv
<1> SUFFICES ASSUME Init PROVE TranscriptInv
  OBVIOUS
<1>1. \A r \in Runs : DOMAIN steps[r] = {} /\ DOMAIN mirrorSteps[r] = {}
  BY DEF Init
<1>2. {} = 0..(0 - 1) /\ 0 \in Nat
  OBVIOUS
<1>3. \A r \in Runs : Contiguous(steps[r])
  BY <1>1, <1>2 DEF Contiguous
<1>4. \A r \in Runs : Paired(steps[r]) /\ Mirrored(mirrorSteps[r], steps[r])
  BY <1>1 DEF Paired, Mirrored
<1>5. \A w \in Workers : exec[w].pc = "idle"
  BY DEF Init, Idle
<1>6. QED
  BY <1>3, <1>4, <1>5, OutsidePlaced DEF TranscriptInv, Counting, Recording

LEMMA TranscriptInvariant == Spec => []TranscriptInv
  BY TypeInvariant, TranscriptInit, TranscriptStep, PTL DEF Spec

\* The rows of a run have no gap, whatever number of executions wrote them, in
\* whatever order, and wherever each of them stopped.
THEOREM NoGapInSteps == Spec => []StepsContiguous
<1>1. TypeInv /\ TranscriptInv => StepsContiguous
  <2> SUFFICES ASSUME TypeInv, TranscriptInv, NEW r \in Runs,
                      NEW i \in DOMAIN steps[r]
               PROVE  0..i \subseteq DOMAIN steps[r]
    BY DEF StepsContiguous
  <2>1. PICK n \in Nat : DOMAIN steps[r] = 0..(n - 1)
    BY DEF TranscriptInv, Contiguous
  <2>2. QED
    BY <2>1
<1>2. QED
  BY <1>1, TypeInvariant, TranscriptInvariant, PTL

\* Every TOOL_RESULT is the row after a TOOL_CALL: the unique key keeps two
\* executions of one run from writing between each other's rows.
THEOREM ResultsFollowCalls == Spec => []TranscriptPaired
<1>1. TranscriptInv => TranscriptPaired
  BY DEF TranscriptInv, Paired, TranscriptPaired
<1>2. QED
  BY <1>1, TranscriptInvariant, PTL

\* Every mirrored step is a row of the run, with its index and type.
THEOREM MirrorShowsRows == Spec => []MirroredStepsMatch
<1>1. TranscriptInv => MirroredStepsMatch
  BY DEF TranscriptInv, Mirrored, MirroredStepsMatch
<1>2. QED
  BY <1>1, TranscriptInvariant, PTL
=============================================================================
