----------------------- MODULE AgentRunsRecoveryProofs -----------------------
(***************************************************************************)
(* Proofs about AgentRuns that need no lock: they hold for any number of    *)
(* executions of a run at a time, as long as no service fails that the     *)
(* theorem names.  A run is offered only when it is recorded, cancelled only*)
(* when somebody asked for it, keeps its cancellation while it goes on, has *)
(* somebody who will end it, and leaves no sandbox behind.                  *)
(***************************************************************************)
EXTENDS AgentRunsProofs

-----------------------------------------------------------------------------
(* What a step of a worker may do, seen from outside execute.               *)

\* An idle worker has no run, and the outcome of a run that goes on is not yet
\* known or COMPLETED.
Ordinary(e) ==
  /\ e.pc = "idle" => e.run = NoRun
  /\ e.pc \in TryBody \cup {"findRun"} => e.outcome \in {"none", "COMPLETED"}

OrdinaryInv == TypeInv /\ \A w \in Workers : Ordinary(exec[w])

\* Where an execution may be after a step of its try block.
TryTarget(e, f) ==
  /\ f \in Executions
  /\ f.run = e.run /\ f.attempt = e.attempt
  /\ f.pc \in TryBody \cup {"saveOutcome"}
  /\ f.pc \in TryBody => f.outcome \in {"none", "COMPLETED"}
  /\ f.pc = "saveOutcome" => f.outcome \in Terminal
  /\ f.pc = "saveOutcome" /\ f.outcome = "CANCELLED" => e.run \in cancelKeys
  /\ f.pc = "callModel" => e.pc = "checkCancel" /\ e.run \notin cancelKeys
  /\ f.pc = "mirrorStep" => e.pc = "insertStep"
  /\ e.pc # "createSandbox" => f.sandbox = e.sandbox

\* What the steps of the try block leave of the stores.
TryFrame ==
  /\ UNCHANGED <<status, audit, job, cancelKeys, published, counted, requestVars,
                 spent>>
  /\ \A r \in Runs : /\ mirror'[r].created = mirror[r].created
                    /\ mirror'[r].status = mirror[r].status
                    /\ history'[r].cancelled = history[r].cancelled

LEMMA ThrownMoves ==
  ASSUME NEW e, e \in Executions
  PROVE  /\ Thrown(e) \in Executions
         /\ Thrown(e).run = e.run /\ Thrown(e).attempt = e.attempt
         /\ Thrown(e).sandbox = e.sandbox
         /\ Caught(e) => Thrown(e).pc = "saveOutcome" /\ Thrown(e).outcome = "FAILED"
         /\ ~ Caught(e) => Thrown(e).pc = Unwound(e.pc) /\ Thrown(e).outcome = e.outcome
  BY DEF Thrown, Unwound, Executions, ExecStages, TryBody, Finishing, Finally, Terminal

LEMMA ThrownTarget ==
  ASSUME NEW e, e \in Executions, e.pc \in TryBody, e.outcome \in {"none", "COMPLETED"}
  PROVE  TryTarget(e, Thrown(e))
<1>1. Caught(e)
  BY DEF Caught
<1>2. QED
  BY <1>1, ThrownMoves DEF TryTarget, TryBody, Terminal

LEMMA ProceedTarget ==
  ASSUME NEW e, e \in Executions, e.pc \in {"callModel", "emitStep"},
         e.outcome \in {"none", "COMPLETED"}
  PROVE  TryTarget(e, Proceed(e))
<1>1. TryTarget(e, [e EXCEPT !.pc = "insertStep", !.step = "ASSISTANT"])
  BY DEF TryTarget, Executions, ExecStages, TryBody, Terminal, StepTypes
<1>2. TryTarget(e, [e EXCEPT !.pc = "insertStep", !.step = "TOOL_CALL"])
  BY DEF TryTarget, Executions, ExecStages, TryBody, Terminal, StepTypes
<1>3. ASSUME e.outcome = "COMPLETED"
      PROVE  TryTarget(e, [e EXCEPT !.pc = "saveOutcome"])
  BY <1>3 DEF TryTarget, Executions, ExecStages, TryBody, Finishing, Terminal
<1>4. TryTarget(e, [e EXCEPT !.pc = "checkCancel", !.iteration = @ + 1])
  <2> DEFINE f(n) == [e EXCEPT !.pc = "checkCancel", !.iteration = n]
  <2>1. e.iteration + 1 \in Nat
    BY DEF Executions
  <2>2. \A n \in Nat : TryTarget(e, f(n))
    BY DEF TryTarget, Executions, ExecStages, TryBody, Terminal
  <2>3. [e EXCEPT !.pc = "checkCancel", !.iteration = @ + 1] = f(e.iteration + 1)
    BY DEF Executions
  <2> HIDE DEF f
  <2>4. QED
    BY <2>1, <2>2, <2>3
<1>5. TryTarget(e, Thrown(e))
  BY ThrownTarget DEF TryBody
<1>6. QED
  BY <1>1, <1>2, <1>3, <1>4, <1>5, ProceedCases, Zenon

\* A step of the try block of w's execution.
TryMove(w) ==
  \E f : exec' = [exec EXCEPT ![w] = f] /\ TryTarget(exec[w], f)

LEMMA AnsweredTarget ==
  ASSUME OrdinaryInv, NEW w \in Workers, exec[w].pc \in TryBody,
         NEW next, TryTarget(exec[w], next), Answered(w, next)
  PROVE  TryMove(w)
<1>1. TryTarget(exec[w], Thrown(exec[w]))
  BY ThrownTarget DEF OrdinaryInv, Ordinary, TypeInv, Executing
<1>2. QED
  BY <1>1 DEF TryMove, Answered, CallThrows, Throw

LEMMA GotoTarget ==
  ASSUME OrdinaryInv, NEW w \in Workers, exec[w].pc \in TryBody \ {"createSandbox"},
         NEW stage \in TryBody \ {"callModel", "mirrorStep"}, Goto(w, stage)
  PROVE  TryMove(w)
<1>1. exec[w] \in Executions /\ exec[w].outcome \in {"none", "COMPLETED"}
  BY DEF OrdinaryInv, Ordinary, TypeInv, Executing
<1>2. TryTarget(exec[w], [exec[w] EXCEPT !.pc = stage])
  BY <1>1 DEF TryTarget, Executions, ExecStages, TryBody
<1>3. QED
  BY <1>2, AnsweredTarget DEF Goto

LEMMA ThrowTarget ==
  ASSUME OrdinaryInv, NEW w \in Workers, exec[w].pc \in TryBody, Throw(w)
  PROVE  TryMove(w)
  BY ThrownTarget DEF OrdinaryInv, Ordinary, TypeInv, Executing, TryMove, Throw

LEMMA CallModelTarget ==
  ASSUME OrdinaryInv, NEW w \in Workers, CallModel(w)
  PROVE  TryMove(w)
<1> DEFINE e == exec[w]
           g(x, t, o) == [e EXCEPT !.texts = x, !.tools = t, !.outcome = o]
<1>1. e \in Executions /\ e.pc = "callModel" /\ e.pc \in TryBody
      /\ e.outcome \in {"none", "COMPLETED"}
  BY DEF OrdinaryInv, Ordinary, TypeInv, Executing, CallModel, TryBody
<1>2. PICK x \in 0..MaxTexts, t \in 0..MaxToolUses, b \in BOOLEAN :
        LET final == ~ b \/ t = 0 IN
        Answered(w, Proceed(g(x, IF final THEN 0 ELSE t,
                              IF final THEN "COMPLETED" ELSE e.outcome)))
  BY DEF CallModel
<1>3. \E n \in Nat, m \in Nat, o \in {"none", "COMPLETED"} :
        Answered(w, Proceed(g(n, m, o)))
  <2>1. x \in Nat /\ t \in Nat /\ 0 \in Nat
    BY BlocksAssumption
  <2> HIDE DEF g
  <2>2. QED
    BY <1>1, <1>2, <2>1
<1>4. PICK n \in Nat, m \in Nat, o \in {"none", "COMPLETED"} :
        Answered(w, Proceed(g(n, m, o)))
  BY <1>3
<1>5. /\ g(n, m, o) \in Executions /\ g(n, m, o).pc = "callModel"
      /\ g(n, m, o).outcome = o /\ g(n, m, o).run = e.run
      /\ g(n, m, o).attempt = e.attempt /\ g(n, m, o).sandbox = e.sandbox
  BY <1>1 DEF Executions, Terminal
<1> HIDE DEF g
<1>6. TryTarget(g(n, m, o), Proceed(g(n, m, o)))
  BY <1>5, ProceedTarget
<1>7. TryTarget(e, Proceed(g(n, m, o)))
  BY <1>1, <1>5, <1>6 DEF TryTarget
<1>8. QED
  BY <1>1, <1>4, <1>7, AnsweredTarget

LEMMA EmitStepTarget ==
  ASSUME OrdinaryInv, NEW w \in Workers, EmitStep(w)
  PROVE  TryMove(w)
<1> DEFINE e == exec[w]
<1>1. /\ e \in Executions /\ WellFormed(e) /\ e.pc = "emitStep" /\ e.pc \in TryBody
      /\ e.outcome \in {"none", "COMPLETED"}
  BY DEF OrdinaryInv, Ordinary, TypeInv, Executing, EmitStep, TryBody
<1>2. CASE e.step = "ASSISTANT"
  <2> DEFINE f == [e EXCEPT !.texts = @ - 1]
  <2>1. e.texts - 1 \in Nat
    BY <1>1, <1>2 DEF WellFormed, Recording, Executions
  <2>2. /\ f \in Executions /\ f.pc = "emitStep" /\ f.outcome = e.outcome
        /\ f.run = e.run /\ f.attempt = e.attempt /\ f.sandbox = e.sandbox
    BY <1>1, <2>1 DEF Executions
  <2>3. Answered(w, Proceed(f))
    BY <1>2 DEF EmitStep
  <2> HIDE DEF f
  <2>4. TryTarget(e, Proceed(f))
    BY <1>1, <2>2, ProceedTarget DEF TryTarget
  <2>5. QED
    BY <1>1, <2>3, <2>4, AnsweredTarget
<1>3. CASE e.step = "TOOL_RESULT"
  <2> DEFINE f == [e EXCEPT !.tools = @ - 1]
  <2>1. e.tools - 1 \in Nat
    BY <1>1, <1>3 DEF WellFormed, Recording, Executions
  <2>2. /\ f \in Executions /\ f.pc = "emitStep" /\ f.outcome = e.outcome
        /\ f.run = e.run /\ f.attempt = e.attempt /\ f.sandbox = e.sandbox
    BY <1>1, <2>1 DEF Executions
  <2>3. Answered(w, Proceed(f))
    BY <1>3 DEF EmitStep
  <2> HIDE DEF f
  <2>4. TryTarget(e, Proceed(f))
    BY <1>1, <2>2, ProceedTarget DEF TryTarget
  <2>5. QED
    BY <1>1, <2>3, <2>4, AnsweredTarget
<1>4. CASE e.step = "TOOL_CALL"
  <2> DEFINE f == [e EXCEPT !.pc = "runTool"]
  <2>1. TryTarget(e, f)
    BY <1>1 DEF TryTarget, Executions, ExecStages, TryBody
  <2>2. Answered(w, f)
    BY <1>4 DEF EmitStep
  <2> HIDE DEF f
  <2>3. QED
    BY <1>1, <2>1, <2>2, AnsweredTarget
<1>5. QED
  BY <1>1, <1>2, <1>3, <1>4 DEF Executions, StepTypes

\* A step of the try block keeps the execution's run and attempt, stays in the try
\* block or has an outcome to save.
LEMMA TryStep ==
  ASSUME OrdinaryInv, NEW w \in Workers, ExecStep(w), exec[w].pc \in TryBody
  PROVE  TryMove(w)
<1> DEFINE e == exec[w]
<1>1. e \in Executions /\ e.outcome \in {"none", "COMPLETED"}
  BY DEF OrdinaryInv, Ordinary, TypeInv, Executing
<1>2. CASE CallFails(w)
  BY <1>2, ThrowTarget DEF CallFails, CallThrows
<1>3. CASE CreateSandbox(w)
  <2> DEFINE f == [e EXCEPT !.pc = "saveSandbox", !.sandbox = TRUE]
  <2>1. e.pc = "createSandbox" /\ Answered(w, f)
    BY <1>3 DEF CreateSandbox
  <2>2. TryTarget(e, f)
    BY <1>1, <2>1 DEF TryTarget, Executions, ExecStages, TryBody
  <2> HIDE DEF f
  <2>3. QED
    BY <2>1, <2>2, AnsweredTarget
<1>4. CASE SaveSandbox(w) \/ MirrorSandbox(w) \/ EmitStarted(w)
  BY <1>4, GotoTarget DEF SaveSandbox, MirrorSandbox, EmitStarted, TryBody
<1>5. CASE CountSteps(w)
  <2> DEFINE f(n) == [e EXCEPT !.pc = "checkCancel", !.index = n]
  <2>1. e.pc = "countSteps" /\ Answered(w, f(Cardinality(DOMAIN steps[e.run])))
    BY <1>5 DEF CountSteps
  <2>2. Cardinality(DOMAIN steps[e.run]) \in Nat
    <3>1. e.run \in Runs
      BY <2>1 DEF OrdinaryInv, TypeInv, Executing, WellFormed
    <3>2. QED
      BY <3>1, FS_CardinalityType DEF OrdinaryInv, TypeInv, StoresTypeOK
  <2>3. \A n \in Nat : TryTarget(e, f(n))
    BY <1>1, <2>1 DEF TryTarget, Executions, ExecStages, TryBody
  <2> HIDE DEF f
  <2>4. QED
    BY <2>1, <2>2, <2>3, AnsweredTarget
<1>6. CASE CheckCancel(w)
  <2>1. e.pc = "checkCancel"
    BY <1>6 DEF CheckCancel
  <2>2. CASE e.run \in cancelKeys
    <3>1. TryTarget(e, Cancelled(e))
      BY <1>1, <2>1, <2>2 DEF TryTarget, Cancelled, Executions, ExecStages, TryBody,
         Finishing, Terminal
    <3>2. QED
      BY <1>6, <2>2, <3>1, AnsweredTarget DEF CheckCancel
  <2>3. CASE e.run \notin cancelKeys
    <3>1. TryTarget(e, [e EXCEPT !.pc = "callModel"])
      BY <1>1, <2>1, <2>3 DEF TryTarget, Executions, ExecStages, TryBody
    <3>2. QED
      BY <1>6, <2>3, <3>1, AnsweredTarget DEF CheckCancel
  <2>4. QED
    BY <2>2, <2>3
<1>7. CASE CallModel(w)
  BY <1>7, CallModelTarget
<1>8. CASE InsertStep(w)
  <2> DEFINE f(n) == [e EXCEPT !.pc = "mirrorStep", !.index = n]
  <2>1. e.pc = "insertStep" /\ e.index + 1 \in Nat
    BY <1>1, <1>8 DEF InsertStep, Executions
  <2>2. Throw(w) \/ Answered(w, f(e.index + 1))
    BY <1>8 DEF InsertStep
  <2>3. \A n \in Nat : TryTarget(e, f(n))
    BY <1>1, <2>1 DEF TryTarget, Executions, ExecStages, TryBody
  <2> HIDE DEF f
  <2>4. QED
    BY <2>1, <2>2, <2>3, AnsweredTarget, ThrowTarget
<1>9. CASE MirrorStep(w)
  BY <1>9, ThrowTarget, GotoTarget DEF MirrorStep, TryBody
<1>10. CASE EmitStep(w)
  BY <1>10, EmitStepTarget
<1>11. CASE RunTool(w)
  <2>1. TryTarget(e, [e EXCEPT !.pc = "insertStep", !.step = "TOOL_RESULT"])
    BY <1>1, <1>11 DEF RunTool, TryTarget, Executions, ExecStages, TryBody, StepTypes
  <2>2. QED
    BY <1>11, <2>1, ThrowTarget DEF RunTool, TryMove
<1>12. QED
  BY <1>2, <1>3, <1>4, <1>5, <1>6, <1>7, <1>8, <1>9, <1>10, <1>11
  DEF ExecStep, FindRun, SaveOutcome, MirrorOutcome, EmitOutcome, KillSandbox,
      EndStream, ClearCancel, SettleJob, TryBody

LEMMA TryStores ==
  ASSUME OrdinaryInv, NEW w \in Workers, ExecStep(w), exec[w].pc \in TryBody
  PROVE  /\ TryFrame
         /\ exec[w].pc # "createSandbox" => UNCHANGED sandboxes
         /\ exec[w].pc # "callModel" => UNCHANGED history
         /\ exec[w].pc # "insertStep" => UNCHANGED steps
         /\ exec[w].pc # "mirrorStep" => UNCHANGED mirrorSteps
<1> DEFINE e == exec[w]
<1> USE DEF TryFrame, storeVars, postgresVars, mirrorVars, redisVars, requestVars,
            ghostVars
<1>1. CASE UNCHANGED storeVars
  BY <1>1
<1>2. CASE CreateSandbox(w) \/ SaveSandbox(w) \/ InsertStep(w) \/ MirrorStep(w)
  BY <1>2 DEF CreateSandbox, SaveSandbox, InsertStep, MirrorStep
<1>3. CASE MirrorSandbox(w)
  <2>1. mirror' = [mirror EXCEPT ![e.run].sandboxId = e.attempt]
        /\ mirror \in [Runs -> Documents]
    BY <1>3 DEF MirrorSandbox, OrdinaryInv, TypeInv, StoresTypeOK
  <2>2. \A r \in Runs : /\ mirror'[r].created = mirror[r].created
                       /\ mirror'[r].status = mirror[r].status
    BY <2>1 DEF Documents
  <2>3. QED
    BY <1>3, <2>2 DEF MirrorSandbox
<1>4. CASE CallModel(w)
  <2>1. history \in [Runs -> Histories]
    BY DEF OrdinaryInv, TypeInv, StoresTypeOK
  <2>2. \A r \in Runs : history'[r].cancelled = history[r].cancelled
    BY <1>4, <2>1 DEF CallModel
  <2>3. QED
    BY <1>4, <2>2 DEF CallModel
<1>5. QED
  BY <1>1, <1>2, <1>3, <1>4
  DEF ExecStep, CallFails, FindRun, EmitStarted, CountSteps, CheckCancel, EmitStep,
      RunTool, SaveOutcome, MirrorOutcome, EmitOutcome, KillSandbox, EndStream,
      ClearCancel, SettleJob, TryBody

-----------------------------------------------------------------------------
(* The steps after the try block.                                          *)

\* The stage that follows when the call returns.
After(pc) ==
  CASE pc = "saveOutcome"   -> "mirrorOutcome"
    [] pc = "mirrorOutcome" -> "emitOutcome"
    [] pc = "emitOutcome"   -> "killSandbox"
    [] pc = "killSandbox"   -> "endStream"
    [] pc = "endStream"     -> "clearCancel"
    [] pc = "clearCancel"   -> "settleJob"

\* The execution that e becomes when its call returns, and when it throws.
SameJob(e, f) ==
  /\ f \in Executions
  /\ f.run = e.run /\ f.attempt = e.attempt /\ f.sandbox = e.sandbox

Went(e, f) == SameJob(e, f) /\ f.pc = After(e.pc) /\ f.outcome = e.outcome

Failed(e, f) ==
  /\ SameJob(e, f) /\ ServiceOf[e.pc] \in Faults
  /\ IF Caught(e) THEN f.pc = "saveOutcome" /\ f.outcome = "FAILED"
                  ELSE f.pc = Unwound(e.pc) /\ f.outcome = e.outcome

\* What the call of e does to the stores, whether or not its reply arrives.
Effect(e) ==
  /\ status' = IF e.pc = "saveOutcome" THEN [status EXCEPT ![e.run] = e.outcome]
                                       ELSE status
  /\ mirror' = IF e.pc = "mirrorOutcome"
                 THEN [mirror EXCEPT ![e.run].status = e.outcome] ELSE mirror
  /\ published' = IF e.pc \in {"emitOutcome", "endStream"}
                    THEN [published EXCEPT ![e.run] = @ \cup
                            {IF e.pc = "endStream" THEN "stream_end" ELSE e.outcome}]
                    ELSE published
  /\ sandboxes' = IF e.pc = "killSandbox" /\ e.sandbox
                    THEN [sandboxes EXCEPT ![e.run] = @ \ {e.attempt}] ELSE sandboxes
  /\ cancelKeys' = IF e.pc = "clearCancel" THEN cancelKeys \ {e.run} ELSE cancelKeys
  /\ UNCHANGED <<sandboxId, steps, audit, mirrorSteps, job, requestVars, ghostVars>>

\* The counter is incremented once the document's write has returned.
Counts(e) ==
  counted' = IF e.pc = "mirrorOutcome"
               THEN [counted EXCEPT ![e.run][e.outcome] = @ + 1] ELSE counted

FinishMove(w) ==
  \E f : /\ exec' = [exec EXCEPT ![w] = f]
         /\ \/ Went(exec[w], f) /\ Effect(exec[w]) /\ Counts(exec[w])
            \/ Failed(exec[w], f) /\ UNCHANGED storeVars
            \/ /\ LostReplies /\ Failed(exec[w], f)
               /\ Effect(exec[w]) /\ UNCHANGED counted

LEMMA ThrownFails ==
  ASSUME NEW e, e \in Executions, e.pc \in Finishing \cup Finally,
         ServiceOf[e.pc] \in Faults
  PROVE  Failed(e, Thrown(e))
  BY ThrownMoves DEF Failed, SameJob

LEMMA StageWent ==
  ASSUME NEW e, e \in Executions, e.pc \in Finishing \cup Finally
  PROVE  Went(e, [e EXCEPT !.pc = After(@)])
  BY DEF Went, SameJob, After, Executions, ExecStages, Finishing, Finally

LEMMA FinishStep ==
  ASSUME OrdinaryInv, NEW w \in Workers, ExecStep(w),
         exec[w].pc \in Finishing \cup Finally
  PROVE  FinishMove(w)
<1> DEFINE e == exec[w]
           f == [e EXCEPT !.pc = After(@)]
<1> USE DEF postgresVars, mirrorVars, redisVars, requestVars, ghostVars
<1>1. e \in Executions /\ Went(e, f)
  BY StageWent DEF OrdinaryInv, TypeInv, Executing
<1>2. ServiceOf[e.pc] \in Faults => Failed(e, Thrown(e))
  BY <1>1, ThrownFails
<1>3. CASE CallFails(w)
  BY <1>2, <1>3 DEF CallFails, CallThrows, Throw, FinishMove
<1>4. ASSUME Answered(w, f), Effect(e), UNCHANGED counted, e.pc # "mirrorOutcome"
      PROVE  FinishMove(w)
  <2>1. CASE exec' = [exec EXCEPT ![w] = f]
    BY <1>1, <1>4, <2>1 DEF FinishMove, Counts
  <2>2. CASE LostReplies /\ CallThrows(w)
    BY <1>2, <1>4, <2>2 DEF FinishMove, CallThrows, Throw
  <2>3. QED
    BY <1>4, <2>1, <2>2 DEF Answered
<1>5. CASE SaveOutcome(w)
  BY <1>4, <1>5 DEF SaveOutcome, Goto, Effect, After
<1>6. CASE MirrorOutcome(w)
  <2>1. Effect(e) /\ e.pc = "mirrorOutcome"
    BY <1>6 DEF MirrorOutcome, Effect
  <2>2. CASE /\ exec' = [exec EXCEPT ![w] = [e EXCEPT !.pc = "emitOutcome"]]
             /\ counted' = [counted EXCEPT ![e.run][e.outcome] = @ + 1]
    <3>1. f = [e EXCEPT !.pc = "emitOutcome"]
      BY <2>1 DEF After
    <3>2. QED
      BY <1>1, <2>1, <2>2, <3>1 DEF FinishMove, Counts
  <2>3. CASE LostReplies /\ CallThrows(w) /\ UNCHANGED counted
    BY <1>2, <2>1, <2>3 DEF FinishMove, CallThrows, Throw
  <2>4. QED
    BY <1>6, <2>2, <2>3 DEF MirrorOutcome
<1>7. CASE EmitOutcome(w)
  BY <1>4, <1>7 DEF EmitOutcome, Goto, Effect, After
<1>8. CASE KillSandbox(w)
  <2>1. sandboxes = [sandboxes EXCEPT ![e.run] = @]
    BY DEF OrdinaryInv, TypeInv, StoresTypeOK
  <2>2. sandboxes' = IF e.sandbox THEN [sandboxes EXCEPT ![e.run] = @ \ {e.attempt}]
                                  ELSE sandboxes
    BY <1>8, <2>1 DEF KillSandbox
  <2>3. QED
    BY <1>4, <1>8, <2>2 DEF KillSandbox, Goto, Effect, After
<1>9. CASE EndStream(w)
  BY <1>4, <1>9 DEF EndStream, Goto, Effect, After
<1>10. CASE ClearCancel(w)
  BY <1>4, <1>10 DEF ClearCancel, Goto, Effect, After
<1>11. e.pc \notin TryBody \cup {"findRun", "settleJob"}
  BY DEF TryBody, Finishing, Finally
<1>12. ~ (FindRun(w) \/ SettleJob(w) \/ CreateSandbox(w) \/ SaveSandbox(w)
          \/ MirrorSandbox(w) \/ EmitStarted(w) \/ CountSteps(w))
  BY <1>11 DEF FindRun, SettleJob, CreateSandbox, SaveSandbox, MirrorSandbox,
     EmitStarted, CountSteps, TryBody
<1>13. ~ (CheckCancel(w) \/ CallModel(w) \/ InsertStep(w) \/ MirrorStep(w)
          \/ EmitStep(w) \/ RunTool(w))
  BY <1>11 DEF CheckCancel, CallModel, InsertStep, MirrorStep, EmitStep, RunTool,
     TryBody
<1>14. QED
  BY <1>3, <1>5, <1>6, <1>7, <1>8, <1>9, <1>10, <1>12, <1>13 DEF ExecStep

-----------------------------------------------------------------------------
(* The other steps of a worker, and that every execution is ordinary.      *)

\* findRun goes on with a run that is RUNNING, and with no other.
FindMove(w) ==
  \E f : /\ exec' = [exec EXCEPT ![w] = f]
         /\ SameJob(exec[w], f) /\ f.outcome = exec[w].outcome
         /\ \/ /\ f.pc = "settleJob"
               /\ status[exec[w].run] # "RUNNING" \/ "postgres" \in Faults
            \/ f.pc = "createSandbox" /\ status[exec[w].run] = "RUNNING"

TakeMove(w, r) ==
  \E f : /\ exec' = [exec EXCEPT ![w] = f]
         /\ f \in Executions /\ f.pc = "findRun" /\ f.run = r
         /\ f.attempt = job[r].attempt + 1 /\ f.outcome = "none" /\ ~ f.sandbox

\* Who does what in a step of a worker.
LEMMA WorkerCases ==
  ASSUME OrdinaryInv, NEW w \in Workers, ExecStep(w)
  PROVE  \/ exec[w].pc \in TryBody
         \/ exec[w].pc \in Finishing \cup Finally
         \/ exec[w].pc = "findRun"
         \/ SettleJob(w)
<1>1. CASE CallFails(w)
  <2>1. exec[w].pc \in ExecStages \ {"idle", "settleJob", "runTool"}
    BY <1>1 DEF CallFails, CallThrows, ServiceOf
  <2>2. QED
    BY <2>1 DEF ExecStages
<1>2. CASE FindRun(w) \/ CreateSandbox(w) \/ SaveSandbox(w) \/ MirrorSandbox(w)
           \/ EmitStarted(w) \/ CountSteps(w) \/ CheckCancel(w) \/ CallModel(w)
  BY <1>2 DEF FindRun, CreateSandbox, SaveSandbox, MirrorSandbox, EmitStarted,
     CountSteps, CheckCancel, CallModel, TryBody
<1>3. CASE InsertStep(w) \/ MirrorStep(w) \/ EmitStep(w) \/ RunTool(w)
  BY <1>3 DEF InsertStep, MirrorStep, EmitStep, RunTool, TryBody
<1>4. CASE SaveOutcome(w) \/ MirrorOutcome(w) \/ EmitOutcome(w) \/ KillSandbox(w)
           \/ EndStream(w) \/ ClearCancel(w)
  BY <1>4 DEF SaveOutcome, MirrorOutcome, EmitOutcome, KillSandbox, EndStream,
     ClearCancel, Finishing, Finally
<1>5. QED
  BY <1>1, <1>2, <1>3, <1>4 DEF ExecStep

LEMMA FindStep ==
  ASSUME OrdinaryInv, NEW w \in Workers, ExecStep(w), exec[w].pc = "findRun"
  PROVE  FindMove(w) /\ UNCHANGED storeVars
<1> DEFINE e == exec[w]
           f(stage) == [e EXCEPT !.pc = stage]
<1>1. e \in Executions
  BY DEF OrdinaryInv, TypeInv, Executing
<1>2. \A stage \in ExecStages : /\ SameJob(e, f(stage))
                                /\ f(stage).outcome = e.outcome /\ f(stage).pc = stage
  BY <1>1 DEF SameJob, Executions
<1>3. "settleJob" \in ExecStages /\ "createSandbox" \in ExecStages
  BY DEF ExecStages, TryBody
<1>4. Thrown(e) = f("settleJob")
  BY DEF Thrown, Caught, Unwound, TryBody, Finishing
<1> HIDE DEF f
<1>5. ASSUME CallThrows(w)
      PROVE  FindMove(w)
  <2>1. ServiceOf["findRun"] = "postgres"
    BY DEF ServiceOf, ExecStages
  <2>2. QED
    BY <1>2, <1>3, <1>4, <1>5, <2>1 DEF CallThrows, Throw, FindMove
<1>6. CASE FindRun(w)
  <2>1. PICK stage \in {"settleJob", "createSandbox"} :
          /\ stage = "createSandbox" <=> status[e.run] = "RUNNING"
          /\ Answered(w, f(stage)) /\ UNCHANGED storeVars
    BY <1>6 DEF FindRun, Goto, f
  <2>2. CASE exec' = [exec EXCEPT ![w] = f(stage)]
    BY <1>2, <1>3, <2>1, <2>2 DEF FindMove
  <2>3. QED
    BY <1>5, <2>1, <2>2 DEF Answered
<1>7. ~ (SettleJob(w) \/ CreateSandbox(w) \/ SaveSandbox(w) \/ MirrorSandbox(w)
         \/ EmitStarted(w) \/ CountSteps(w) \/ CheckCancel(w) \/ CallModel(w))
  BY DEF SettleJob, CreateSandbox, SaveSandbox, MirrorSandbox, EmitStarted,
     CountSteps, CheckCancel, CallModel
<1>8. ~ (InsertStep(w) \/ MirrorStep(w) \/ EmitStep(w) \/ RunTool(w) \/ SaveOutcome(w)
         \/ MirrorOutcome(w) \/ EmitOutcome(w) \/ KillSandbox(w) \/ EndStream(w)
         \/ ClearCancel(w))
  BY DEF InsertStep, MirrorStep, EmitStep, RunTool, SaveOutcome, MirrorOutcome,
     EmitOutcome, KillSandbox, EndStream, ClearCancel
<1>9. QED
  BY <1>5, <1>6, <1>7, <1>8 DEF ExecStep, CallFails

LEMMA TakeStep ==
  ASSUME OrdinaryInv, NEW w \in Workers, NEW r \in Runs, TakeJob(w, r)
  PROVE  TakeMove(w, r)
<1> DEFINE f(n) == [Idle EXCEPT !.pc = "findRun", !.run = r, !.attempt = n]
<1>1. job[r].attempt + 1 \in Nat
  BY DEF OrdinaryInv, TypeInv, StoresTypeOK, Jobs
<1>2. \A n \in Nat : /\ f(n) \in Executions /\ f(n).pc = "findRun" /\ f(n).run = r
                     /\ f(n).attempt = n /\ f(n).outcome = "none" /\ ~ f(n).sandbox
  BY DEF Idle, Executions, ExecStages, StepTypes, Terminal
<1>3. exec' = [exec EXCEPT ![w] = f(job[r].attempt + 1)]
  BY DEF TakeJob
<1> HIDE DEF f
<1>4. QED
  BY <1>1, <1>2, <1>3 DEF TakeMove

\* The steps that no worker takes part in.
RequestStep(r) ==
  \/ CreateRun(r) \/ CreateStep(r) \/ ApiCrash(r)
  \/ ReadForCancel(r) \/ CancelStep(r) \/ KeyExpires(r)

QueueStep(r) ==
  RecoverJob(r) \/ LoseLock(r) \/ \E a \in sandboxes[r] : SandboxExpires(r, a)

LEMMA OutsideStep ==
  ASSUME NEW r \in Runs, RequestStep(r) \/ QueueStep(r)
  PROVE  UNCHANGED <<exec, steps, mirrorSteps, published, counted>>
<1> USE DEF postgresVars, mirrorVars, redisVars
<1>1. CASE CreateRun(r) \/ CreateStep(r) \/ ApiCrash(r)
  BY <1>1 DEF CreateRun, CreateStep, SetRun, AuditCreated, Enqueue, FailRow,
     FailDocument, CreateThrow, ApiCrash
<1>2. CASE ReadForCancel(r) \/ CancelStep(r) \/ KeyExpires(r)
  BY <1>2 DEF ReadForCancel, CancelStep, SetCancelKey, AuditCancel, CancelThrow,
     KeyExpires
<1>3. CASE QueueStep(r)
  BY <1>3 DEF QueueStep, RecoverJob, LoseLock, SandboxExpires
<1>4. QED
  BY <1>1, <1>2, <1>3 DEF RequestStep

LEMMA IdleOrdinary == Ordinary(Idle) /\ Idle \in Executions
                      /\ Idle.pc = "idle" /\ Idle.run = NoRun
                      /\ Idle.outcome = "none"
  BY DEF Ordinary, Idle, TryBody, Executions, ExecStages, StepTypes, Terminal

LEMMA OrdinaryChanges ==
  ASSUME OrdinaryInv, NEW w \in Workers, NEW f, Ordinary(f),
         exec' = [exec EXCEPT ![w] = f]
  PROVE  \A v \in Workers : Ordinary(exec'[v])
  BY DEF OrdinaryInv, TypeInv, Executing

LEMMA OrdinaryStep == OrdinaryInv /\ [Next]_vars => OrdinaryInv'
<1> SUFFICES ASSUME OrdinaryInv, [Next]_vars
             PROVE  \A v \in Workers : Ordinary(exec'[v])
  BY TypeStep DEF OrdinaryInv, Ordinary
<1>1. ASSUME NEW w \in Workers, ExecStep(w)
      PROVE  \A v \in Workers : Ordinary(exec'[v])
  <2>1. CASE exec[w].pc \in TryBody
    <3>1. PICK f : exec' = [exec EXCEPT ![w] = f] /\ TryTarget(exec[w], f)
      BY <1>1, <2>1, TryStep DEF TryMove
    <3>2. Ordinary(f)
      BY <3>1 DEF Ordinary, TryTarget, TryBody
    <3>3. QED
      BY <3>1, <3>2, OrdinaryChanges
  <2>2. CASE exec[w].pc \in Finishing \cup Finally
    <3>1. PICK f : /\ exec' = [exec EXCEPT ![w] = f]
                   /\ Went(exec[w], f) \/ Failed(exec[w], f)
      BY <1>1, <2>2, FinishStep DEF FinishMove
    <3>2. f.pc \in {"saveOutcome", After(exec[w].pc), Unwound(exec[w].pc)}
      BY <3>1 DEF Went, Failed
    <3>3. Ordinary(f)
      BY <2>2, <3>2 DEF Ordinary, After, Unwound, TryBody, Finishing, Finally
    <3>4. QED
      BY <3>1, <3>3, OrdinaryChanges
  <2>3. CASE exec[w].pc = "findRun"
    <3>1. PICK f : /\ exec' = [exec EXCEPT ![w] = f] /\ f.outcome = exec[w].outcome
                   /\ f.pc \in {"settleJob", "createSandbox"}
      BY <1>1, <2>3, FindStep DEF FindMove
    <3>2. Ordinary(f)
      BY <2>3, <3>1 DEF OrdinaryInv, Ordinary, TryBody
    <3>3. QED
      BY <3>1, <3>2, OrdinaryChanges
  <2>4. CASE SettleJob(w)
    BY <2>4, IdleOrdinary, OrdinaryChanges DEF SettleJob
  <2>5. QED
    BY <1>1, <2>1, <2>2, <2>3, <2>4, WorkerCases
<1>2. ASSUME NEW w \in Workers, WorkerCrash(w)
      PROVE  \A v \in Workers : Ordinary(exec'[v])
  BY <1>2, IdleOrdinary, OrdinaryChanges DEF WorkerCrash
<1>3. ASSUME NEW w \in Workers, NEW r \in Runs, TakeJob(w, r)
      PROVE  \A v \in Workers : Ordinary(exec'[v])
  <2>1. PICK f : /\ exec' = [exec EXCEPT ![w] = f]
                 /\ f.pc = "findRun" /\ f.outcome = "none"
    BY <1>3, TakeStep DEF TakeMove
  <2>2. Ordinary(f)
    BY <2>1 DEF Ordinary, TryBody
  <2>3. QED
    BY <2>1, <2>2, OrdinaryChanges
<1>4. ASSUME NEW r \in Runs, RequestStep(r) \/ QueueStep(r)
      PROVE  \A v \in Workers : Ordinary(exec'[v])
  BY <1>4, OutsideStep DEF OrdinaryInv
<1>5. CASE UNCHANGED vars
  BY <1>5 DEF OrdinaryInv, vars
<1>6. QED
  BY <1>1, <1>2, <1>3, <1>4, <1>5 DEF Next, RequestStep, QueueStep

LEMMA OrdinaryInit == Init => OrdinaryInv
  BY IdleOrdinary, TypeInit DEF Init, OrdinaryInv

LEMMA OrdinaryInvariant == Spec => []OrdinaryInv
  BY OrdinaryInit, OrdinaryStep, PTL DEF Spec

LEMMA ExecTyped == OrdinaryInv => exec \in [Workers -> Executions]
  BY DEF OrdinaryInv, TypeInv, Executing

\* An execution is of some run.
LEMMA RunOf ==
  ASSUME OrdinaryInv, NEW w \in Workers, exec[w].pc # "idle"
  PROVE  exec[w].run \in Runs
  BY DEF OrdinaryInv, TypeInv, Executing, WellFormed

-----------------------------------------------------------------------------
(* A run is offered only when it is recorded.                              *)

\* The stages of create after SetRun, of which all but the first follow the audit
\* record; a request that was rejected or lost may have got anywhere.
AfterSetRun == {"audit", "enqueue", "compensate", "compensateMirror", "accepted"}
Offered == {"compensate", "compensateMirror", "accepted", "rejected", "lost"}

Recorded(r) ==
  /\ create[r] \in AfterSetRun => mirror[r].created
  /\ create[r] \in AfterSetRun \ {"audit"} => "agent_run.created" \in audit[r]
  /\ job[r].state # "none" =>
       /\ mirror[r].created /\ "agent_run.created" \in audit[r]
       /\ create[r] \in Offered
  /\ mirror[r].status # "none" => mirror[r].created
  /\ create[r] = "idle" <=> status[r] = "none"

OfferedRun(e) == e.pc # "idle" => job[e.run].state # "none"

RecordedInv ==
  /\ \A r \in Runs : Recorded(r)
  /\ \A w \in Workers : OfferedRun(exec[w])

LEMMA RecordedCreate ==
  ASSUME OrdinaryInv, RecordedInv, NEW r \in Runs,
         CreateRun(r) \/ CreateStep(r) \/ ApiCrash(r)
  PROVE  RecordedInv'
<1> USE DEF postgresVars, mirrorVars, redisVars, requestVars, ghostVars,
            CreateGoto, CreateThrows, Rescue, AfterSetRun, Offered
<1>1. /\ create \in [Runs -> CreateStages] /\ mirror \in [Runs -> Documents]
      /\ status \in [Runs -> Statuses] /\ DOMAIN audit = Runs
      /\ DOMAIN job = Runs
  BY DEF OrdinaryInv, TypeInv, StoresTypeOK
<1>2. ASSUME NEW q \in Runs, q # r
      PROVE  Recorded(q)' /\ job'[q] = job[q]
  <2>1. /\ create'[q] = create[q] /\ mirror'[q] = mirror[q] /\ audit'[q] = audit[q]
        /\ job'[q] = job[q] /\ status'[q] = status[q]
    <3>1. CASE CreateRun(r) \/ SetRun(r) \/ AuditCreated(r) \/ ApiCrash(r)
      BY <1>1, <1>2, <3>1 DEF CreateRun, SetRun, AuditCreated, ApiCrash
    <3>2. CASE Enqueue(r) \/ FailRow(r) \/ FailDocument(r) \/ CreateThrow(r)
      BY <1>1, <1>2, <3>2 DEF Enqueue, FailRow, FailDocument, CreateThrow
    <3>3. QED
      BY <3>1, <3>2 DEF CreateStep
  <2>2. QED
    BY <2>1 DEF RecordedInv, Recorded
<1>3. Recorded(r)' /\ (job[r].state # "none" => job'[r].state # "none")
  <2>1. Recorded(r)
    BY DEF RecordedInv
  <2>2. CASE CreateRun(r)
    BY <1>1, <2>1, <2>2 DEF CreateRun, Recorded
  <2>3. CASE SetRun(r)
    BY <1>1, <2>1, <2>3 DEF SetRun, Recorded
  <2>4. CASE AuditCreated(r)
    BY <1>1, <2>1, <2>4 DEF AuditCreated, Recorded
  <2>5. CASE Enqueue(r)
    <3>1. job \in [Runs -> Jobs]
      BY DEF OrdinaryInv, TypeInv, StoresTypeOK
    <3>2. job'[r].state # "none"
      BY <2>5, <3>1 DEF Enqueue, Jobs
    <3>3. QED
      BY <1>1, <2>1, <2>5, <3>2 DEF Enqueue, Recorded
  <2>6. CASE FailRow(r)
    BY <1>1, <2>1, <2>6 DEF FailRow, Recorded
  <2>7. CASE FailDocument(r)
    BY <1>1, <2>1, <2>7 DEF FailDocument, Recorded, Documents
  <2>8. CASE CreateThrow(r)
    BY <1>1, <2>1, <2>8 DEF CreateThrow, Recorded, InFlight
  <2>9. CASE ApiCrash(r)
    BY <1>1, <2>1, <2>9 DEF ApiCrash, Recorded, InFlight
  <2>10. QED
    BY <2>2, <2>3, <2>4, <2>5, <2>6, <2>7, <2>8, <2>9 DEF CreateStep
<1>4. UNCHANGED exec
  BY OutsideStep DEF RequestStep
<1>5. ASSUME NEW w \in Workers
      PROVE  OfferedRun(exec[w])'
  BY <1>2, <1>3, <1>4, RunOf DEF RecordedInv, OfferedRun
<1>6. QED
  BY <1>2, <1>3, <1>5 DEF RecordedInv

\* The rest of the steps leave the request and the records alone and take no job
\* back from the queue.
RecordsKept ==
  /\ UNCHANGED create
  /\ \A r \in Runs :
       /\ "agent_run.created" \in audit[r] => "agent_run.created" \in audit'[r]
       /\ mirror'[r].created = mirror[r].created
       /\ mirror'[r].status # mirror[r].status => job[r].state # "none"
       /\ job'[r].state = "none" <=> job[r].state = "none"
       /\ status'[r] = status[r]
            \/ (job[r].state # "none" /\ status'[r] # "none")

LEMMA RecordsStay ==
  ASSUME OrdinaryInv, RecordedInv, RecordsKept
  PROVE  \A r \in Runs : Recorded(r)'
  BY DEF RecordedInv, Recorded, RecordsKept, Offered

LEMMA RecordedWorker ==
  ASSUME OrdinaryInv, RecordedInv, NEW w \in Workers, NEW f, RecordsKept,
         exec' = [exec EXCEPT ![w] = f],
         f.pc = "idle" \/ (f.run \in Runs /\ job[f.run].state # "none")
  PROVE  RecordedInv'
<1>1. ASSUME NEW v \in Workers
      PROVE  OfferedRun(exec[v])'
  <2>1. CASE v = w
    <3>1. exec'[v] = f
      BY <2>1, ExecTyped
    <3>2. f.pc # "idle" => job'[f.run].state # "none"
      BY DEF RecordsKept
    <3>3. QED
      BY <3>1, <3>2 DEF OfferedRun
  <2>2. CASE v # w
    BY <2>2, ExecTyped, RunOf DEF OfferedRun, RecordsKept, RecordedInv
  <2>3. QED
    BY <2>1, <2>2
<1>2. QED
  BY <1>1, RecordsStay DEF RecordedInv

LEMMA RecordedStep == OrdinaryInv /\ RecordedInv /\ [Next]_vars => RecordedInv'
<1> SUFFICES ASSUME OrdinaryInv, RecordedInv, [Next]_vars PROVE RecordedInv'
  OBVIOUS
<1> USE DEF postgresVars, mirrorVars, redisVars, requestVars, ghostVars
<1>a. /\ mirror \in [Runs -> Documents] /\ status \in [Runs -> Statuses]
      /\ job \in [Runs -> Jobs]
  BY DEF OrdinaryInv, TypeInv, StoresTypeOK
<1>1. ASSUME NEW w \in Workers, ExecStep(w)
      PROVE  RecordedInv'
  <2> DEFINE e == exec[w]
  <2>1. CASE e.pc \in TryBody
    <3>1. PICK f : exec' = [exec EXCEPT ![w] = f] /\ TryTarget(e, f)
      BY <1>1, <2>1, TryStep DEF TryMove
    <3>2. RecordsKept
      BY <1>1, <2>1, TryStores DEF TryFrame, RecordsKept
    <3>3. f.run \in Runs /\ job[f.run].state # "none"
      BY <2>1, <3>1, RunOf DEF TryTarget, RecordedInv, OfferedRun, TryBody
    <3>4. QED
      BY <3>1, <3>2, <3>3, RecordedWorker
  <2>2. CASE e.pc \in Finishing \cup Finally
    <3>1. PICK f : /\ exec' = [exec EXCEPT ![w] = f] /\ f.run = e.run
                   /\ Effect(e) \/ UNCHANGED storeVars
      BY <1>1, <2>2, FinishStep DEF FinishMove, Went, Failed, SameJob
    <3>2. e.run \in Runs /\ job[e.run].state # "none"
      BY <2>2, RunOf DEF RecordedInv, OfferedRun, Finishing, Finally
    <3>3. e.pc = "saveOutcome" => e.outcome \in Terminal
      BY DEF OrdinaryInv, TypeInv, Executing, WellFormed, Executions, Finishing
    <3>4. RecordsKept
      <4>1. CASE Effect(e)
        BY <1>a, <3>2, <3>3, <4>1 DEF Effect, RecordsKept, Documents, Terminal
      <4>2. CASE UNCHANGED storeVars
        BY <4>2 DEF storeVars, RecordsKept
      <4>3. QED
        BY <3>1, <4>1, <4>2
    <3>5. QED
      BY <3>1, <3>2, <3>4, RecordedWorker
  <2>3. CASE e.pc = "findRun"
    <3>1. PICK f : exec' = [exec EXCEPT ![w] = f] /\ f.run = e.run
      BY <1>1, <2>3, FindStep DEF FindMove, SameJob
    <3>2. RecordsKept
      BY <1>1, <2>3, FindStep DEF storeVars, RecordsKept
    <3>3. e.run \in Runs /\ job[e.run].state # "none"
      BY <2>3, RunOf DEF RecordedInv, OfferedRun
    <3>4. QED
      BY <3>1, <3>2, <3>3, RecordedWorker
  <2>4. CASE SettleJob(w)
    <3>1. RecordsKept
      BY <1>a, <2>4 DEF SettleJob, RecordsKept, Jobs
    <3>2. QED
      BY <2>4, <3>1, IdleOrdinary, RecordedWorker DEF SettleJob
  <2>5. QED
    BY <1>1, <2>1, <2>2, <2>3, <2>4, WorkerCases
<1>2. ASSUME NEW w \in Workers, WorkerCrash(w)
      PROVE  RecordedInv'
  <2>1. RecordsKept
    BY <1>2 DEF WorkerCrash, RecordsKept
  <2>2. QED
    BY <1>2, <2>1, IdleOrdinary, RecordedWorker DEF WorkerCrash
<1>3. ASSUME NEW w \in Workers, NEW r \in Runs, TakeJob(w, r)
      PROVE  RecordedInv'
  <2>1. RecordsKept
    BY <1>a, <1>3 DEF TakeJob, RecordsKept, Jobs
  <2>2. PICK f : exec' = [exec EXCEPT ![w] = f] /\ f.run = r
    BY <1>3, TakeStep DEF TakeMove
  <2>3. job[r].state # "none"
    BY <1>3 DEF TakeJob
  <2>4. QED
    BY <2>1, <2>2, <2>3, RecordedWorker
<1>4. ASSUME NEW r \in Runs, CreateRun(r) \/ CreateStep(r) \/ ApiCrash(r)
      PROVE  RecordedInv'
  BY <1>4, RecordedCreate
<1>5. ASSUME NEW r \in Runs,
             ReadForCancel(r) \/ CancelStep(r) \/ KeyExpires(r) \/ QueueStep(r)
      PROVE  RecordedInv'
  <2>1. RecordsKept /\ UNCHANGED exec
    <3>1. CASE ReadForCancel(r) \/ KeyExpires(r) \/ CancelThrow(r) \/ SetCancelKey(r)
      BY <3>1 DEF ReadForCancel, KeyExpires, SetCancelKey, CancelThrow, RecordsKept
    <3>2. CASE AuditCancel(r)
      <4>1. DOMAIN audit = Runs
        BY DEF OrdinaryInv, TypeInv, StoresTypeOK
      <4>2. QED
        BY <3>2, <4>1 DEF AuditCancel, RecordsKept
    <3>3. CASE QueueStep(r)
      BY <1>a, <3>3 DEF QueueStep, RecoverJob, LoseLock, MoveStalled, SandboxExpires,
         RecordsKept, Jobs
    <3>4. QED
      BY <1>5, <3>1, <3>2, <3>3 DEF CancelStep
  <2>2. QED
    BY <2>1, RecordsStay, RunOf DEF RecordedInv, OfferedRun, RecordsKept
<1>6. CASE UNCHANGED vars
  <2>1. RecordsKept /\ UNCHANGED exec
    BY <1>6 DEF vars, storeVars, RecordsKept
  <2>2. QED
    BY <2>1, RecordsStay, RunOf DEF RecordedInv, OfferedRun, RecordsKept
<1>7. QED
  BY <1>1, <1>2, <1>3, <1>4, <1>5, <1>6 DEF Next, QueueStep

LEMMA RecordedInvariant == Spec => []RecordedInv
<1>1. Init => RecordedInv
  BY IdleOrdinary DEF Init, RecordedInv, Recorded, OfferedRun, NoDocument, AfterSetRun
<1>2. QED
  BY <1>1, RecordedStep, OrdinaryInvariant, PTL DEF Spec

\* No execution ever begins before the document and the audit record of its run
\* exist, whatever fails on the way and however late the compensations come.
THEOREM RunsRecordedFirst == Spec => []EnqueuedRunRecorded
<1>1. RecordedInv => EnqueuedRunRecorded
  BY DEF RecordedInv, Recorded, EnqueuedRunRecorded
<1>2. QED
  BY <1>1, RecordedInvariant, PTL

-----------------------------------------------------------------------------
(* Only a run whose cancellation was asked for is CANCELLED.               *)

Asked(r) ==
  /\ r \in cancelKeys \/ status[r] = "CANCELLED" => history[r].cancelled
  /\ cancel[r] # "idle" \/ history[r].cancelled => status[r] # "none"

AskedRun(e) == e.outcome = "CANCELLED" => e.run \in Runs /\ history[e.run].cancelled

AskedInv ==
  /\ \A r \in Runs : Asked(r)
  /\ \A w \in Workers : AskedRun(exec[w])

\* A step that neither asks for a cancellation nor answers one.
AsksKept ==
  /\ UNCHANGED cancel
  /\ cancelKeys' \subseteq cancelKeys
  /\ \A r \in Runs :
       /\ history'[r].cancelled = history[r].cancelled
       /\ status'[r] = "CANCELLED" /\ status[r] # "CANCELLED" => history[r].cancelled
       /\ status'[r] = "none" => status[r] = "none"

LEMMA AskedStays ==
  ASSUME OrdinaryInv, AskedInv, AsksKept
  PROVE  \A r \in Runs : Asked(r)'
  BY DEF AskedInv, Asked, AsksKept

LEMMA AskedWorker ==
  ASSUME OrdinaryInv, AskedInv, AsksKept, NEW w \in Workers, NEW f,
         exec' = [exec EXCEPT ![w] = f], AskedRun(f)
  PROVE  AskedInv'
<1>1. ASSUME NEW v \in Workers
      PROVE  AskedRun(exec[v])'
  <2>1. exec'[v] = f \/ exec'[v] = exec[v]
    BY ExecTyped
  <2>2. AskedRun(exec'[v])
    BY <2>1 DEF AskedInv
  <2>3. QED
    BY <2>2 DEF AskedRun, AsksKept
<1>2. QED
  BY <1>1, AskedStays DEF AskedInv

LEMMA AskedOutside ==
  ASSUME OrdinaryInv, RecordedInv, AskedInv, NEW r \in Runs,
         RequestStep(r) \/ QueueStep(r)
  PROVE  AskedInv'
<1> USE DEF postgresVars, mirrorVars, redisVars, requestVars, ghostVars
<1>1. /\ status \in [Runs -> Statuses] /\ history \in [Runs -> Histories]
      /\ DOMAIN cancel = Runs /\ UNCHANGED exec
  BY OutsideStep DEF OrdinaryInv, TypeInv, StoresTypeOK
<1>2. /\ \A q \in Runs : Asked(q)'
      /\ \A q \in Runs : history[q].cancelled => history'[q].cancelled
  <2>1. CASE CreateRun(r) \/ CreateStep(r) \/ ApiCrash(r) \/ KeyExpires(r)
             \/ QueueStep(r)
    <3>1. AsksKept
      <4>1. CASE CreateRun(r) \/ FailRow(r)
        BY <1>1, <4>1 DEF CreateRun, FailRow, AsksKept
      <4>2. CASE \/ SetRun(r) \/ AuditCreated(r) \/ Enqueue(r) \/ FailDocument(r)
                 \/ CreateThrow(r) \/ ApiCrash(r) \/ KeyExpires(r)
        BY <4>2 DEF SetRun, AuditCreated, Enqueue, FailDocument, CreateThrow,
           ApiCrash, KeyExpires, AsksKept
      <4>3. CASE QueueStep(r)
        BY <4>3 DEF QueueStep, RecoverJob, LoseLock, SandboxExpires, AsksKept
      <4>4. QED
        BY <2>1, <4>1, <4>2, <4>3 DEF CreateStep
    <3>2. QED
      BY <3>1, AskedStays DEF AsksKept
  <2>2. CASE ReadForCancel(r)
    BY <1>1, <2>2 DEF ReadForCancel, AskedInv, Asked
  <2>3. CASE SetCancelKey(r)
    <3>1. \A q \in Runs : history'[q].cancelled <=> history[q].cancelled \/ q = r
      BY <1>1, <2>3 DEF SetCancelKey, Histories
    <3>2. UNCHANGED status /\ cancelKeys' = cancelKeys \cup {r}
          /\ \A q \in Runs \ {r} : cancel'[q] = cancel[q]
      BY <1>1, <2>3 DEF SetCancelKey, CancelGoto, CancelThrows
    <3>3. cancel[r] = "setKey"
      BY <2>3 DEF SetCancelKey
    <3>4. QED
      BY <3>1, <3>2, <3>3 DEF AskedInv, Asked
  <2>4. CASE AuditCancel(r) \/ CancelThrow(r)
    <3>1. UNCHANGED <<status, cancelKeys, history>> /\ cancel[r] # "idle"
          /\ \A q \in Runs \ {r} : cancel'[q] = cancel[q]
      BY <1>1, <2>4 DEF AuditCancel, CancelThrow, CancelGoto, CancelThrows
    <3>2. QED
      BY <3>1 DEF AskedInv, Asked
  <2>5. QED
    BY <2>1, <2>2, <2>3, <2>4 DEF RequestStep, CancelStep
<1>3. QED
  BY <1>1, <1>2 DEF AskedInv, AskedRun

LEMMA AskedStep == OrdinaryInv /\ RecordedInv /\ AskedInv /\ [Next]_vars => AskedInv'
<1> SUFFICES ASSUME OrdinaryInv, RecordedInv, AskedInv, [Next]_vars PROVE AskedInv'
  OBVIOUS
<1> USE DEF postgresVars, mirrorVars, redisVars, requestVars, ghostVars
<1>1. ASSUME NEW w \in Workers, ExecStep(w)
      PROVE  AskedInv'
  <2> DEFINE e == exec[w]
  <2>a. AskedRun(e)
    BY DEF AskedInv
  <2>1. CASE e.pc \in TryBody
    <3>1. PICK f : exec' = [exec EXCEPT ![w] = f] /\ TryTarget(e, f)
      BY <1>1, <2>1, TryStep DEF TryMove
    <3>2. AsksKept
      BY <1>1, <2>1, TryStores DEF TryFrame, AsksKept
    <3>3. f.outcome = "CANCELLED" => f.pc = "saveOutcome"
      BY <3>1 DEF TryTarget
    <3>4. e.run \in Runs
      BY <2>1, RunOf DEF TryBody
    <3>5. AskedRun(f)
      BY <3>1, <3>3, <3>4 DEF AskedRun, TryTarget, AskedInv, Asked
    <3>6. QED
      BY <3>1, <3>2, <3>5, AskedWorker
  <2>2. CASE e.pc \in Finishing \cup Finally
    <3>1. PICK f : /\ exec' = [exec EXCEPT ![w] = f] /\ f.run = e.run
                   /\ f.outcome \in {e.outcome, "FAILED"}
                   /\ Effect(e) \/ UNCHANGED storeVars
      BY <1>1, <2>2, FinishStep DEF FinishMove, Went, Failed, SameJob
    <3>2. AskedRun(f)
      BY <2>a, <3>1 DEF AskedRun
    <3>3. e.pc = "saveOutcome" => e.outcome \in Terminal
      BY DEF OrdinaryInv, TypeInv, Executing, WellFormed, Executions, Finishing
    <3>4. AsksKept
      <4>1. CASE Effect(e)
        <5>1. status \in [Runs -> Statuses]
          BY DEF OrdinaryInv, TypeInv, StoresTypeOK
        <5>2. QED
          BY <2>a, <3>3, <4>1, <5>1 DEF Effect, AsksKept, AskedRun, Terminal
      <4>2. CASE UNCHANGED storeVars
        BY <4>2 DEF storeVars, AsksKept
      <4>3. QED
        BY <3>1, <4>1, <4>2
    <3>5. QED
      BY <3>1, <3>2, <3>4, AskedWorker
  <2>3. CASE e.pc = "findRun"
    <3>1. PICK f : /\ exec' = [exec EXCEPT ![w] = f]
                   /\ f.run = e.run /\ f.outcome = e.outcome
      BY <1>1, <2>3, FindStep DEF FindMove, SameJob
    <3>2. AsksKept
      BY <1>1, <2>3, FindStep DEF storeVars, AsksKept
    <3>3. QED
      BY <2>a, <3>1, <3>2, AskedWorker DEF AskedRun
  <2>4. CASE SettleJob(w)
    <3>1. AsksKept
      BY <2>4 DEF SettleJob, AsksKept
    <3>2. QED
      BY <2>4, <3>1, IdleOrdinary, AskedWorker DEF SettleJob, AskedRun
  <2>5. QED
    BY <1>1, <2>1, <2>2, <2>3, <2>4, WorkerCases
<1>2. ASSUME NEW w \in Workers, WorkerCrash(w)
      PROVE  AskedInv'
  <2>1. AsksKept
    BY <1>2 DEF WorkerCrash, AsksKept
  <2>2. QED
    BY <1>2, <2>1, IdleOrdinary, AskedWorker DEF WorkerCrash, AskedRun
<1>3. ASSUME NEW w \in Workers, NEW r \in Runs, TakeJob(w, r)
      PROVE  AskedInv'
  <2>1. AsksKept
    BY <1>3 DEF TakeJob, AsksKept
  <2>2. PICK f : exec' = [exec EXCEPT ![w] = f] /\ f.outcome = "none"
    BY <1>3, TakeStep DEF TakeMove
  <2>3. QED
    BY <2>1, <2>2, AskedWorker DEF AskedRun
<1>4. ASSUME NEW r \in Runs, RequestStep(r) \/ QueueStep(r)
      PROVE  AskedInv'
  BY <1>4, AskedOutside
<1>5. CASE UNCHANGED vars
  <2>1. AsksKept /\ UNCHANGED <<exec, history>>
    BY <1>5 DEF vars, storeVars, AsksKept
  <2>2. QED
    BY <2>1, AskedStays DEF AskedInv, AskedRun
<1>6. QED
  BY <1>1, <1>2, <1>3, <1>4, <1>5 DEF Next, RequestStep, QueueStep

LEMMA AskedInvariant == Spec => []AskedInv
<1>1. Init => AskedInv
  BY IdleOrdinary DEF Init, AskedInv, Asked, AskedRun
<1>2. QED
  BY <1>1, AskedStep, OrdinaryInvariant, RecordedInvariant, PTL DEF Spec

\* A run is CANCELLED only after its own key was set, never by the key of another
\* run and never by a failure.
THEOREM CancelledOnRequest == Spec => []CancelledOnlyIfAsked
<1>1. AskedInv => CancelledOnlyIfAsked
  BY DEF AskedInv, Asked, CancelledOnlyIfAsked
<1>2. QED
  BY <1>1, AskedInvariant, PTL

-----------------------------------------------------------------------------
(* With PostgreSQL at work, an execution past its first finishRun has saved *)
(* an outcome, so that it forgets no cancellation that still matters.      *)

SavedStages == {"mirrorOutcome", "emitOutcome", "settleJob"} \cup Finally

SavedRun(e) == e.pc \in SavedStages => status[e.run] \in Terminal

SavedInv == \A w \in Workers : SavedRun(exec[w])

\* An outcome is replaced by another outcome at most, and only the request that
\* creates a run makes it RUNNING.
OutcomesKept ==
  \A r \in Runs :
    /\ status[r] \in Terminal => status'[r] \in Terminal
    /\ status'[r] = "RUNNING" => status[r] \in {"none", "RUNNING"}
    /\ status'[r] = "RUNNING" /\ status[r] = "none" =>
         create[r] = "idle" /\ create'[r] # "idle"

LEMMA StatusMoves ==
  ASSUME OrdinaryInv, RecordedInv, [Next]_vars
  PROVE  OutcomesKept
<1> USE DEF postgresVars, mirrorVars, redisVars, requestVars, ghostVars
<1>a. status \in [Runs -> Statuses] /\ create \in [Runs -> CreateStages]
  BY DEF OrdinaryInv, TypeInv, StoresTypeOK
<1>b. ASSUME UNCHANGED status PROVE OutcomesKept
  BY <1>b DEF OutcomesKept
<1>1. ASSUME NEW w \in Workers, ExecStep(w)
      PROVE  OutcomesKept
  <2> DEFINE e == exec[w]
  <2>1. CASE e.pc \in TryBody
    BY <1>1, <1>b, <2>1, TryStores DEF TryFrame
  <2>2. CASE e.pc \in Finishing \cup Finally
    <3>1. Effect(e) \/ UNCHANGED storeVars
      BY <1>1, <2>2, FinishStep DEF FinishMove
    <3>2. e.pc = "saveOutcome" => e.outcome \in Terminal
      BY DEF OrdinaryInv, TypeInv, Executing, WellFormed, Executions, Finishing
    <3>3. QED
      BY <1>a, <1>b, <3>1, <3>2 DEF Effect, storeVars, OutcomesKept, Terminal
  <2>3. CASE e.pc = "findRun"
    BY <1>1, <1>b, <2>3, FindStep DEF storeVars
  <2>4. CASE SettleJob(w)
    BY <1>b, <2>4 DEF SettleJob
  <2>5. QED
    BY <1>1, <2>1, <2>2, <2>3, <2>4, WorkerCases
<1>2. ASSUME NEW w \in Workers, WorkerCrash(w) \/ \E r \in Runs : TakeJob(w, r)
      PROVE  OutcomesKept
  BY <1>2, <1>b DEF WorkerCrash, TakeJob
<1>3. ASSUME NEW r \in Runs, RequestStep(r) \/ QueueStep(r)
      PROVE  OutcomesKept
  <2>1. CASE CreateRun(r)
    <3>1. create[r] = "idle" /\ create'[r] # "idle" /\ status[r] = "none"
      BY <1>a, <2>1 DEF CreateRun, CreateGoto, CreateThrows, Rescue, RecordedInv, Recorded
    <3>2. QED
      BY <1>a, <2>1, <3>1 DEF CreateRun, OutcomesKept, Terminal
  <2>2. CASE FailRow(r)
    BY <1>a, <2>2 DEF FailRow, OutcomesKept, Terminal
  <2>3. CASE \/ SetRun(r) \/ AuditCreated(r) \/ Enqueue(r) \/ FailDocument(r)
             \/ CreateThrow(r) \/ ApiCrash(r) \/ ReadForCancel(r) \/ CancelStep(r)
             \/ KeyExpires(r) \/ QueueStep(r)
    BY <1>b, <2>3 DEF SetRun, AuditCreated, Enqueue, FailDocument, CreateThrow,
       ApiCrash, ReadForCancel, CancelStep, SetCancelKey, AuditCancel, CancelThrow,
       KeyExpires, QueueStep, RecoverJob, LoseLock, SandboxExpires
  <2>4. QED
    BY <1>3, <2>1, <2>2, <2>3 DEF RequestStep, CreateStep
<1>4. CASE UNCHANGED vars
  BY <1>4, <1>b DEF vars, storeVars
<1>5. QED
  BY <1>1, <1>2, <1>3, <1>4 DEF Next, RequestStep, QueueStep

LEMMA SavedWorker ==
  ASSUME OrdinaryInv, SavedInv, OutcomesKept, NEW w \in Workers, NEW f,
         exec' = [exec EXCEPT ![w] = f], SavedRun(f)', f.run \in Runs \/ f.pc = "idle"
  PROVE  SavedInv'
<1>1. ASSUME NEW v \in Workers
      PROVE  SavedRun(exec[v])'
  <2>1. CASE v = w
    <3>1. exec'[v] = f
      BY <2>1, ExecTyped
    <3>2. QED
      BY <3>1 DEF SavedRun
  <2>2. CASE v # w
    <3>1. exec'[v] = exec[v]
      BY <2>2, ExecTyped
    <3>2. exec[v].pc \in SavedStages => exec[v].run \in Runs
      BY RunOf DEF SavedStages, Finally
    <3>3. QED
      BY <3>1, <3>2 DEF SavedInv, SavedRun, OutcomesKept
  <2>3. QED
    BY <2>1, <2>2
<1>2. QED
  BY <1>1 DEF SavedInv

LEMMA SavedStep ==
  ASSUME "postgres" \notin Faults
  PROVE  OrdinaryInv /\ RecordedInv /\ SavedInv /\ [Next]_vars => SavedInv'
<1> SUFFICES ASSUME OrdinaryInv, RecordedInv, SavedInv, [Next]_vars PROVE SavedInv'
  OBVIOUS
<1>a. OutcomesKept
  BY StatusMoves
<1>b. status \in [Runs -> Statuses]
  BY DEF OrdinaryInv, TypeInv, StoresTypeOK
<1>1. ASSUME NEW w \in Workers, ExecStep(w)
      PROVE  SavedInv'
  <2> DEFINE e == exec[w]
  <2>1. CASE e.pc \in TryBody
    <3>1. PICK f : exec' = [exec EXCEPT ![w] = f] /\ TryTarget(e, f)
      BY <1>1, <2>1, TryStep DEF TryMove
    <3>2. SavedRun(f)'
      BY <3>1 DEF TryTarget, SavedRun, SavedStages, TryBody, Finally
    <3>3. f.run \in Runs
      BY <2>1, <3>1, RunOf DEF TryTarget, TryBody
    <3>4. QED
      BY <1>a, <3>1, <3>2, <3>3, SavedWorker
  <2>2. CASE e.pc \in Finishing \cup Finally
    <3>1. PICK f : /\ exec' = [exec EXCEPT ![w] = f] /\ SameJob(e, f)
                   /\ \/ Went(e, f) /\ Effect(e)
                      \/ Failed(e, f)
      BY <1>1, <2>2, FinishStep DEF FinishMove, Went, Failed
    <3>2. e.run \in Runs
      BY <2>2, RunOf DEF Finishing, Finally
    <3>3. CASE e.pc = "saveOutcome"
      <4>1. ServiceOf["saveOutcome"] = "postgres"
        BY DEF ServiceOf, ExecStages, Finishing
      <4>2. Effect(e)
        BY <3>1, <3>3, <4>1 DEF Failed
      <4>3. e.outcome \in Terminal
        BY <3>3 DEF OrdinaryInv, TypeInv, Executing, WellFormed, Executions, Finishing
      <4>4. status'[f.run] \in Terminal
        BY <1>b, <3>1, <3>2, <3>3, <4>2, <4>3 DEF Effect, SameJob
      <4>5. QED
        BY <1>a, <3>1, <3>2, <4>4, SavedWorker DEF SavedRun, SameJob
    <3>4. CASE e.pc # "saveOutcome"
      <4>1. e.pc \in SavedStages
        BY <2>2, <3>4 DEF Finishing, SavedStages
      <4>2. status'[f.run] \in Terminal
        BY <1>a, <3>1, <3>2, <4>1 DEF SavedInv, SavedRun, OutcomesKept, SameJob
      <4>3. QED
        BY <1>a, <3>1, <3>2, <4>2, SavedWorker DEF SavedRun, SameJob
    <3>5. QED
      BY <3>3, <3>4
  <2>3. CASE e.pc = "findRun"
    <3>1. PICK f : /\ exec' = [exec EXCEPT ![w] = f] /\ f.run = e.run
                   /\ \/ f.pc = "settleJob" /\ status[e.run] # "RUNNING"
                      \/ f.pc = "createSandbox"
      BY <1>1, <2>3, FindStep DEF FindMove, SameJob
    <3>2. e.run \in Runs /\ status[e.run] # "none"
      BY <2>3, RunOf DEF RecordedInv, Recorded, OfferedRun, Offered
    <3>3. status' = status
      BY <1>1, <2>3, FindStep DEF storeVars, postgresVars
    <3>4. SavedRun(f)'
      BY <1>b, <3>1, <3>2, <3>3 DEF SavedRun, SavedStages, Finally, Statuses
    <3>5. QED
      BY <1>a, <3>1, <3>2, <3>4, SavedWorker
  <2>4. CASE SettleJob(w)
    <3>1. SavedRun(Idle)'
      BY IdleOrdinary DEF SavedRun, SavedStages, Finally
    <3>2. QED
      BY <1>a, <2>4, <3>1, IdleOrdinary, SavedWorker DEF SettleJob
  <2>5. QED
    BY <1>1, <2>1, <2>2, <2>3, <2>4, WorkerCases
<1>2. ASSUME NEW w \in Workers, WorkerCrash(w)
      PROVE  SavedInv'
  <2>1. SavedRun(Idle)'
    BY IdleOrdinary DEF SavedRun, SavedStages, Finally
  <2>2. QED
    BY <1>a, <1>2, <2>1, IdleOrdinary, SavedWorker DEF WorkerCrash
<1>3. ASSUME NEW w \in Workers, NEW r \in Runs, TakeJob(w, r)
      PROVE  SavedInv'
  <2>1. PICK f : exec' = [exec EXCEPT ![w] = f] /\ f.pc = "findRun" /\ f.run = r
    BY <1>3, TakeStep DEF TakeMove
  <2>2. SavedRun(f)'
    BY <2>1 DEF SavedRun, SavedStages, Finally
  <2>3. QED
    BY <1>a, <2>1, <2>2, SavedWorker
<1>4. ASSUME UNCHANGED exec
      PROVE  SavedInv'
  <2>1. \A w \in Workers : exec[w].pc \in SavedStages => exec[w].run \in Runs
    BY RunOf DEF SavedStages, Finally
  <2>2. QED
    BY <1>a, <1>4, <2>1 DEF SavedInv, SavedRun, OutcomesKept
<1>5. QED
  BY <1>1, <1>2, <1>3, <1>4, OutsideStep DEF Next, RequestStep, QueueStep, vars

LEMMA SavedInvariant ==
  ASSUME "postgres" \notin Faults
  PROVE  Spec => []SavedInv
<1>1. Init => SavedInv
  BY IdleOrdinary DEF Init, SavedInv, SavedRun, SavedStages, Finally
<1>2. QED
  BY <1>1, SavedStep, OrdinaryInvariant, RecordedInvariant, PTL DEF Spec

\* Only clearCancel, the last call of an execution, and the key's TTL delete a key.
LEMMA KeysStay ==
  ASSUME OrdinaryInv, [Next]_vars, NEW r \in cancelKeys, r \notin cancelKeys'
  PROVE  \/ KeysExpire
         \/ \E w \in Workers : /\ exec[w].pc = "clearCancel" /\ exec[w].run = r
                              /\ exec'[w].pc = "settleJob" /\ exec'[w].run = r
<1> USE DEF postgresVars, mirrorVars, redisVars, requestVars, ghostVars
<1>1. ASSUME NEW w \in Workers, ExecStep(w)
      PROVE  /\ exec[w].pc = "clearCancel" /\ exec[w].run = r
             /\ exec'[w].pc = "settleJob" /\ exec'[w].run = r
  <2>1. CASE exec[w].pc \in TryBody
    BY <1>1, <2>1, TryStores DEF TryFrame
  <2>2. CASE exec[w].pc \in Finishing \cup Finally
    <3>1. PICK f : /\ exec' = [exec EXCEPT ![w] = f]
                   /\ Went(exec[w], f) \/ Failed(exec[w], f)
                   /\ Effect(exec[w]) \/ UNCHANGED storeVars
      BY <1>1, <2>2, FinishStep DEF FinishMove
    <3>2. exec[w].pc = "clearCancel" /\ exec[w].run = r
      BY <3>1 DEF Effect, storeVars
    <3>3. f.pc = "settleJob" /\ f.run = r
      BY <3>1, <3>2 DEF Went, Failed, SameJob, After, Caught, Unwound, TryBody, Finishing
    <3>4. QED
      BY <3>1, <3>2, <3>3, ExecTyped
  <2>3. CASE exec[w].pc = "findRun"
    BY <1>1, <2>3, FindStep DEF storeVars
  <2>4. CASE SettleJob(w)
    BY <2>4 DEF SettleJob
  <2>5. QED
    BY <1>1, <2>1, <2>2, <2>3, <2>4, WorkerCases
<1>2. ASSUME NEW w \in Workers, WorkerCrash(w) \/ \E q \in Runs : TakeJob(w, q)
      PROVE  FALSE
  BY <1>2 DEF WorkerCrash, TakeJob
<1>3. ASSUME NEW q \in Runs, RequestStep(q) \/ QueueStep(q)
      PROVE  KeysExpire
  <2>1. CASE CreateRun(q) \/ CreateStep(q) \/ ApiCrash(q)
    BY <2>1 DEF CreateRun, CreateStep, SetRun, AuditCreated, Enqueue, FailRow,
       FailDocument, CreateThrow, ApiCrash
  <2>2. CASE ReadForCancel(q) \/ CancelStep(q) \/ KeyExpires(q)
    BY <2>2 DEF ReadForCancel, CancelStep, SetCancelKey, AuditCancel, CancelThrow,
       KeyExpires
  <2>3. CASE QueueStep(q)
    BY <2>3 DEF QueueStep, RecoverJob, LoseLock, SandboxExpires
  <2>4. QED
    BY <1>3, <2>1, <2>2, <2>3 DEF RequestStep
<1>4. ~ UNCHANGED vars
  BY DEF vars, storeVars
<1>5. QED
  BY <1>1, <1>2, <1>3, <1>4 DEF Next, RequestStep, QueueStep

\* A cancellation is acknowledged with its key.
LEMMA AcknowledgedWithKey ==
  ASSUME OrdinaryInv, [Next]_vars, NEW r \in Runs,
         history'[r].cancelled, ~ history[r].cancelled
  PROVE  r \in cancelKeys'
<1> USE DEF postgresVars, mirrorVars, redisVars, requestVars, ghostVars
<1>1. ASSUME NEW w \in Workers, ExecStep(w)
      PROVE  FALSE
  <2>1. CASE exec[w].pc \in TryBody
    BY <1>1, <2>1, TryStores DEF TryFrame
  <2>2. CASE exec[w].pc \in Finishing \cup Finally
    <3>1. Effect(exec[w]) \/ UNCHANGED storeVars
      BY <1>1, <2>2, FinishStep DEF FinishMove
    <3>2. QED
      BY <3>1 DEF Effect, storeVars
  <2>3. CASE exec[w].pc = "findRun"
    BY <1>1, <2>3, FindStep DEF storeVars
  <2>4. CASE SettleJob(w)
    BY <2>4 DEF SettleJob
  <2>5. QED
    BY <1>1, <2>1, <2>2, <2>3, <2>4, WorkerCases
<1>2. ASSUME NEW w \in Workers, WorkerCrash(w) \/ \E q \in Runs : TakeJob(w, q)
      PROVE  FALSE
  BY <1>2 DEF WorkerCrash, TakeJob
<1>3. ASSUME NEW q \in Runs, RequestStep(q) \/ QueueStep(q)
      PROVE  r \in cancelKeys'
  <2>1. CASE CreateRun(q) \/ CreateStep(q) \/ ApiCrash(q)
    BY <2>1 DEF CreateRun, CreateStep, SetRun, AuditCreated, Enqueue, FailRow,
       FailDocument, CreateThrow, ApiCrash
  <2>2. CASE ReadForCancel(q) \/ AuditCancel(q) \/ CancelThrow(q) \/ KeyExpires(q)
    BY <2>2 DEF ReadForCancel, AuditCancel, CancelThrow, KeyExpires
  <2>3. CASE QueueStep(q)
    BY <2>3 DEF QueueStep, RecoverJob, LoseLock, SandboxExpires
  <2>4. CASE SetCancelKey(q)
    <3>1. history \in [Runs -> Histories]
      BY DEF OrdinaryInv, TypeInv, StoresTypeOK
    <3>2. r = q
      BY <2>4, <3>1 DEF SetCancelKey, Histories
    <3>3. QED
      BY <2>4, <3>2 DEF SetCancelKey
  <2>5. QED
    BY <1>3, <2>1, <2>2, <2>3, <2>4 DEF RequestStep, CancelStep
<1>4. ~ UNCHANGED vars
  BY DEF vars, storeVars
<1>5. QED
  BY <1>1, <1>2, <1>3, <1>4 DEF Next, RequestStep, QueueStep

\* While PostgreSQL answers and no TTL runs out, an acknowledged cancellation waits
\* for the execution as long as the run is RUNNING, through every crash, lapsed
\* lock and retry: what deletes the key has saved an outcome before.
THEOREM CancellationWaits ==
  ASSUME "postgres" \notin Faults, ~ KeysExpire
  PROVE  Spec => []CancelRequestKept
<1>1. Init => CancelRequestKept
  BY DEF Init, CancelRequestKept
<1>2. OrdinaryInv /\ RecordedInv /\ AskedInv /\ SavedInv /\ CancelRequestKept
      /\ [Next]_vars => CancelRequestKept'
  <2> SUFFICES ASSUME OrdinaryInv, RecordedInv, AskedInv, SavedInv, CancelRequestKept,
                      [Next]_vars, NEW r \in Runs,
                      history'[r].cancelled, status'[r] = "RUNNING",
                      r \notin cancelKeys'
               PROVE  FALSE
    BY DEF CancelRequestKept
  <2>1. history[r].cancelled
    BY AcknowledgedWithKey
  <2>2. status[r] = "RUNNING"
    <3>1. status[r] \in {"none", "RUNNING"}
      BY StatusMoves DEF OutcomesKept
    <3>2. status[r] # "none"
      BY <2>1 DEF AskedInv, Asked
    <3>3. QED
      BY <3>1, <3>2
  <2>3. r \in cancelKeys
    BY <2>1, <2>2 DEF CancelRequestKept
  <2>4. PICK w \in Workers : exec[w].pc = "clearCancel" /\ exec[w].run = r
    BY <2>3, KeysStay
  <2>5. status[r] \in Terminal
    BY <2>4 DEF SavedInv, SavedRun, SavedStages, Finally
  <2>6. QED
    BY <2>2, <2>5 DEF Terminal
<1>3. QED
  BY <1>1, <1>2, OrdinaryInvariant, RecordedInvariant, AskedInvariant, SavedInvariant,
     PTL DEF Spec

-----------------------------------------------------------------------------
(* No path out of execute leaves a sandbox behind.                         *)

Owning == TryBody \cup Finishing \cup {"killSandbox"}

Owns(e, r, a) == e.run = r /\ e.attempt = a /\ e.sandbox /\ e.pc \in Owning

\* The steps of the queue and of the requests start no sandbox.
LEMMA SandboxesStay ==
  ASSUME NEW r \in Runs, RequestStep(r) \/ QueueStep(r),
         OrdinaryInv
  PROVE  \A q \in Runs : sandboxes'[q] \subseteq sandboxes[q]
<1>1. CASE CreateRun(r) \/ CreateStep(r) \/ ApiCrash(r)
  BY <1>1 DEF CreateRun, CreateStep, SetRun, AuditCreated, Enqueue, FailRow,
     FailDocument, CreateThrow, ApiCrash
<1>2. CASE ReadForCancel(r) \/ CancelStep(r) \/ KeyExpires(r)
  BY <1>2 DEF ReadForCancel, CancelStep, SetCancelKey, AuditCancel, CancelThrow,
     KeyExpires
<1>3. CASE RecoverJob(r) \/ LoseLock(r)
  BY <1>3 DEF RecoverJob, LoseLock
<1>4. ASSUME NEW a \in sandboxes[r], SandboxExpires(r, a)
      PROVE  \A q \in Runs : sandboxes'[q] \subseteq sandboxes[q]
  <2>1. sandboxes \in [Runs -> SUBSET Nat]
    BY DEF OrdinaryInv, TypeInv, StoresTypeOK
  <2>2. sandboxes' = [sandboxes EXCEPT ![r] = @ \ {a}]
    BY <1>4 DEF SandboxExpires
  <2>3. QED
    BY <2>1, <2>2
<1>5. QED
  BY <1>1, <1>2, <1>3, <1>4 DEF RequestStep, QueueStep

\* What happens at createSandbox, with E2B at work.
LEMMA SandboxCreated ==
  ASSUME OrdinaryInv, NEW w \in Workers, ExecStep(w), exec[w].pc = "createSandbox",
         "e2b" \notin Faults
  PROVE  /\ sandboxes' = [sandboxes EXCEPT ![exec[w].run] = @ \cup {exec[w].attempt}]
         /\ exec' = [exec EXCEPT ![w] = [exec[w] EXCEPT !.pc = "saveSandbox",
                                                         !.sandbox = TRUE]]
<1>1. ~ CallThrows(w)
  <2>1. ServiceOf["createSandbox"] = "e2b"
    BY DEF ServiceOf, ExecStages, TryBody
  <2>2. QED
    BY <2>1 DEF CallThrows
<1>2. CASE CreateSandbox(w)
  BY <1>1, <1>2 DEF CreateSandbox, Answered
<1>3. ~ (CallFails(w) \/ FindRun(w) \/ SettleJob(w) \/ SaveSandbox(w)
         \/ MirrorSandbox(w) \/ EmitStarted(w) \/ CountSteps(w) \/ CheckCancel(w)
         \/ CallModel(w) \/ InsertStep(w))
  BY <1>1 DEF CallFails, FindRun, SettleJob, SaveSandbox, MirrorSandbox,
     EmitStarted, CountSteps, CheckCancel, CallModel, InsertStep
<1>4. ~ (MirrorStep(w) \/ EmitStep(w) \/ RunTool(w) \/ SaveOutcome(w)
         \/ MirrorOutcome(w) \/ EmitOutcome(w) \/ KillSandbox(w) \/ EndStream(w)
         \/ ClearCancel(w))
  BY DEF MirrorStep, EmitStep, RunTool, SaveOutcome, MirrorOutcome, EmitOutcome,
     KillSandbox, EndStream, ClearCancel
<1>5. QED
  BY <1>2, <1>3, <1>4 DEF ExecStep

\* A step of w keeps every sandbox owned if w still owns what it owned.
LEMMA OwnedWorker ==
  ASSUME OrdinaryInv, SandboxesOwned, NEW w \in Workers, NEW f,
         exec' = [exec EXCEPT ![w] = f],
         NEW r \in Runs, NEW a \in sandboxes[r],
         Owns(exec[w], r, a) => Owns(f, r, a)
  PROVE  \E v \in Workers : Owns(exec'[v], r, a)
<1>1. PICK v \in Workers : Owns(exec[v], r, a)
  BY DEF SandboxesOwned, Owns, Owning
<1>2. CASE v = w
  <2>1. exec'[v] = f
    BY <1>2, ExecTyped
  <2>2. QED
    BY <1>1, <1>2, <2>1
<1>3. CASE v # w
  <2>1. exec'[v] = exec[v]
    BY <1>3, ExecTyped
  <2>2. QED
    BY <1>1, <2>1
<1>4. QED
  BY <1>2, <1>3

LEMMA OwnedExecStep ==
  ASSUME OrdinaryInv, SandboxesOwned, NEW w \in Workers, ExecStep(w),
         "e2b" \notin Faults, NEW r \in Runs, NEW a \in sandboxes'[r]
  PROVE  \E v \in Workers : Owns(exec'[v], r, a)
<1> USE DEF postgresVars, mirrorVars, redisVars, requestVars, ghostVars
<1> DEFINE e == exec[w]
<1>a. e \in Executions /\ sandboxes \in [Runs -> SUBSET Nat]
  BY DEF OrdinaryInv, TypeInv, StoresTypeOK, Executing
<1>1. CASE e.pc = "createSandbox"
  <2> DEFINE f == [e EXCEPT !.pc = "saveSandbox", !.sandbox = TRUE]
  <2>1. /\ sandboxes' = [sandboxes EXCEPT ![e.run] = @ \cup {e.attempt}]
        /\ exec' = [exec EXCEPT ![w] = f]
    BY <1>1, SandboxCreated
  <2>2. /\ f.run = e.run /\ f.attempt = e.attempt /\ f.sandbox /\ f.pc \in Owning
    BY <1>a DEF Executions, Owning, TryBody
  <2> HIDE DEF f
  <2>3. CASE r = e.run /\ a = e.attempt
    <3>1. exec'[w] = f
      BY <2>1, ExecTyped
    <3>2. QED
      BY <2>2, <2>3, <3>1 DEF Owns
  <2>4. CASE ~ (r = e.run /\ a = e.attempt)
    <3>1. a \in sandboxes[r]
      BY <1>a, <2>1, <2>4
    <3>2. ~ Owns(e, r, a)
      BY <2>4 DEF Owns
    <3>3. QED
      BY <2>1, <3>1, <3>2, OwnedWorker
  <2>5. QED
    BY <2>3, <2>4
<1>2. CASE e.pc \in TryBody \ {"createSandbox"}
  <2>1. PICK f : exec' = [exec EXCEPT ![w] = f] /\ TryTarget(e, f)
    BY <1>2, TryStep DEF TryMove
  <2>2. a \in sandboxes[r]
    BY <1>2, TryStores
  <2>3. Owns(e, r, a) => Owns(f, r, a)
    BY <1>2, <2>1 DEF TryTarget, Owns, Owning, Finishing
  <2>4. QED
    BY <2>1, <2>2, <2>3, OwnedWorker
<1>3. CASE e.pc \in Finishing \cup Finally
  <2>1. PICK f : /\ exec' = [exec EXCEPT ![w] = f] /\ SameJob(e, f)
                 /\ \/ Went(e, f) /\ Effect(e)
                    \/ Failed(e, f) /\ UNCHANGED storeVars
                    \/ Failed(e, f) /\ Effect(e)
    BY <1>3, FinishStep DEF FinishMove, Went, Failed
  <2>2. CASE e.pc = "killSandbox"
    <3>1. ServiceOf["killSandbox"] = "e2b"
      BY DEF ServiceOf, ExecStages, Finally
    <3>2. Effect(e)
      BY <2>1, <2>2, <3>1 DEF Failed
    <3>3. a \in sandboxes[r] /\ ~ Owns(e, r, a)
      BY <1>a, <2>2, <3>2 DEF Effect, Owns
    <3>4. QED
      BY <2>1, <3>3, OwnedWorker
  <2>3. CASE e.pc # "killSandbox"
    <3>1. a \in sandboxes[r]
      BY <2>1, <2>3 DEF Effect, storeVars
    <3>2. Owns(e, r, a) => e.pc \in Finishing
      BY <1>3, <2>3 DEF Owns, Owning, TryBody, Finishing, Finally
    <3>3. e.pc \in Finishing => f.pc \in Owning
      BY <2>1 DEF Went, Failed, After, Caught, Unwound, Finishing, Owning
    <3>4. Owns(e, r, a) => Owns(f, r, a)
      BY <2>1, <3>2, <3>3 DEF Owns, SameJob
    <3>5. QED
      BY <2>1, <3>1, <3>4, OwnedWorker
  <2>4. QED
    BY <2>2, <2>3
<1>4. CASE e.pc = "findRun"
  <2>1. PICK f : exec' = [exec EXCEPT ![w] = f]
    BY <1>4, FindStep DEF FindMove
  <2>2. a \in sandboxes[r] /\ ~ Owns(e, r, a)
    BY <1>4, FindStep DEF storeVars, Owns, Owning, TryBody, Finishing
  <2>3. QED
    BY <2>1, <2>2, OwnedWorker
<1>5. CASE SettleJob(w)
  <2>1. exec' = [exec EXCEPT ![w] = Idle] /\ a \in sandboxes[r]
    BY <1>5 DEF SettleJob
  <2>2. ~ Owns(e, r, a)
    BY <1>5 DEF SettleJob, Owns, Owning, TryBody, Finishing
  <2>3. QED
    BY <2>1, <2>2, OwnedWorker
<1>6. QED
  BY <1>1, <1>2, <1>3, <1>4, <1>5, WorkerCases

\* As long as E2B does what it is asked to and no worker dies, a live sandbox has
\* the execution that created it, with the kill of its finally clause still to
\* come, however the other services fail and however many executions of the run
\* there are.
THEOREM NoSandboxLeaks ==
  ASSUME "e2b" \notin Faults, MaxWorkerCrashes = 0
  PROVE  Spec => []SandboxesOwned
<1>1. Init => SandboxesOwned
  BY DEF Init, SandboxesOwned
<1>2. OrdinaryInv /\ SandboxesOwned /\ [Next]_vars => SandboxesOwned'
  <2> SUFFICES ASSUME OrdinaryInv, SandboxesOwned, [Next]_vars,
                      NEW r \in Runs, NEW a \in sandboxes'[r]
               PROVE  \E v \in Workers : Owns(exec'[v], r, a)
    BY DEF SandboxesOwned, Owns, Owning
  <2>1. ASSUME NEW w \in Workers, ExecStep(w)
        PROVE  \E v \in Workers : Owns(exec'[v], r, a)
    BY <2>1, OwnedExecStep
  <2>2. ASSUME NEW w \in Workers, WorkerCrash(w)
        PROVE  FALSE
    BY <2>2 DEF WorkerCrash, OrdinaryInv, TypeInv, StoresTypeOK, Budgets
  <2>3. ASSUME NEW w \in Workers, NEW q \in Runs, TakeJob(w, q)
        PROVE  \E v \in Workers : Owns(exec'[v], r, a)
    <3>1. PICK f : exec' = [exec EXCEPT ![w] = f]
      BY <2>3 DEF TakeJob
    <3>2. a \in sandboxes[r] /\ ~ Owns(exec[w], r, a)
      BY <2>3 DEF TakeJob, Owns, Owning, TryBody, Finishing
    <3>3. QED
      BY <3>1, <3>2, OwnedWorker
  <2>4. ASSUME UNCHANGED exec, sandboxes'[r] \subseteq sandboxes[r]
        PROVE  \E v \in Workers : Owns(exec'[v], r, a)
    BY <2>4 DEF SandboxesOwned, Owns, Owning
  <2>5. ASSUME NEW q \in Runs, RequestStep(q) \/ QueueStep(q)
        PROVE  \E v \in Workers : Owns(exec'[v], r, a)
    BY <2>4, <2>5, OutsideStep, SandboxesStay
  <2>6. CASE UNCHANGED vars
    BY <2>4, <2>6 DEF vars, storeVars
  <2>7. QED
    BY <2>1, <2>2, <2>3, <2>5, <2>6 DEF Next, RequestStep, QueueStep
<1>3. QED
  BY <1>1, <1>2, OrdinaryInvariant, PTL DEF Spec

-----------------------------------------------------------------------------
(* A run that is RUNNING has somebody who will end it.                     *)

Held(r) == \E w \in Workers : Holds(w, r)

\* A job is at most one stall behind: active, with nobody at work on it.
Unheld(r) == IF job[r].state = "active" /\ ~ Held(r) THEN 1 ELSE 0

\* Every stall of a job of a RUNNING run is the death of a worker or a lapsed lock,
\* so the queue has not given up on it.
Awaited(r) ==
  /\ create[r] = "lost" => MaxApiCrashes # 0
  /\ create[r] \in {"compensateMirror", "rejected"} => status[r] \in Terminal
  /\ create[r] = "accepted" => job[r].state # "none"
  /\ job[r].state = "none" => job[r].stalls = 0
  /\ status[r] = "RUNNING" =>
       /\ job[r].state # "done"
       /\ job[r].stalls + Unheld(r) <= spent.workerCrashes + spent.lockLosses

OrphanInv ==
  /\ spent.workerCrashes <= MaxWorkerCrashes /\ spent.lockLosses <= MaxLockLosses
  /\ \A r \in Runs : Awaited(r)

\* What no step but the request's changes, and what makes a run RUNNING.
LEMMA AwaitedTyped ==
  ASSUME OrdinaryInv
  PROVE  /\ job \in [Runs -> Jobs] /\ \A r \in Runs : job[r].stalls \in Nat
         /\ spent \in Budgets /\ spent.workerCrashes \in Nat /\ spent.lockLosses \in Nat
         /\ status \in [Runs -> Statuses] /\ create \in [Runs -> CreateStages]
  BY DEF OrdinaryInv, TypeInv, StoresTypeOK, Jobs, Budgets

\* A step that leaves the job and the request of r alone, and its holder if the step
\* spends nothing.
LEMMA AwaitedStays ==
  ASSUME OrdinaryInv, OrphanInv, OutcomesKept, NEW r \in Runs,
         job'[r] = job[r], create'[r] = create[r],
         \/ UNCHANGED spent /\ (Held(r) => Held(r)')
         \/ spent' = [spent EXCEPT !.workerCrashes = @ + 1]
         \/ spent' = [spent EXCEPT !.lockLosses = @ + 1]
  PROVE  Awaited(r)'
<1>1. /\ job[r].stalls \in Nat /\ spent \in Budgets
      /\ spent.workerCrashes \in Nat /\ spent.lockLosses \in Nat
  BY AwaitedTyped
<1>2. /\ status[r] \in Terminal => status'[r] \in Terminal
      /\ status'[r] = "RUNNING" => status[r] = "RUNNING"
  BY DEF OutcomesKept
<1>3. ASSUME status'[r] = "RUNNING"
      PROVE  job'[r].stalls + Unheld(r)' <= spent'.workerCrashes + spent'.lockLosses
  <2>1. job[r].stalls + Unheld(r) <= spent.workerCrashes + spent.lockLosses
    BY <1>2, <1>3 DEF OrphanInv, Awaited
  <2>2. CASE UNCHANGED spent /\ (Held(r) => Held(r)')
    <3>1. Unheld(r)' \in {0, Unheld(r)} /\ Unheld(r) \in {0, 1}
      BY <2>2 DEF Unheld
    <3>2. QED
      BY <1>1, <2>1, <2>2, <3>1
  <2>3. CASE \/ spent' = [spent EXCEPT !.workerCrashes = @ + 1]
             \/ spent' = [spent EXCEPT !.lockLosses = @ + 1]
    <3>1. spent'.workerCrashes + spent'.lockLosses
            = spent.workerCrashes + spent.lockLosses + 1
      BY <1>1, <2>3 DEF Budgets
    <3>2. Unheld(r)' \in {0, 1} /\ Unheld(r) \in {0, 1}
      BY DEF Unheld
    <3>3. QED
      BY <1>1, <2>1, <3>1, <3>2
  <2>4. QED
    BY <2>2, <2>3
<1>4. QED
  BY <1>2, <1>3 DEF OrphanInv, Awaited

LEMMA HeldMoves ==
  ASSUME OrdinaryInv, NEW w \in Workers, NEW f, exec' = [exec EXCEPT ![w] = f],
         NEW r \in Runs, job'[r] = job[r],
         exec[w].run = r => f.run = r /\ f.attempt = exec[w].attempt
  PROVE  Held(r) => Held(r)'
<1> SUFFICES ASSUME NEW v \in Workers, exec[v].run = r, exec[v].attempt = job[r].attempt
             PROVE  exec'[v].run = r /\ exec'[v].attempt = job[r].attempt
  BY DEF Held, Holds
<1>1. exec'[v] = IF v = w THEN f ELSE exec[v]
  BY ExecTyped
<1>2. QED
  BY <1>1

\* A job that stalls goes back to the queue if its run is RUNNING.
LEMMA StalledAwaited ==
  ASSUME OrdinaryInv, OrphanInv, NEW r \in Runs, MoveStalled(r),
         MaxWorkerCrashes + MaxLockLosses <= MaxStalledCount,
         UNCHANGED <<status, create, exec>>,
         \/ ~ Held(r) /\ UNCHANGED spent
         \/ /\ spent.lockLosses < MaxLockLosses
            /\ spent' = [spent EXCEPT !.lockLosses = @ + 1]
  PROVE  Awaited(r)'
<1>1. /\ job \in [Runs -> Jobs] /\ job[r].stalls \in Nat /\ spent \in Budgets
      /\ spent.workerCrashes \in Nat /\ spent.lockLosses \in Nat
  BY AwaitedTyped
<1>2. /\ job[r].state = "active" /\ job'[r].stalls = job[r].stalls + 1
      /\ job'[r].state = IF job[r].stalls < MaxStalledCount THEN "waiting" ELSE "done"
  BY <1>1 DEF MoveStalled
<1>3. ASSUME status[r] = "RUNNING"
      PROVE  /\ job[r].stalls < MaxStalledCount
             /\ job[r].stalls + 1 <= spent'.workerCrashes + spent'.lockLosses
  <2>1. job[r].stalls + Unheld(r) <= spent.workerCrashes + spent.lockLosses
    BY <1>3 DEF OrphanInv, Awaited
  <2>2. spent.workerCrashes <= MaxWorkerCrashes /\ spent.lockLosses <= MaxLockLosses
    BY DEF OrphanInv
  <2>3. CASE ~ Held(r) /\ UNCHANGED spent
    <3>1. Unheld(r) = 1
      BY <1>2, <2>3 DEF Unheld
    <3>2. QED
      BY <1>1, <2>1, <2>2, <2>3, <3>1, StalledAssumption, BudgetAssumption
  <2>4. CASE /\ spent.lockLosses < MaxLockLosses
             /\ spent' = [spent EXCEPT !.lockLosses = @ + 1]
    <3>1. Unheld(r) \in {0, 1}
      BY DEF Unheld
    <3>2. /\ spent'.workerCrashes = spent.workerCrashes
          /\ spent'.lockLosses = spent.lockLosses + 1
      BY <1>1, <2>4 DEF Budgets
    <3>3. QED
      BY <1>1, <2>1, <2>2, <2>4, <3>1, <3>2, StalledAssumption, BudgetAssumption
  <2>5. QED
    BY <2>3, <2>4
<1>4. status'[r] = "RUNNING" => job'[r].state = "waiting" /\ Unheld(r)' = 0
  BY <1>2, <1>3 DEF Unheld
<1>5. job'[r].stalls + 0 = job[r].stalls + 1
  BY <1>1, <1>2
<1>6. status'[r] = "RUNNING" =>
        job'[r].stalls + Unheld(r)' <= spent'.workerCrashes + spent'.lockLosses
  BY <1>3, <1>4, <1>5
<1>7. QED
  BY <1>2, <1>4, <1>6 DEF OrphanInv, Awaited

LEMMA OrphanCreate ==
  ASSUME OrdinaryInv, RecordedInv, OrphanInv, OutcomesKept, NEW r \in Runs,
         CreateRun(r) \/ CreateStep(r), "postgres" \notin Faults
  PROVE  OrphanInv'
<1> USE DEF postgresVars, mirrorVars, redisVars, requestVars, ghostVars
<1>1. /\ job \in [Runs -> Jobs] /\ \A q \in Runs : job[q].stalls \in Nat
      /\ spent \in Budgets /\ spent.workerCrashes \in Nat /\ spent.lockLosses \in Nat
      /\ status \in [Runs -> Statuses] /\ create \in [Runs -> CreateStages]
  BY AwaitedTyped
<1>3. UNCHANGED <<spent, exec>>
  <2>1. UNCHANGED spent
    BY DEF CreateRun, CreateStep, SetRun, AuditCreated, Enqueue, FailRow,
       FailDocument, CreateThrow
  <2>2. QED
    BY <2>1, OutsideStep DEF RequestStep
<1>4. ASSUME NEW q \in Runs, q # r
      PROVE  Awaited(q)'
  <2>1. job'[q] = job[q] /\ create'[q] = create[q]
    <3>1. CASE CreateRun(r) \/ SetRun(r) \/ AuditCreated(r) \/ CreateThrow(r)
      BY <1>1, <1>4, <3>1 DEF CreateRun, SetRun, AuditCreated, CreateThrow, CreateGoto,
         CreateThrows
    <3>2. CASE Enqueue(r) \/ FailRow(r) \/ FailDocument(r)
      BY <1>1, <1>4, <3>2 DEF Enqueue, FailRow, FailDocument, CreateGoto, CreateThrows
    <3>3. QED
      BY <3>1, <3>2 DEF CreateStep
  <2>2. Held(q) => Held(q)'
    BY <1>3, <2>1 DEF Held, Holds
  <2>3. QED
    BY <1>3, <2>1, <2>2, AwaitedStays
<1>5. Awaited(r)'
  <2>1. Awaited(r) /\ Recorded(r)
    BY DEF OrphanInv, RecordedInv
  <2>2. /\ create'[r] = "lost" => MaxApiCrashes # 0
        /\ create'[r] \in {"compensateMirror", "rejected"} => status'[r] \in Terminal
        /\ create'[r] = "accepted" => job'[r].state # "none"
        /\ job'[r].stalls = job[r].stalls
        /\ job'[r].attempt = job[r].attempt
        /\ job'[r].state = job[r].state
             \/ (job[r].state = "none" /\ job'[r].state = "waiting")
    <3> USE DEF CreateGoto, CreateThrows, Rescue, CreateServiceOf, InFlight, CreateStages,
                Awaited, Terminal
    <3>1. CASE CreateRun(r)
      BY <1>1, <2>1, <3>1 DEF CreateRun
    <3>2. CASE SetRun(r)
      BY <1>1, <2>1, <3>2 DEF SetRun
    <3>3. CASE AuditCreated(r)
      BY <1>1, <2>1, <3>3 DEF AuditCreated
    <3>4. CASE Enqueue(r)
      <4>1. /\ job'[r].stalls = job[r].stalls /\ job'[r].attempt = job[r].attempt
            /\ job'[r].state = IF job[r].state = "none" THEN "waiting"
                                                        ELSE job[r].state
        BY <1>1, <3>4 DEF Enqueue, Jobs
      <4>2. create'[r] \in {"accepted", "compensate"} /\ job'[r].state # "none"
        BY <1>1, <3>4, <4>1 DEF Enqueue
      <4>3. QED
        BY <4>1, <4>2
    <3>5. CASE FailRow(r)
      BY <1>1, <2>1, <3>5 DEF FailRow
    <3>6. CASE FailDocument(r)
      BY <1>1, <2>1, <3>6 DEF FailDocument
    <3>7. CASE CreateThrow(r)
      BY <1>1, <2>1, <3>7 DEF CreateThrow
    <3>8. QED
      BY <3>1, <3>2, <3>3, <3>4, <3>5, <3>6, <3>7 DEF CreateStep
  <2>3. Held(r) <=> Held(r)'
    BY <1>3, <2>2 DEF Held, Holds
  <2>4. Unheld(r)' = Unheld(r)
    BY <2>2, <2>3 DEF Unheld
  <2>5. ASSUME status'[r] = "RUNNING"
        PROVE  /\ job'[r].state # "done"
               /\ job'[r].stalls + Unheld(r)' <= spent'.workerCrashes + spent'.lockLosses
    <3>1. CASE status[r] = "RUNNING"
      BY <1>3, <2>1, <2>2, <2>4, <3>1 DEF Awaited
    <3>2. CASE status[r] # "RUNNING"
      <4>1. status[r] = "none" /\ create[r] = "idle"
        BY <2>5, <3>2 DEF OutcomesKept
      <4>2. job[r].state = "none"
        BY <2>1, <4>1 DEF Recorded, Offered
      <4>3. job[r].stalls = 0 /\ Unheld(r) = 0
        BY <2>1, <4>2 DEF Awaited, Unheld
      <4>4. QED
        BY <1>1, <1>3, <2>2, <2>4, <4>2, <4>3
    <3>3. QED
      BY <3>1, <3>2
  <2>6. job'[r].state = "none" => job'[r].stalls = 0
    BY <2>1, <2>2 DEF Awaited
  <2>7. QED
    BY <2>2, <2>5, <2>6 DEF Awaited
<1>6. QED
  BY <1>3, <1>4, <1>5 DEF OrphanInv

\* An API process that dies leaves the queue alone, and what was enqueued stays there.
LEMMA OrphanApiCrash ==
  ASSUME OrdinaryInv, OrphanInv, NEW r \in Runs, ApiCrash(r)
  PROVE  OrphanInv'
<1>1. /\ UNCHANGED <<status, job, exec>>
      /\ create' = [create EXCEPT ![r] = "lost"]
      /\ spent.apiCrashes < MaxApiCrashes
      /\ spent' = [spent EXCEPT !.apiCrashes = @ + 1]
  BY DEF ApiCrash, postgresVars, redisVars
<1>2. /\ spent \in Budgets /\ create \in [Runs -> CreateStages]
      /\ spent.workerCrashes \in Nat /\ spent.lockLosses \in Nat
  BY AwaitedTyped
<1>3. spent'.workerCrashes = spent.workerCrashes /\ spent'.lockLosses = spent.lockLosses
  BY <1>1, <1>2 DEF Budgets
<1>4. MaxApiCrashes # 0
  BY <1>1, <1>2 DEF Budgets
<1>5. ASSUME NEW q \in Runs
      PROVE  Awaited(q)'
  <2>1. Unheld(q)' = Unheld(q)
    BY <1>1 DEF Unheld, Held, Holds
  <2>2. create'[q] = create[q] \/ create'[q] = "lost"
    BY <1>1, <1>2
  <2>3. QED
    BY <1>1, <1>3, <1>4, <2>1, <2>2 DEF OrphanInv, Awaited
<1>6. QED
  BY <1>3, <1>5 DEF OrphanInv

\* The steps of a worker that leave the queue alone.
LEMMA OrphanWorker ==
  ASSUME OrdinaryInv, OrphanInv, OutcomesKept, NEW w \in Workers, NEW f,
         exec' = [exec EXCEPT ![w] = f], UNCHANGED <<job, create, spent>>,
         f.run = exec[w].run /\ f.attempt = exec[w].attempt
  PROVE  OrphanInv'
<1>1. ASSUME NEW r \in Runs
      PROVE  Awaited(r)'
  <2>1. Held(r) => Held(r)'
    BY HeldMoves
  <2>2. QED
    BY <2>1, AwaitedStays
<1>2. QED
  BY <1>1 DEF OrphanInv

LEMMA OrphanSettle ==
  ASSUME OrdinaryInv, SavedInv, OrphanInv, OutcomesKept, NEW w \in Workers, SettleJob(w)
  PROVE  OrphanInv'
<1>1. PICK r \in Runs : r = exec[w].run
  BY RunOf DEF SettleJob
<1>2. /\ exec' = [exec EXCEPT ![w] = Idle] /\ UNCHANGED <<status, create, spent>>
      /\ job' = job \/ job' = [job EXCEPT ![r].state = "done"]
  BY <1>1 DEF SettleJob, postgresVars, requestVars, ghostVars
<1>3. status[r] \in Terminal
  BY <1>1 DEF SettleJob, SavedInv, SavedRun, SavedStages
<1>4. Awaited(r)'
  <2>1. job'[r].state = job[r].state \/ job'[r].state = "done"
    BY <1>2, AwaitedTyped DEF Jobs
  <2>2. job'[r].stalls = job[r].stalls
    BY <1>2, AwaitedTyped DEF Jobs
  <2>3. QED
    BY <1>2, <1>3, <2>1, <2>2 DEF OrphanInv, Awaited, Terminal
<1>5. ASSUME NEW q \in Runs, q # r
      PROVE  Awaited(q)'
  <2>1. job'[q] = job[q]
    BY <1>2, <1>5, AwaitedTyped
  <2>2. Held(q) => Held(q)'
    BY <1>1, <1>2, <1>5, <2>1, HeldMoves
  <2>3. QED
    BY <1>2, <2>1, <2>2, AwaitedStays
<1>6. QED
  BY <1>2, <1>4, <1>5 DEF OrphanInv

LEMMA OrphanTake ==
  ASSUME OrdinaryInv, OrphanInv, OutcomesKept, NEW w \in Workers, NEW r \in Runs,
         TakeJob(w, r)
  PROVE  OrphanInv'
<1>1. PICK f : /\ exec' = [exec EXCEPT ![w] = f] /\ f.run = r
               /\ f.attempt = job[r].attempt + 1
  BY TakeStep DEF TakeMove
<1>2. /\ UNCHANGED <<status, create, spent>>
      /\ job' = [job EXCEPT ![r] = [state |-> "active", attempt |-> @.attempt + 1,
                                    stalls |-> @.stalls]]
  BY DEF TakeJob, postgresVars, requestVars, ghostVars
<1>3. Awaited(r)'
  <2>1. /\ job'[r].state = "active" /\ job'[r].attempt = job[r].attempt + 1
        /\ job'[r].stalls = job[r].stalls /\ job[r].stalls \in Nat
    BY <1>2, AwaitedTyped
  <2>2. exec'[w] = f
    BY <1>1, ExecTyped
  <2>3. Held(r)'
    BY <1>1, <2>1, <2>2 DEF Held, Holds
  <2>4. Unheld(r)' = 0 /\ Unheld(r) \in {0, 1}
    BY <2>3 DEF Unheld
  <2>5. ASSUME status[r] = "RUNNING"
        PROVE  job'[r].stalls + Unheld(r)' <= spent'.workerCrashes + spent'.lockLosses
    <3>1. job[r].stalls + Unheld(r) <= spent.workerCrashes + spent.lockLosses
      BY <2>5 DEF OrphanInv, Awaited
    <3>2. QED
      BY <1>2, <2>1, <2>4, <3>1, AwaitedTyped
  <2>6. QED
    BY <1>2, <2>1, <2>5 DEF OrphanInv, Awaited
<1>4. ASSUME NEW q \in Runs, q # r
      PROVE  Awaited(q)'
  <2>1. job'[q] = job[q]
    BY <1>2, <1>4, AwaitedTyped
  <2>2. exec[w].run = NoRun
    BY DEF TakeJob, OrdinaryInv, Ordinary
  <2>3. Held(q) => Held(q)'
    BY <1>1, <2>1, <2>2, HeldMoves, RunsAssumption
  <2>4. QED
    BY <1>2, <2>1, <2>3, AwaitedStays
<1>5. QED
  BY <1>2, <1>3, <1>4 DEF OrphanInv

LEMMA OrphanQueue ==
  ASSUME OrdinaryInv, OrphanInv, OutcomesKept, NEW r \in Runs, QueueStep(r),
         MaxWorkerCrashes + MaxLockLosses <= MaxStalledCount
  PROVE  OrphanInv'
<1> USE DEF postgresVars, mirrorVars, redisVars, requestVars, ghostVars
<1>1. CASE RecoverJob(r) \/ LoseLock(r)
  <2>1. /\ UNCHANGED <<status, create, exec>> /\ MoveStalled(r)
        /\ \/ ~ Held(r) /\ UNCHANGED spent
           \/ /\ spent.lockLosses < MaxLockLosses
              /\ spent' = [spent EXCEPT !.lockLosses = @ + 1]
    BY <1>1 DEF RecoverJob, LoseLock, Held
  <2>2. Awaited(r)'
    BY <2>1, StalledAwaited
  <2>3. ASSUME NEW q \in Runs, q # r
        PROVE  Awaited(q)'
    <3>1. job'[q] = job[q]
      BY <2>1, <2>3, AwaitedTyped DEF MoveStalled
    <3>2. Held(q) => Held(q)'
      BY <2>1, <3>1 DEF Held, Holds
    <3>3. QED
      BY <2>1, <3>1, <3>2, AwaitedStays
  <2>4. spent'.workerCrashes <= MaxWorkerCrashes /\ spent'.lockLosses <= MaxLockLosses
    BY <2>1, AwaitedTyped, BudgetAssumption DEF OrphanInv, Budgets
  <2>5. QED
    BY <2>2, <2>3, <2>4 DEF OrphanInv
<1>2. ASSUME NEW a \in sandboxes[r], SandboxExpires(r, a)
      PROVE  OrphanInv'
  <2>1. UNCHANGED <<job, create, spent, exec>>
    BY <1>2 DEF SandboxExpires
  <2>2. \A q \in Runs : Held(q) => Held(q)'
    BY <2>1 DEF Held, Holds
  <2>3. QED
    BY <2>1, <2>2, AwaitedStays DEF OrphanInv
<1>3. QED
  BY <1>1, <1>2 DEF QueueStep

LEMMA OrphanStep ==
  ASSUME "postgres" \notin Faults,
         MaxWorkerCrashes + MaxLockLosses <= MaxStalledCount
  PROVE  OrdinaryInv /\ RecordedInv /\ SavedInv /\ OrphanInv /\ [Next]_vars
           => OrphanInv'
<1> SUFFICES ASSUME OrdinaryInv, RecordedInv, SavedInv, OrphanInv, [Next]_vars
             PROVE  OrphanInv'
  OBVIOUS
<1> USE DEF postgresVars, mirrorVars, redisVars, requestVars, ghostVars
<1>a. OutcomesKept
  BY StatusMoves
<1>1. ASSUME NEW w \in Workers, ExecStep(w)
      PROVE  OrphanInv'
  <2>1. CASE exec[w].pc \in TryBody
    <3>1. UNCHANGED <<job, create, spent>>
      BY <1>1, <2>1, TryStores DEF TryFrame
    <3>2. PICK f : exec' = [exec EXCEPT ![w] = f] /\ TryTarget(exec[w], f)
      BY <1>1, <2>1, TryStep DEF TryMove
    <3>3. f.run = exec[w].run /\ f.attempt = exec[w].attempt
      BY <3>2 DEF TryTarget
    <3>4. QED
      BY <1>a, <3>1, <3>2, <3>3, OrphanWorker
  <2>2. CASE exec[w].pc \in Finishing \cup Finally
    <3>1. PICK f : /\ exec' = [exec EXCEPT ![w] = f] /\ SameJob(exec[w], f)
                   /\ Effect(exec[w]) \/ UNCHANGED storeVars
      BY <1>1, <2>2, FinishStep DEF FinishMove, Went, Failed
    <3>2. UNCHANGED <<job, create, spent>>
      BY <3>1 DEF Effect, storeVars
    <3>3. f.run = exec[w].run /\ f.attempt = exec[w].attempt
      BY <3>1 DEF SameJob
    <3>4. QED
      BY <1>a, <3>1, <3>2, <3>3, OrphanWorker
  <2>3. CASE exec[w].pc = "findRun"
    <3>1. PICK f : exec' = [exec EXCEPT ![w] = f] /\ SameJob(exec[w], f)
      BY <1>1, <2>3, FindStep DEF FindMove
    <3>2. UNCHANGED <<job, create, spent>>
      BY <1>1, <2>3, FindStep DEF storeVars
    <3>3. f.run = exec[w].run /\ f.attempt = exec[w].attempt
      BY <3>1 DEF SameJob
    <3>4. QED
      BY <1>a, <3>1, <3>2, <3>3, OrphanWorker
  <2>4. CASE SettleJob(w)
    BY <1>a, <2>4, OrphanSettle
  <2>5. QED
    BY <1>1, <2>1, <2>2, <2>3, <2>4, WorkerCases
<1>2. ASSUME NEW w \in Workers, WorkerCrash(w)
      PROVE  OrphanInv'
  <2>1. /\ UNCHANGED <<job, create>> /\ spent.workerCrashes < MaxWorkerCrashes
        /\ spent' = [spent EXCEPT !.workerCrashes = @ + 1]
    BY <1>2 DEF WorkerCrash
  <2>2. spent'.workerCrashes <= MaxWorkerCrashes /\ spent'.lockLosses <= MaxLockLosses
    BY <2>1, AwaitedTyped, BudgetAssumption DEF OrphanInv, Budgets
  <2>3. \A r \in Runs : Awaited(r)'
    BY <1>a, <2>1, AwaitedStays
  <2>4. QED
    BY <2>2, <2>3 DEF OrphanInv
<1>3. ASSUME NEW w \in Workers, NEW r \in Runs, TakeJob(w, r)
      PROVE  OrphanInv'
  BY <1>a, <1>3, OrphanTake
<1>4. ASSUME NEW r \in Runs, CreateRun(r) \/ CreateStep(r) \/ ApiCrash(r)
      PROVE  OrphanInv'
  BY <1>a, <1>4, OrphanCreate, OrphanApiCrash
<1>5. ASSUME UNCHANGED <<job, create, spent, exec>>
      PROVE  OrphanInv'
  <2>1. \A r \in Runs : Held(r) => Held(r)'
    BY <1>5 DEF Held, Holds
  <2>2. QED
    BY <1>a, <1>5, <2>1, AwaitedStays DEF OrphanInv
<1>6. ASSUME NEW r \in Runs, ReadForCancel(r) \/ CancelStep(r) \/ KeyExpires(r)
      PROVE  OrphanInv'
  <2>1. UNCHANGED <<job, create, spent, exec>>
    BY <1>6 DEF ReadForCancel, CancelStep, SetCancelKey, AuditCancel, CancelThrow,
       KeyExpires
  <2>2. QED
    BY <1>5, <2>1
<1>7. ASSUME NEW r \in Runs, QueueStep(r)
      PROVE  OrphanInv'
  BY <1>a, <1>7, OrphanQueue
<1>8. CASE UNCHANGED vars
  BY <1>5, <1>8 DEF vars, storeVars
<1>9. QED
  BY <1>1, <1>2, <1>3, <1>4, <1>6, <1>7, <1>8 DEF Next, QueueStep

\* Nobody will end a run that is RUNNING only if the process that was creating it
\* died before it had enqueued the run.
ForgottenUnqueued ==
  \A r \in Runs :
    status[r] = "RUNNING" =>
      \/ create[r] \in InFlight
      \/ job[r].state \in {"waiting", "active"}
      \/ create[r] = "lost" /\ job[r].state = "none"

LEMMA OrphanInvariant ==
  ASSUME "postgres" \notin Faults,
         MaxWorkerCrashes + MaxLockLosses <= MaxStalledCount
  PROVE  Spec => [](OrdinaryInv /\ RecordedInv /\ OrphanInv)
<1>1. Init => OrphanInv
  BY BudgetAssumption DEF Init, OrphanInv, Awaited
<1>2. QED
  BY <1>1, OrphanStep, OrdinaryInvariant, RecordedInvariant, SavedInvariant, PTL DEF Spec

\* While PostgreSQL answers, and as long as no more workers die and locks lapse than
\* the queue forgives, a run that was enqueued is waiting or worked on until it has
\* ended, whichever API processes die, and when: neither a failed publish nor a job
\* that could not be settled leaves it RUNNING for ever.
THEOREM NobodyEnqueuedForgotten ==
  ASSUME "postgres" \notin Faults,
         MaxWorkerCrashes + MaxLockLosses <= MaxStalledCount
  PROVE  Spec => []ForgottenUnqueued
<1>1. OrdinaryInv /\ RecordedInv /\ OrphanInv => ForgottenUnqueued
  <2> SUFFICES ASSUME OrdinaryInv, RecordedInv, OrphanInv, NEW r \in Runs,
                      status[r] = "RUNNING"
               PROVE  \/ create[r] \in InFlight
                      \/ job[r].state \in {"waiting", "active"}
                      \/ create[r] = "lost" /\ job[r].state = "none"
    BY DEF ForgottenUnqueued
  <2>1. create[r] \notin {"idle", "rejected"} /\ job[r].state # "done"
    BY DEF OrphanInv, Awaited, RecordedInv, Recorded, Terminal
  <2>2. create[r] = "accepted" => job[r].state # "none"
    BY DEF OrphanInv, Awaited
  <2>3. create[r] \in CreateStages /\ job[r] \in Jobs
    BY AwaitedTyped
  <2>4. QED
    BY <2>1, <2>2, <2>3 DEF InFlight, Jobs
<1>2. QED
  BY <1>1, OrphanInvariant, PTL

\* If no API process dies either, that is every run which is RUNNING: it is still being
\* requested, waiting or worked on.
THEOREM NobodyForgotten ==
  ASSUME "postgres" \notin Faults, MaxApiCrashes = 0,
         MaxWorkerCrashes + MaxLockLosses <= MaxStalledCount
  PROVE  Spec => []NoOrphanedRun
<1>1. OrphanInv /\ ForgottenUnqueued => NoOrphanedRun
  BY DEF OrphanInv, Awaited, ForgottenUnqueued, NoOrphanedRun
<1>2. QED
  BY <1>1, OrphanInvariant, NobodyEnqueuedForgotten, PTL

==============================================================================
