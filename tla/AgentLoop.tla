------------------------------ MODULE AgentLoop ------------------------------
(***************************************************************************)
(* The execution of a run by a queue worker: AgentLoopService.execute, with *)
(* runLoop, setRunSandbox, finishRun and recordStep, one step per awaited call.*)
(***************************************************************************)
EXTENDS RunState

\* Mutant: the loop runs under try and finally only.
CaughtNever(e) == FALSE

\* An exception of the try block is caught; the catch clause itself, which runs
\* finishRun with FAILED, is outside it.
Caught(e) == e.pc \in TryBody \cup Finishing /\ e.outcome # "FAILED"

\* Mutant: a failed kill is not caught, so it ends the finally clause.
UnwoundByKill(pc) ==
  IF pc \in TryBody \cup Finishing THEN "killSandbox" ELSE "settleJob"

\* Where an exception that is not caught takes the execution: through finally,
\* where only kill has a catch of its own.
Unwound(pc) ==
  CASE pc \in TryBody \cup Finishing -> "killSandbox"
    [] pc = "killSandbox"            -> "endStream"
    [] OTHER                         -> "settleJob"

Thrown(e) ==
  IF Caught(e) THEN [e EXCEPT !.pc = "saveOutcome", !.outcome = "FAILED"]
               ELSE [e EXCEPT !.pc = Unwound(@)]

Throw(w) == exec' = [exec EXCEPT ![w] = Thrown(@)]

CallThrows(w) ==
  /\ exec[w].pc \in DOMAIN ServiceOf
  /\ ServiceOf[exec[w].pc] \in Faults
  /\ Throw(w)

\* The call made at exec[w].pc took effect; its reply arrives or is lost.
Answered(w, next) ==
  \/ exec' = [exec EXCEPT ![w] = next]
  \/ LostReplies /\ CallThrows(w)

Goto(w, stage) == Answered(w, [exec[w] EXCEPT !.pc = stage])

CallFails(w) ==
  /\ CallThrows(w)
  /\ UNCHANGED storeVars

\* Mutant: a terminal run is executed again.
FindRunAnyStatus(w) ==
  /\ exec[w].pc = "findRun"
  /\ Goto(w, "createSandbox")
  /\ UNCHANGED storeVars

FindRun(w) ==
  /\ exec[w].pc = "findRun"
  /\ Goto(w, IF status[exec[w].run] = "RUNNING" THEN "createSandbox"
                                                ELSE "settleJob")
  /\ UNCHANGED storeVars

CreateSandbox(w) ==
  LET e == exec[w] IN
  /\ e.pc = "createSandbox"
  /\ sandboxes' = [sandboxes EXCEPT ![e.run] = @ \cup {e.attempt}]
  /\ Answered(w, [e EXCEPT !.pc = "saveSandbox", !.sandbox = TRUE])
  /\ UNCHANGED <<postgresVars, mirrorVars, redisVars, counted, requestVars,
                 ghostVars>>

SaveSandbox(w) ==
  LET e == exec[w] IN
  /\ e.pc = "saveSandbox"
  /\ sandboxId' = [sandboxId EXCEPT ![e.run] = e.attempt]
  /\ Goto(w, "mirrorSandbox")
  /\ UNCHANGED <<status, steps, audit, mirrorVars, redisVars, sandboxes,
                 counted, requestVars, ghostVars>>

MirrorSandbox(w) ==
  LET e == exec[w] IN
  /\ e.pc = "mirrorSandbox"
  /\ mirror' = [mirror EXCEPT ![e.run].sandboxId = e.attempt]
  /\ Goto(w, "emitStarted")
  /\ UNCHANGED <<postgresVars, mirrorSteps, redisVars, sandboxes, counted,
                 requestVars, ghostVars>>

EmitStarted(w) ==
  /\ exec[w].pc = "emitStarted"
  /\ Goto(w, "countSteps")
  /\ UNCHANGED storeVars

\* Mutant: the index is taken one too high.
CountStepsOneBased(w) ==
  LET e == exec[w] IN
  /\ e.pc = "countSteps"
  /\ Answered(w, [e EXCEPT !.pc = "checkCancel",
                           !.index = Cardinality(DOMAIN steps[e.run]) + 1])
  /\ UNCHANGED storeVars

\* stepIndex continues after the steps that a prior attempt persisted.
CountSteps(w) ==
  LET e == exec[w] IN
  /\ e.pc = "countSteps"
  /\ Answered(w, [e EXCEPT !.pc = "checkCancel",
                           !.index = Cardinality(DOMAIN steps[e.run])])
  /\ UNCHANGED storeVars

Cancelled(e) == [e EXCEPT !.pc = "saveOutcome", !.outcome = "CANCELLED"]

\* Mutant: the key is looked for before the first iteration only.
CheckCancelFirst(w) ==
  LET e == exec[w] IN
  /\ e.pc = "checkCancel"
  /\ Answered(w, IF e.iteration = 0 /\ e.run \in cancelKeys
                   THEN Cancelled(e) ELSE [e EXCEPT !.pc = "callModel"])
  /\ UNCHANGED storeVars

\* Mutant: one key for all runs.
CheckCancelAny(w) ==
  LET e == exec[w] IN
  /\ e.pc = "checkCancel"
  /\ Answered(w, IF cancelKeys # {}
                   THEN Cancelled(e) ELSE [e EXCEPT !.pc = "callModel"])
  /\ UNCHANGED storeVars

\* Mutant: the key is consumed when it is seen.
CheckCancelConsumes(w) ==
  LET e == exec[w] IN
  /\ e.pc = "checkCancel"
  /\ Answered(w, IF e.run \in cancelKeys
                   THEN Cancelled(e) ELSE [e EXCEPT !.pc = "callModel"])
  /\ cancelKeys' = cancelKeys \ {e.run}
  /\ UNCHANGED <<postgresVars, mirrorVars, job, published, sandboxes, counted,
                 requestVars, ghostVars>>

\* Mutant: the event is emitted before the run is finished.
CheckCancelAnnounces(w) ==
  LET e == exec[w] IN
  /\ e.pc = "checkCancel"
  /\ Answered(w, IF e.run \in cancelKeys
                   THEN [Cancelled(e) EXCEPT !.pc = "emitOutcome"]
                   ELSE [e EXCEPT !.pc = "callModel"])
  /\ UNCHANGED storeVars

CheckCancel(w) ==
  LET e == exec[w] IN
  /\ e.pc = "checkCancel"
  /\ Answered(w, IF e.run \in cancelKeys
                   THEN Cancelled(e) ELSE [e EXCEPT !.pc = "callModel"])
  /\ UNCHANGED storeVars

\* What runLoop does next once the current block has been dealt with: the rest
\* of the text blocks, then the tools, then the next iteration or the limit.
Proceed(e) ==
  CASE e.texts # 0 ->
         [e EXCEPT !.pc = "insertStep", !.step = "ASSISTANT"]
    [] e.texts = 0 /\ e.tools # 0 ->
         [e EXCEPT !.pc = "insertStep", !.step = "TOOL_CALL"]
    [] e.texts = 0 /\ e.tools = 0 /\ e.outcome = "COMPLETED" ->
         [e EXCEPT !.pc = "saveOutcome"]
    [] e.texts = 0 /\ e.tools = 0 /\ e.outcome # "COMPLETED"
       /\ e.iteration + 1 < MaxIterations ->
         [e EXCEPT !.pc = "checkCancel", !.iteration = @ + 1]
    [] OTHER -> Thrown(e)

\* The response has any number of text and tool_use blocks; the tools are run
\* only if it stopped for them, and otherwise the run is to be COMPLETED.
CallModel(w) ==
  LET e == exec[w] IN
  /\ e.pc = "callModel"
  /\ \E texts \in 0..MaxTexts, tools \in 0..MaxToolUses, toolStop \in BOOLEAN :
       LET final == ~ toolStop \/ tools = 0 IN
       Answered(w, Proceed([e EXCEPT !.texts = texts,
                                     !.tools = IF final THEN 0 ELSE tools,
                                     !.outcome = IF final THEN "COMPLETED"
                                                          ELSE @]))
  /\ history' = [history EXCEPT ![e.run] =
       [lateCalls |-> IF @.cancelled THEN @.lateCalls + 1 ELSE @.lateCalls,
        cancelled |-> @.cancelled]]
  /\ UNCHANGED <<postgresVars, mirrorVars, redisVars, sandboxes, counted,
                 requestVars, spent>>

\* A transcript with a step at i.
WithStep(rows, i, type) ==
  [j \in DOMAIN rows \cup {i} |-> IF j = i THEN type ELSE rows[j]]

\* Mutant: the row is upserted.
InsertStepUpserts(w) ==
  LET e == exec[w] IN
  /\ e.pc = "insertStep"
  /\ steps' = [steps EXCEPT ![e.run] = WithStep(@, e.index, e.step)]
  /\ Answered(w, [e EXCEPT !.pc = "mirrorStep", !.index = @ + 1])
  /\ UNCHANGED <<status, sandboxId, audit, mirrorVars, redisVars, sandboxes,
                 counted, requestVars, ghostVars>>

\* recordStep: the row, then its document.  The row is unique by (run, index)
\* and the document is made with create(): a second one of either kind throws.
InsertStep(w) ==
  LET e == exec[w] IN
  /\ e.pc = "insertStep"
  /\ IF e.index \in DOMAIN steps[e.run]
       THEN Throw(w) /\ UNCHANGED steps
       ELSE /\ steps' = [steps EXCEPT ![e.run] = WithStep(@, e.index, e.step)]
            /\ Answered(w, [e EXCEPT !.pc = "mirrorStep", !.index = @ + 1])
  /\ UNCHANGED <<status, sandboxId, audit, mirrorVars, redisVars, sandboxes,
                 counted, requestVars, ghostVars>>

\* Mutant: the document is named by the index already incremented.
MirrorStepNextIndex(w) ==
  LET e == exec[w] IN
  /\ e.pc = "mirrorStep"
  /\ mirrorSteps' = [mirrorSteps EXCEPT ![e.run] = WithStep(@, e.index, e.step)]
  /\ Goto(w, "emitStep")
  /\ UNCHANGED <<postgresVars, mirror, redisVars, sandboxes, counted,
                 requestVars, ghostVars>>

\* Mutant: the write is not awaited, and its failure goes unnoticed.
MirrorStepForgets(w) ==
  /\ exec[w].pc = "mirrorStep"
  /\ Goto(w, "emitStep")
  /\ UNCHANGED storeVars

MirrorStep(w) ==
  LET e == exec[w]
      i == e.index - 1
      documents == mirrorSteps[e.run] IN
  /\ e.pc = "mirrorStep"
  /\ IF i \in DOMAIN documents
       THEN Throw(w) /\ UNCHANGED mirrorSteps
       ELSE /\ mirrorSteps' = [mirrorSteps EXCEPT ![e.run] = WithStep(@, i, e.step)]
            /\ Goto(w, "emitStep")
  /\ UNCHANGED <<postgresVars, mirror, redisVars, sandboxes, counted,
                 requestVars, ghostVars>>

\* Mutant: a tool counts as done once it has been called.
EmitStepCountsCalls(w) ==
  LET e == exec[w] IN
  /\ e.pc = "emitStep"
  /\ Answered(w,
       CASE e.step = "ASSISTANT"   -> Proceed([e EXCEPT !.texts = @ - 1])
         [] e.step = "TOOL_CALL"   -> [e EXCEPT !.pc = "runTool", !.tools = @ - 1]
         [] e.step = "TOOL_RESULT" -> Proceed([e EXCEPT !.tools = @ - 1]))
  /\ UNCHANGED storeVars

EmitStep(w) ==
  LET e == exec[w] IN
  /\ e.pc = "emitStep"
  /\ Answered(w,
       CASE e.step = "ASSISTANT"   -> Proceed([e EXCEPT !.texts = @ - 1])
         [] e.step = "TOOL_CALL"   -> [e EXCEPT !.pc = "runTool"]
         [] e.step = "TOOL_RESULT" -> Proceed([e EXCEPT !.tools = @ - 1]))
  /\ UNCHANGED storeVars

\* ToolRegistryService.execute: most errors become a result for the model, but
\* a command that times out or a write that fails throws.
RunTool(w) ==
  /\ exec[w].pc = "runTool"
  /\ \/ exec' = [exec EXCEPT ![w] = [exec[w] EXCEPT !.pc = "insertStep",
                                                    !.step = "TOOL_RESULT"]]
     \/ Throw(w)
  /\ UNCHANGED storeVars

\* finishRun: the row, the document, the counter; then the outcome's event.
SaveOutcome(w) ==
  LET e == exec[w] IN
  /\ e.pc = "saveOutcome"
  /\ status' = [status EXCEPT ![e.run] = e.outcome]
  /\ Goto(w, "mirrorOutcome")
  /\ UNCHANGED <<sandboxId, steps, audit, mirrorVars, redisVars, sandboxes,
                 counted, requestVars, ghostVars>>

\* Mutant: the counter is incremented before the document is written.
MirrorOutcomeCountsFirst(w) ==
  LET e == exec[w] IN
  /\ e.pc = "mirrorOutcome"
  /\ mirror' = [mirror EXCEPT ![e.run].status = e.outcome]
  /\ counted' = [counted EXCEPT ![e.run][e.outcome] = @ + 1]
  /\ Goto(w, "emitOutcome")
  /\ UNCHANGED <<postgresVars, mirrorSteps, redisVars, sandboxes, requestVars,
                 ghostVars>>

MirrorOutcome(w) ==
  LET e == exec[w] IN
  /\ e.pc = "mirrorOutcome"
  /\ mirror' = [mirror EXCEPT ![e.run].status = e.outcome]
  /\ \/ /\ exec' = [exec EXCEPT ![w] = [e EXCEPT !.pc = "emitOutcome"]]
        /\ counted' = [counted EXCEPT ![e.run][e.outcome] = @ + 1]
     \/ LostReplies /\ CallThrows(w) /\ UNCHANGED counted
  /\ UNCHANGED <<postgresVars, mirrorSteps, redisVars, sandboxes, requestVars,
                 ghostVars>>

EmitOutcome(w) ==
  LET e == exec[w] IN
  /\ e.pc = "emitOutcome"
  /\ published' = [published EXCEPT ![e.run] = @ \cup {e.outcome}]
  /\ Goto(w, "killSandbox")
  /\ UNCHANGED <<postgresVars, mirrorVars, job, cancelKeys, sandboxes, counted,
                 requestVars, ghostVars>>

\* Mutant: the sandbox is killed at the end of the try block only.
KillSandboxOfSuccess(w) ==
  LET e == exec[w] IN
  /\ e.pc = "killSandbox"
  /\ sandboxes' = [sandboxes EXCEPT ![e.run] =
                     IF e.outcome = "FAILED" THEN @ ELSE @ \ {e.attempt}]
  /\ Goto(w, "endStream")
  /\ UNCHANGED <<postgresVars, mirrorVars, redisVars, counted, requestVars,
                 ghostVars>>

\* The finally clause; a failed kill is logged and the clause goes on.
KillSandbox(w) ==
  LET e == exec[w] IN
  /\ e.pc = "killSandbox"
  /\ sandboxes' = [sandboxes EXCEPT ![e.run] =
                     IF e.sandbox THEN @ \ {e.attempt} ELSE @]
  /\ Goto(w, "endStream")
  /\ UNCHANGED <<postgresVars, mirrorVars, redisVars, counted, requestVars,
                 ghostVars>>

EndStream(w) ==
  LET e == exec[w] IN
  /\ e.pc = "endStream"
  /\ published' = [published EXCEPT ![e.run] = @ \cup {"stream_end"}]
  /\ Goto(w, "clearCancel")
  /\ UNCHANGED <<postgresVars, mirrorVars, job, cancelKeys, sandboxes, counted,
                 requestVars, ghostVars>>

ClearCancel(w) ==
  LET e == exec[w] IN
  /\ e.pc = "clearCancel"
  /\ cancelKeys' = cancelKeys \ {e.run}
  /\ Goto(w, "settleJob")
  /\ UNCHANGED <<postgresVars, mirrorVars, job, published, sandboxes, counted,
                 requestVars, ghostVars>>

\* E2B ends a sandbox by itself when its timeout is over.  An execution that
\* still uses it finds out only as calls that throw.
SandboxExpires(r, a) ==
  /\ a \in sandboxes[r]
  /\ sandboxes' = [sandboxes EXCEPT ![r] = @ \ {a}]
  /\ UNCHANGED <<postgresVars, mirrorVars, redisVars, counted, requestVars,
                 exec, ghostVars>>

==============================================================================
