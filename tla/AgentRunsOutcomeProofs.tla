------------------------ MODULE AgentRunsOutcomeProofs ------------------------
(***************************************************************************)
(* Proofs about AgentRuns while no worker loses the lock of its job, so     *)
(* that a run is executed by one worker at a time, however often one dies: *)
(* that AgentRuns implements RunLifecycle, an announced outcome is final,  *)
(* the counter counts a run once, a cancellation costs at most one more    *)
(* model call, and a run that ended well is mirrored to the last step.     *)
(***************************************************************************)
EXTENDS AgentRunsRecoveryProofs

-----------------------------------------------------------------------------
(* One execution of a run at a time.                                       *)

Executes(w, r) == exec[w].pc # "idle" /\ exec[w].run = r

\* Whoever executes a run holds its job, and nobody else executes it.
Sole(w) ==
  \A r \in Runs :
    Executes(w, r) =>
      /\ job[r].state = "active" /\ job[r].attempt = exec[w].attempt
      /\ \A v \in Workers : Executes(v, r) => v = w

SoleInv == \A w \in Workers : Sole(w)

\* A step of w on its job.
LEMMA SoleWorker ==
  ASSUME OrdinaryInv, SoleInv, NEW w \in Workers, NEW f, exec[w].pc # "idle",
         exec' = [exec EXCEPT ![w] = f], UNCHANGED job,
         f.run = exec[w].run /\ f.attempt = exec[w].attempt
  PROVE  SoleInv'
<1>1. \A v \in Workers, r \in Runs : Executes(v, r)' => Executes(v, r)
  BY ExecTyped DEF Executes
<1>2. \A v \in Workers : exec'[v].attempt = exec[v].attempt
  BY ExecTyped
<1>3. QED
  BY <1>1, <1>2 DEF SoleInv, Sole

\* A worker stops to execute, and nobody else's job is touched.
LEMMA SoleStops ==
  ASSUME OrdinaryInv, SoleInv, NEW w \in Workers, exec' = [exec EXCEPT ![w] = Idle],
         \A r \in Runs : ~ Executes(w, r) => job'[r] = job[r]
  PROVE  SoleInv'
<1>1. \A v \in Workers, r \in Runs :
        Executes(v, r)' => Executes(v, r) /\ exec'[v] = exec[v] /\ v # w
  BY ExecTyped, IdleOrdinary DEF Executes
<1>2. \A v \in Workers, r \in Runs : Executes(v, r)' => ~ Executes(w, r)
  BY <1>1 DEF SoleInv, Sole
<1>3. QED
  BY <1>1, <1>2 DEF SoleInv, Sole

\* A job that nobody works on changes hands.
LEMMA SoleOutside ==
  ASSUME OrdinaryInv, SoleInv, UNCHANGED exec, NEW r \in Runs,
         \A q \in Runs \ {r} : job'[q] = job[q],
         job'[r] = job[r] \/ ~ \E w \in Workers : Executes(w, r)
  PROVE  SoleInv'
<1>1. \A v \in Workers, q \in Runs : Executes(v, q)' <=> Executes(v, q)
  BY DEF Executes
<1>2. \A v \in Workers, q \in Runs : Executes(v, q) => job'[q] = job[q]
  OBVIOUS
<1>3. QED
  BY <1>1, <1>2 DEF SoleInv, Sole

LEMMA SoleExecStep ==
  ASSUME OrdinaryInv, SoleInv, NEW w \in Workers, ExecStep(w)
  PROVE  SoleInv'
<1> USE DEF postgresVars, mirrorVars, redisVars, requestVars, ghostVars
<1> DEFINE e == exec[w]
<1>1. CASE e.pc \in TryBody
  <2>1. PICK f : exec' = [exec EXCEPT ![w] = f] /\ TryTarget(e, f)
    BY <1>1, TryStep DEF TryMove
  <2>2. UNCHANGED job
    BY <1>1, TryStores DEF TryFrame
  <2>3. f.run = e.run /\ f.attempt = e.attempt /\ e.pc # "idle"
    BY <1>1, <2>1 DEF TryTarget, TryBody
  <2>4. QED
    BY <2>1, <2>2, <2>3, SoleWorker
<1>2. CASE e.pc \in Finishing \cup Finally
  <2>1. PICK f : /\ exec' = [exec EXCEPT ![w] = f] /\ SameJob(e, f)
                 /\ Effect(e) \/ UNCHANGED storeVars
    BY <1>2, FinishStep DEF FinishMove, Went, Failed
  <2>2. UNCHANGED job
    BY <2>1 DEF Effect, storeVars
  <2>3. f.run = e.run /\ f.attempt = e.attempt /\ e.pc # "idle"
    BY <1>2, <2>1 DEF SameJob, Finishing, Finally
  <2>4. QED
    BY <2>1, <2>2, <2>3, SoleWorker
<1>3. CASE e.pc = "findRun"
  <2>1. PICK f : exec' = [exec EXCEPT ![w] = f] /\ SameJob(e, f)
    BY <1>3, FindStep DEF FindMove
  <2>2. UNCHANGED job
    BY <1>3, FindStep DEF storeVars
  <2>3. f.run = e.run /\ f.attempt = e.attempt /\ e.pc # "idle"
    BY <1>3, <2>1 DEF SameJob
  <2>4. QED
    BY <2>1, <2>2, <2>3, SoleWorker
<1>4. CASE SettleJob(w)
  <2>1. exec' = [exec EXCEPT ![w] = Idle]
    BY <1>4 DEF SettleJob
  <2>2. job' = job \/ job' = [job EXCEPT ![e.run].state = "done"]
    BY <1>4 DEF SettleJob
  <2>3. e.pc # "idle" /\ job \in [Runs -> Jobs]
    BY <1>4, AwaitedTyped DEF SettleJob
  <2>4. \A r \in Runs : ~ Executes(w, r) => job'[r] = job[r]
    BY <2>2, <2>3 DEF Executes
  <2>5. QED
    BY <2>1, <2>4, SoleStops
<1>5. QED
  BY <1>1, <1>2, <1>3, <1>4, WorkerCases

LEMMA SoleTake ==
  ASSUME OrdinaryInv, SoleInv, NEW w \in Workers, NEW r \in Runs, TakeJob(w, r)
  PROVE  SoleInv'
<1>1. PICK f : /\ exec' = [exec EXCEPT ![w] = f] /\ f.run = r
               /\ f.attempt = job[r].attempt + 1
  BY TakeStep DEF TakeMove
<1>2. /\ exec[w].pc = "idle" /\ job[r].state = "waiting" /\ job \in [Runs -> Jobs]
      /\ job'[r].state = "active" /\ job'[r].attempt = job[r].attempt + 1
      /\ \A q \in Runs : q # r => job'[q] = job[q]
  BY AwaitedTyped DEF TakeJob
<1>3. \A v \in Workers : ~ Executes(v, r)
  BY <1>2 DEF SoleInv, Sole
<1>4. \A v \in Workers, q \in Runs :
        Executes(v, q)' => IF v = w THEN q = r ELSE Executes(v, q) /\ exec'[v] = exec[v]
  BY <1>1, ExecTyped DEF Executes
<1>5. exec'[w].attempt = job'[r].attempt
  BY <1>1, <1>2, ExecTyped
<1>6. ASSUME NEW v \in Workers, NEW q \in Runs, Executes(v, q)'
      PROVE  /\ job'[q].state = "active" /\ job'[q].attempt = exec'[v].attempt
             /\ \A u \in Workers : Executes(u, q)' => u = v
  <2>1. CASE v = w
    BY <1>2, <1>3, <1>4, <1>5, <1>6, <2>1
  <2>2. CASE v # w
    <3>1. Executes(v, q) /\ exec'[v] = exec[v] /\ q # r
      BY <1>3, <1>4, <1>6, <2>2
    <3>2. job'[q] = job[q]
      BY <1>2, <3>1
    <3>3. \A u \in Workers : Executes(u, q)' => Executes(u, q)
      BY <1>4, <3>1
    <3>4. QED
      BY <3>1, <3>2, <3>3 DEF SoleInv, Sole
  <2>3. QED
    BY <2>1, <2>2
<1>7. QED
  BY <1>6 DEF SoleInv, Sole

LEMMA SoleStep ==
  ASSUME MaxLockLosses = 0
  PROVE  OrdinaryInv /\ SoleInv /\ [Next]_vars => SoleInv'
<1> SUFFICES ASSUME OrdinaryInv, SoleInv, [Next]_vars PROVE SoleInv'
  OBVIOUS
<1> USE DEF postgresVars, mirrorVars, redisVars, requestVars, ghostVars
<1>a. job \in [Runs -> Jobs]
  BY AwaitedTyped
<1>1. ASSUME NEW w \in Workers, ExecStep(w)
      PROVE  SoleInv'
  BY <1>1, SoleExecStep
<1>2. ASSUME NEW w \in Workers, WorkerCrash(w)
      PROVE  SoleInv'
  BY <1>2, SoleStops DEF WorkerCrash
<1>3. ASSUME NEW w \in Workers, NEW r \in Runs, TakeJob(w, r)
      PROVE  SoleInv'
  BY <1>3, SoleTake
<1>4. ASSUME NEW r \in Runs, RequestStep(r) \/ QueueStep(r)
      PROVE  SoleInv'
  <2>1. UNCHANGED exec
    BY <1>4, OutsideStep
  <2>2. CASE Enqueue(r)
    <3>1. \A q \in Runs : q # r => job'[q] = job[q]
      BY <1>a, <2>2 DEF Enqueue
    <3>2. job'[r] = job[r] \/ job[r].state = "none"
      BY <2>2 DEF Enqueue
    <3>3. job[r].state = "none" => ~ \E w \in Workers : Executes(w, r)
      BY DEF SoleInv, Sole
    <3>4. QED
      BY <2>1, <3>1, <3>2, <3>3, SoleOutside
  <2>3. CASE RecoverJob(r)
    <3>1. \A q \in Runs : q # r => job'[q] = job[q]
      BY <1>a, <2>3 DEF RecoverJob, MoveStalled
    <3>2. ~ \E w \in Workers : Executes(w, r)
      BY <2>3 DEF RecoverJob, SoleInv, Sole, Holds, Executes
    <3>3. QED
      BY <2>1, <3>1, <3>2, SoleOutside
  <2>4. CASE LoseLock(r)
    BY <2>4, AwaitedTyped DEF LoseLock
  <2>5. ASSUME UNCHANGED job
        PROVE  SoleInv'
    BY <2>1, <2>5, SoleOutside
  <2>6. CASE CreateRun(r) \/ (CreateStep(r) /\ ~ Enqueue(r)) \/ ApiCrash(r)
    BY <2>5, <2>6 DEF CreateRun, CreateStep, SetRun, AuditCreated, FailRow,
       FailDocument, CreateThrow, ApiCrash
  <2>7. CASE ReadForCancel(r) \/ CancelStep(r) \/ KeyExpires(r)
    BY <2>5, <2>7 DEF ReadForCancel, CancelStep, SetCancelKey, AuditCancel,
       CancelThrow, KeyExpires
  <2>8. CASE \E a \in sandboxes[r] : SandboxExpires(r, a)
    BY <2>5, <2>8 DEF SandboxExpires
  <2>9. QED
    BY <1>4, <2>2, <2>3, <2>4, <2>6, <2>7, <2>8 DEF RequestStep, QueueStep
<1>5. CASE UNCHANGED vars
  BY <1>5 DEF vars, storeVars, SoleInv, Sole, Executes
<1>6. QED
  BY <1>1, <1>2, <1>3, <1>4, <1>5 DEF Next, RequestStep, QueueStep

LEMMA SoleInvariant ==
  ASSUME MaxLockLosses = 0
  PROVE  Spec => []SoleInv
<1>1. Init => SoleInv
  BY IdleOrdinary DEF Init, SoleInv, Sole, Executes
<1>2. QED
  BY <1>1, SoleStep, OrdinaryInvariant, PTL DEF Spec

-----------------------------------------------------------------------------
(* An outcome is announced once it is in the row and in the document.      *)

Told(r) == published[r] \cap Terminal

\* The stages of create at which no job can exist: with every signal received, the
\* request knows whether it has enqueued the run.
Unoffered == {"idle", "setRun", "audit", "enqueue", "abandon", "compensate",
              "compensateMirror"}

Announced(r) ==
  /\ create[r] \in Unoffered => job[r].state = "none"
  /\ job[r].state = "none" => Told(r) = {} /\ status[r] \in {"none", "RUNNING", "FAILED"}
  /\ \A o \in Told(r) : status[r] = o /\ mirror[r].status = o

\* What the stage of an execution says of the row and the document of its run.
Consistent(e) ==
  /\ e.pc \in TryBody => status[e.run] = "RUNNING"
  /\ e.pc \in Finishing => Told(e.run) = {}
  /\ e.pc = "saveOutcome" =>
       \/ status[e.run] = "RUNNING"
       \/ e.outcome = "FAILED" /\ status[e.run] \in Terminal
  /\ e.pc \in {"mirrorOutcome", "emitOutcome"} => status[e.run] = e.outcome
  /\ e.pc = "emitOutcome" => mirror[e.run].status = e.outcome

OutcomeInv ==
  /\ \A r \in Runs : Announced(r)
  /\ \A w \in Workers : Consistent(exec[w])

\* A message on Redis that is sent is never reported as lost.
NoLostSignal == "redis" \notin Faults \/ ~ LostReplies

\* An exception is true where it matters: an announcement that throws for finishRun to
\* run again has told nobody, and a queue.add that throws has added no job.
SignalsHeard ==
  /\ \A w \in Workers :
       exec[w].pc = "emitOutcome" /\ exec'[w].pc = "saveOutcome" =>
         published' = published
  /\ \A r \in Runs :
       create[r] = "enqueue" /\ create'[r] = "compensate" => job'[r] = job[r]

\* A step that leaves the outcome of r alone.
SameOutcome(r) ==
  /\ status'[r] = status[r] /\ mirror'[r].status = mirror[r].status
  /\ Told(r)' = Told(r) /\ create'[r] = create[r]
  /\ job'[r].state = "none" <=> job[r].state = "none"

LEMMA AnnouncedStays ==
  ASSUME OutcomeInv, NEW r \in Runs, SameOutcome(r)
  PROVE  Announced(r)'
  BY DEF OutcomeInv, Announced, SameOutcome

LEMMA ConsistentStays ==
  ASSUME OrdinaryInv, OutcomeInv, NEW v \in Workers,
         exec[v].pc = "idle" \/ SameOutcome(exec[v].run), exec'[v] = exec[v]
  PROVE  Consistent(exec[v])'
  BY DEF OutcomeInv, Consistent, SameOutcome, TryBody, Finishing

\* A step of w on its run r, which nobody else executes.
LEMMA OutcomeWorker ==
  ASSUME OrdinaryInv, SoleInv, OutcomeInv, NEW w \in Workers, NEW f,
         exec' = [exec EXCEPT ![w] = f],
         NEW r \in Runs, Executes(w, r) \/ SameOutcome(r),
         \A q \in Runs : q # r => SameOutcome(q),
         Announced(r)', Consistent(f)'
  PROVE  OutcomeInv'
<1>1. ASSUME NEW v \in Workers
      PROVE  Consistent(exec[v])'
  <2>1. CASE v = w
    <3>1. exec'[v] = f
      BY <2>1, ExecTyped
    <3>2. QED
      BY <3>1 DEF Consistent
  <2>2. CASE v # w
    <3>1. exec'[v] = exec[v]
      BY <2>2, ExecTyped
    <3>2. exec[v].pc # "idle" => exec[v].run \in Runs
      BY RunOf
    <3>3. exec[v].pc # "idle" /\ Executes(w, r) => exec[v].run # r
      BY <2>2 DEF SoleInv, Sole, Executes
    <3>4. QED
      BY <3>1, <3>2, <3>3, ConsistentStays
  <2>3. QED
    BY <2>1, <2>2
<1>2. \A q \in Runs : Announced(q)'
  BY AnnouncedStays
<1>3. QED
  BY <1>1, <1>2 DEF OutcomeInv

\* A step that no worker takes part in, on a run that nobody executes.
LEMMA OutcomeOutside ==
  ASSUME OrdinaryInv, SoleInv, OutcomeInv, UNCHANGED exec, NEW r \in Runs,
         SameOutcome(r) \/ (Announced(r)' /\ job[r].state = "none"),
         \A q \in Runs : q # r => SameOutcome(q)
  PROVE  OutcomeInv'
<1>1. ASSUME NEW v \in Workers
      PROVE  Consistent(exec[v])'
  <2>1. exec[v].pc # "idle" => exec[v].run \in Runs
    BY RunOf
  <2>2. exec[v].pc # "idle" /\ job[r].state = "none" => exec[v].run # r
    BY DEF SoleInv, Sole, Executes
  <2>3. QED
    BY <2>1, <2>2, ConsistentStays
<1>2. \A q \in Runs : Announced(q)'
  BY AnnouncedStays
<1>3. QED
  BY <1>1, <1>2 DEF OutcomeInv

\* What an execution becomes when its call throws is consistent with the stores
\* as they are.
LEMMA FailedConsistent ==
  ASSUME OutcomeInv, NEW w \in Workers, exec[w].pc \in Finishing \cup Finally,
         NEW f, Failed(exec[w], f), NEW r \in Runs, r = exec[w].run,
         exec[w].outcome \in Terminal \/ exec[w].pc \in Finally
  PROVE  Consistent(f)
<1>1. Consistent(exec[w])
  BY DEF OutcomeInv
<1>2. CASE Caught(exec[w])
  <2>1. f.pc = "saveOutcome" /\ f.outcome = "FAILED" /\ f.run = r
    BY <1>2 DEF Failed, SameJob
  <2>2. exec[w].pc \in Finishing /\ exec[w].outcome # "FAILED"
    BY <1>2 DEF Caught, TryBody, Finishing, Finally
  <2>3. Told(r) = {} /\ (status[r] = "RUNNING" \/ status[r] \in Terminal)
    BY <1>1, <2>2 DEF Consistent, Finishing, Finally
  <2>4. QED
    BY <2>1, <2>3 DEF Consistent, TryBody, Finishing
<1>3. CASE ~ Caught(exec[w])
  <2>1. f.pc \in {"killSandbox", "endStream", "settleJob"}
    BY <1>3 DEF Failed, Unwound
  <2>2. QED
    BY <2>1 DEF Consistent, TryBody, Finishing
<1>4. QED
  BY <1>2, <1>3

LEMMA OutcomeFinish ==
  ASSUME OrdinaryInv, SoleInv, OutcomeInv, SignalsHeard, NEW w \in Workers, ExecStep(w),
         exec[w].pc \in Finishing \cup Finally
  PROVE  OutcomeInv'
<1> DEFINE e == exec[w]
<1>1. PICK r \in Runs : r = e.run
  BY RunOf DEF Finishing, Finally
<1>2. PICK f : /\ exec' = [exec EXCEPT ![w] = f]
               /\ \/ Went(e, f) /\ Effect(e)
                  \/ Failed(e, f) /\ UNCHANGED storeVars
                  \/ LostReplies /\ Failed(e, f) /\ Effect(e)
  BY FinishStep DEF FinishMove
<1>3. /\ Executes(w, r) /\ Consistent(e) /\ Announced(r) /\ job[r].state # "none"
      /\ e.pc \in Finishing => e.outcome \in Terminal
  BY <1>1 DEF Executes, Finishing, Finally, OutcomeInv, SoleInv, Sole, OrdinaryInv,
     TypeInv, Executing, WellFormed, Executions
<1>4. /\ status \in [Runs -> Statuses] /\ mirror \in [Runs -> Documents]
      /\ DOMAIN published = Runs
  BY DEF OrdinaryInv, TypeInv, StoresTypeOK
<1>5. Failed(e, f) => Consistent(f)
  BY <1>1, <1>3, FailedConsistent
<1>6. CASE UNCHANGED storeVars
  <2>1. \A q \in Runs : SameOutcome(q)
    BY <1>6 DEF storeVars, postgresVars, mirrorVars, redisVars, requestVars,
       SameOutcome, Told
  <2>2. Consistent(f)
    <3>1. CASE Went(e, f) /\ Effect(e)
      <4>1. e.pc # "saveOutcome" \/ status[r] = e.outcome
        BY <1>1, <1>3, <1>4, <1>6, <3>1
        DEF Effect, storeVars, postgresVars, Finishing
      <4>2. e.pc # "mirrorOutcome" \/ mirror[r].status = e.outcome
        BY <1>1, <1>3, <1>4, <1>6, <3>1
        DEF Effect, storeVars, mirrorVars, Finishing, Documents
      <4>3. QED
        BY <1>1, <1>3, <3>1, <4>1, <4>2
        DEF Went, SameJob, After, Consistent, TryBody, Finishing, Finally
    <3>2. QED
      BY <1>2, <1>5, <3>1
  <2>3. Consistent(f)'
    BY <1>6, <2>2 DEF storeVars, postgresVars, mirrorVars, redisVars, Consistent, Told
  <2>4. QED
    BY <1>2, <2>1, <2>3, AnnouncedStays, OutcomeWorker
<1>7. CASE Effect(e)
  <2>1. \A q \in Runs : q # r => SameOutcome(q)
    BY <1>1, <1>4, <1>7 DEF Effect, SameOutcome, Told, requestVars
  <2>2. CASE e.pc = "saveOutcome"
    <3>1. /\ status'[r] = e.outcome /\ Told(r)' = {} /\ UNCHANGED <<create, job, mirror>>
      BY <1>1, <1>3, <1>4, <1>7, <2>2
      DEF Effect, Told, Consistent, Finishing, requestVars
    <3>2. Announced(r)'
      BY <1>3, <3>1 DEF Announced
    <3>3. Consistent(f)'
      BY <1>1, <1>2, <1>3, <2>2, <3>1
      DEF Went, Failed, SameJob, After, Caught, Unwound, Consistent, TryBody,
          Finishing, Terminal
    <3>4. QED
      BY <1>2, <1>3, <2>1, <3>2, <3>3, OutcomeWorker
  <2>3. CASE e.pc = "mirrorOutcome"
    <3>1. /\ mirror'[r].status = e.outcome /\ Told(r)' = {}
          /\ UNCHANGED <<create, job, status>>
      BY <1>1, <1>3, <1>4, <1>7, <2>3
      DEF Effect, Told, Consistent, Finishing, requestVars, Documents
    <3>2. Announced(r)'
      BY <1>3, <3>1 DEF Announced
    <3>3. Consistent(f)'
      BY <1>1, <1>2, <1>3, <2>3, <3>1
      DEF Went, Failed, SameJob, After, Caught, Unwound, Consistent, TryBody,
          Finishing, Terminal
    <3>4. QED
      BY <1>2, <1>3, <2>1, <3>2, <3>3, OutcomeWorker
  <2>4. CASE e.pc = "emitOutcome"
    <3>1. /\ Told(r)' = {e.outcome} /\ UNCHANGED <<create, job, status, mirror>>
      BY <1>1, <1>3, <1>4, <1>7, <2>4
      DEF Effect, Told, Consistent, Finishing, requestVars
    <3>2. Announced(r)'
      BY <1>1, <1>3, <2>4, <3>1 DEF Announced, Consistent
    <3>3. f.pc \in {"killSandbox", "saveOutcome"}
      BY <1>2, <2>4 DEF Went, Failed, After, Unwound, TryBody, Finishing
    <3>4. f.pc # "saveOutcome"
      <4>1. exec'[w] = f
        BY <1>2, ExecTyped
      <4>2. Told(r) = {}
        BY <1>1, <1>3, <2>4 DEF Consistent, Finishing
      <4>3. published' = published => Told(r)' = Told(r)
        BY DEF Told
      <4>4. QED
        BY <2>4, <3>1, <4>1, <4>2, <4>3 DEF SignalsHeard
    <3>5. Consistent(f)'
      BY <3>3, <3>4 DEF Consistent, TryBody, Finishing
    <3>6. QED
      BY <1>2, <1>3, <2>1, <3>2, <3>5, OutcomeWorker
  <2>5. CASE e.pc \in Finally
    <3>1. SameOutcome(r)
      BY <1>1, <1>4, <1>7, <2>5
      DEF Effect, SameOutcome, Told, Finally, Terminal, requestVars
    <3>2. f.pc \in Finally \cup {"settleJob"}
      BY <1>2, <2>5 DEF Went, Failed, After, Caught, Unwound, TryBody, Finishing, Finally
    <3>3. Consistent(f)'
      BY <3>2 DEF Consistent, TryBody, Finishing, Finally
    <3>4. QED
      BY <1>2, <2>1, <3>1, <3>3, AnnouncedStays, OutcomeWorker
  <2>6. QED
    BY <2>2, <2>3, <2>4, <2>5 DEF Finishing
<1>8. QED
  BY <1>2, <1>6, <1>7

LEMMA OutcomeTry ==
  ASSUME OrdinaryInv, SoleInv, OutcomeInv, NEW w \in Workers, ExecStep(w),
         exec[w].pc \in TryBody
  PROVE  OutcomeInv'
<1> DEFINE e == exec[w]
<1>1. PICK f : exec' = [exec EXCEPT ![w] = f] /\ TryTarget(e, f)
  BY TryStep DEF TryMove
<1>2. \A q \in Runs : SameOutcome(q)
  BY TryStores DEF TryFrame, SameOutcome, Told, requestVars
<1>3. PICK r \in Runs : r = e.run
  BY RunOf DEF TryBody
<1>4. status[r] = "RUNNING" /\ Announced(r)
  BY <1>3 DEF OutcomeInv, Consistent
<1>5. Told(r) = {}
  BY <1>4 DEF Announced, Told, Terminal
<1>6. f.run = r /\ f.pc \in TryBody \cup {"saveOutcome"}
  BY <1>1, <1>3 DEF TryTarget
<1>7. status'[f.run] = "RUNNING" /\ Told(f.run)' = {}
  BY <1>2, <1>4, <1>5, <1>6 DEF SameOutcome
<1>8. Consistent(f)'
  BY <1>6, <1>7 DEF Consistent, TryBody
<1>9. QED
  BY <1>1, <1>2, <1>3, <1>8, AnnouncedStays, OutcomeWorker

LEMMA OutcomeCreate ==
  ASSUME OrdinaryInv, RecordedInv, SoleInv, OutcomeInv, SignalsHeard, NEW r \in Runs,
         CreateRun(r) \/ CreateStep(r) \/ ApiCrash(r)
  PROVE  OutcomeInv'
<1> USE DEF postgresVars, mirrorVars, redisVars, requestVars, ghostVars, CreateGoto,
            CreateThrows
<1>1. /\ status \in [Runs -> Statuses] /\ mirror \in [Runs -> Documents]
      /\ create \in [Runs -> CreateStages] /\ job \in [Runs -> Jobs]
      /\ UNCHANGED <<exec, published>>
  BY OutsideStep DEF RequestStep, OrdinaryInv, TypeInv, StoresTypeOK
<1>2. Announced(r) /\ Recorded(r)
  BY DEF OutcomeInv, RecordedInv
<1>3. \A q \in Runs : Told(q)' = Told(q)
  BY <1>1 DEF Told
<1>4. ASSUME NEW q \in Runs, q # r
      PROVE  SameOutcome(q)
  <2>1. CASE CreateRun(r) \/ SetRun(r) \/ AuditCreated(r) \/ CreateThrow(r)
    BY <1>1, <1>3, <1>4, <2>1 DEF CreateRun, SetRun, AuditCreated, CreateThrow, SameOutcome
  <2>2. CASE Enqueue(r) \/ FailRow(r) \/ FailDocument(r) \/ ApiCrash(r)
    BY <1>1, <1>3, <1>4, <2>2 DEF Enqueue, FailRow, FailDocument, ApiCrash, SameOutcome
  <2>3. QED
    BY <2>1, <2>2 DEF CreateStep
<1>5. \/ job[r].state = "none"
      \/ create[r] \in {"accepted", "rejected", "lost"}
  BY <1>1, <1>2 DEF Announced, Unoffered, CreateStages
<1>6. job[r].state = "none"
  <2>1. create[r] \notin {"accepted", "rejected", "lost"}
    BY DEF CreateRun, CreateStep, SetRun, AuditCreated, Enqueue, FailRow, FailDocument,
       CreateThrow, ApiCrash, InFlight
  <2>2. QED
    BY <1>5, <2>1
<1>7. Told(r) = {} /\ status[r] \in {"none", "RUNNING", "FAILED"}
  BY <1>2, <1>6 DEF Announced
<1>8. status'[r] \in {"none", "RUNNING", "FAILED"} /\ (UNCHANGED job \/ Enqueue(r))
  <2>1. CASE CreateRun(r) \/ FailRow(r)
    BY <1>1, <2>1 DEF CreateRun, FailRow
  <2>2. CASE \/ SetRun(r) \/ AuditCreated(r) \/ Enqueue(r) \/ FailDocument(r)
             \/ CreateThrow(r) \/ ApiCrash(r)
    BY <1>7, <2>2 DEF SetRun, AuditCreated, Enqueue, FailDocument, CreateThrow, ApiCrash
  <2>3. QED
    BY <2>1, <2>2 DEF CreateStep
<1>9. create'[r] \in Unoffered => job'[r].state = "none"
  <2>1. CASE Enqueue(r)
    <3>1. create'[r] \in {"accepted", "compensate"}
      BY <1>1, <2>1 DEF Enqueue, Rescue
    <3>2. create'[r] = "compensate" => job'[r] = job[r]
      BY <2>1, <3>1 DEF Enqueue, SignalsHeard
    <3>3. QED
      BY <1>6, <3>1, <3>2 DEF Unoffered
  <2>2. CASE UNCHANGED job
    BY <1>6, <2>2
  <2>3. QED
    BY <1>8, <2>1, <2>2
<1>10. Announced(r)'
  BY <1>3, <1>7, <1>8, <1>9 DEF Announced
<1>11. QED
  BY <1>1, <1>4, <1>6, <1>10, OutcomeOutside

LEMMA OutcomeStep ==
  ASSUME MaxLockLosses = 0
  PROVE  /\ OrdinaryInv /\ RecordedInv /\ SoleInv /\ OutcomeInv
         /\ [Next]_vars /\ [SignalsHeard]_vars
         => OutcomeInv'
<1> SUFFICES ASSUME OrdinaryInv, RecordedInv, SoleInv, OutcomeInv,
                    [Next]_vars, [SignalsHeard]_vars
             PROVE  OutcomeInv'
  OBVIOUS
<1>h. SignalsHeard
  BY DEF SignalsHeard, vars, storeVars, requestVars
<1> USE DEF postgresVars, mirrorVars, redisVars, requestVars, ghostVars
<1>a. job \in [Runs -> Jobs]
  BY AwaitedTyped
<1>b. ASSUME NEW w \in Workers, NEW f, exec' = [exec EXCEPT ![w] = f],
             f.pc \in {"idle", "findRun", "settleJob", "createSandbox"},
             \A r \in Runs : SameOutcome(r),
             f.pc = "createSandbox" => f.run \in Runs /\ status[f.run] = "RUNNING"
      PROVE  OutcomeInv'
  <2>1. \A v \in Workers : Consistent(exec[v])'
    <3> SUFFICES ASSUME NEW v \in Workers PROVE Consistent(exec[v])'
      OBVIOUS
    <3>1. CASE v = w
      <4>1. exec'[v] = f
        BY <1>b, <3>1, ExecTyped
      <4>2. f.pc = "createSandbox" => status'[f.run] = "RUNNING"
        BY <1>b DEF SameOutcome
      <4>3. QED
        BY <1>b, <4>1, <4>2 DEF Consistent, TryBody, Finishing
    <3>2. CASE v # w
      <4>1. exec'[v] = exec[v]
        BY <1>b, <3>2, ExecTyped
      <4>2. exec[v].pc # "idle" => exec[v].run \in Runs
        BY RunOf
      <4>3. QED
        BY <1>b, <4>1, <4>2, ConsistentStays
    <3>3. QED
      BY <3>1, <3>2
  <2>2. QED
    BY <1>b, <2>1, AnnouncedStays DEF OutcomeInv
<1>1. ASSUME NEW w \in Workers, ExecStep(w)
      PROVE  OutcomeInv'
  <2>1. CASE exec[w].pc \in TryBody
    BY <1>1, <2>1, OutcomeTry
  <2>2. CASE exec[w].pc \in Finishing \cup Finally
    BY <1>h, <1>1, <2>2, OutcomeFinish
  <2>3. CASE exec[w].pc = "findRun"
    <3>1. PICK f : /\ exec' = [exec EXCEPT ![w] = f] /\ f.run = exec[w].run
                   /\ \/ f.pc = "settleJob"
                      \/ f.pc = "createSandbox" /\ status[exec[w].run] = "RUNNING"
      BY <1>1, <2>3, FindStep DEF FindMove, SameJob
    <3>2. \A r \in Runs : SameOutcome(r)
      BY <1>1, <2>3, FindStep DEF storeVars, SameOutcome, Told
    <3>3. exec[w].run \in Runs
      BY <2>3, RunOf
    <3>4. QED
      BY <1>b, <3>1, <3>2, <3>3
  <2>4. CASE SettleJob(w)
    <3>1. \A r \in Runs : SameOutcome(r)
      BY <1>a, <2>4 DEF SettleJob, SameOutcome, Told, Jobs
    <3>2. exec' = [exec EXCEPT ![w] = Idle]
      BY <2>4 DEF SettleJob
    <3>3. QED
      BY <1>b, <3>1, <3>2, IdleOrdinary
  <2>5. QED
    BY <1>1, <2>1, <2>2, <2>3, <2>4, WorkerCases
<1>2. ASSUME NEW w \in Workers, WorkerCrash(w)
      PROVE  OutcomeInv'
  <2>1. \A r \in Runs : SameOutcome(r)
    BY <1>2 DEF WorkerCrash, SameOutcome, Told
  <2>2. exec' = [exec EXCEPT ![w] = Idle]
    BY <1>2 DEF WorkerCrash
  <2>3. QED
    BY <1>b, <2>1, <2>2, IdleOrdinary
<1>3. ASSUME NEW w \in Workers, NEW r \in Runs, TakeJob(w, r)
      PROVE  OutcomeInv'
  <2>1. \A q \in Runs : SameOutcome(q)
    BY <1>a, <1>3 DEF TakeJob, SameOutcome, Told, Jobs
  <2>2. PICK f : exec' = [exec EXCEPT ![w] = f] /\ f.pc = "findRun"
    BY <1>3, TakeStep DEF TakeMove
  <2>3. QED
    BY <1>b, <2>1, <2>2
<1>4. ASSUME NEW r \in Runs, CreateRun(r) \/ CreateStep(r) \/ ApiCrash(r)
      PROVE  OutcomeInv'
  BY <1>h, <1>4, OutcomeCreate
<1>5. ASSUME NEW r \in Runs,
             ReadForCancel(r) \/ CancelStep(r) \/ KeyExpires(r) \/ QueueStep(r)
      PROVE  OutcomeInv'
  <2>1. \A q \in Runs : SameOutcome(q)
    <3>1. CASE ReadForCancel(r) \/ CancelStep(r) \/ KeyExpires(r)
      BY <3>1 DEF ReadForCancel, CancelStep, SetCancelKey, AuditCancel, CancelThrow,
         KeyExpires, SameOutcome, Told
    <3>2. CASE QueueStep(r)
      BY <1>a, <3>2 DEF QueueStep, RecoverJob, LoseLock, MoveStalled, SandboxExpires,
         SameOutcome, Told, Jobs
    <3>3. QED
      BY <1>5, <3>1, <3>2
  <2>2. UNCHANGED exec
    BY <1>5, OutsideStep DEF RequestStep
  <2>3. QED
    BY <2>1, <2>2, OutcomeOutside, <1>5
<1>6. CASE UNCHANGED vars
  BY <1>6 DEF vars, storeVars, OutcomeInv, Announced, Consistent, Told
<1>7. QED
  BY <1>1, <1>2, <1>3, <1>4, <1>5, <1>6 DEF Next, QueueStep

\* A step of an executor moves its own execution, and no request.
LEMMA WorkerMoves ==
  ASSUME OrdinaryInv, NEW w \in Workers, ExecStep(w)
  PROVE  create' = create /\ \E f : exec' = [exec EXCEPT ![w] = f]
<1> USE DEF requestVars, ghostVars
<1>1. CASE exec[w].pc \in TryBody
  BY <1>1, TryStep, TryStores DEF TryMove, TryFrame
<1>2. CASE exec[w].pc \in Finishing \cup Finally
  BY <1>2, FinishStep DEF FinishMove, Effect, storeVars
<1>3. CASE exec[w].pc = "findRun"
  BY <1>3, FindStep DEF FindMove, storeVars
<1>4. CASE SettleJob(w)
  BY <1>4 DEF SettleJob
<1>5. QED
  BY <1>1, <1>2, <1>3, <1>4, WorkerCases

\* Where Redis loses no reply, every exception is true.
LEMMA HeardStep ==
  ASSUME NoLostSignal
  PROVE  OrdinaryInv /\ [Next]_vars => SignalsHeard
<1> SUFFICES ASSUME OrdinaryInv, [Next]_vars PROVE SignalsHeard
  OBVIOUS
<1> USE DEF postgresVars, mirrorVars, redisVars, requestVars, ghostVars
<1>1. ASSUME NEW w \in Workers, exec[w].pc = "emitOutcome", exec'[w].pc = "saveOutcome"
      PROVE  published' = published
  <2>1. CASE ExecStep(w)
    <3>1. PICK f : /\ exec' = [exec EXCEPT ![w] = f]
                   /\ \/ Went(exec[w], f)
                      \/ UNCHANGED storeVars
                      \/ LostReplies /\ Failed(exec[w], f)
      BY <1>1, <2>1, FinishStep DEF FinishMove, Finishing
    <3>2. f.pc = "saveOutcome"
      BY <1>1, <3>1, ExecTyped
    <3>3. ~ Went(exec[w], f)
      BY <1>1, <3>2 DEF Went, After
    <3>4. ~ (LostReplies /\ Failed(exec[w], f))
      BY <1>1 DEF Failed, NoLostSignal, ServiceOf, ExecStages, Finishing
    <3>5. QED
      BY <3>1, <3>3, <3>4 DEF storeVars
  <2>2. CASE WorkerCrash(w) \/ \E r \in Runs : TakeJob(w, r)
    BY <1>1, <2>2 DEF WorkerCrash, TakeJob
  <2>3. ASSUME NEW v \in Workers, v # w, ExecStep(v)
        PROVE  FALSE
    <3>1. PICK f : exec' = [exec EXCEPT ![v] = f]
      BY <2>3, WorkerMoves
    <3>2. QED
      BY <1>1, <2>3, <3>1, ExecTyped
  <2>4. CASE \/ \E r \in Runs : RequestStep(r) \/ QueueStep(r)
             \/ UNCHANGED vars
    BY <2>4, OutsideStep DEF vars, storeVars
  <2>5. CASE \E v \in Workers : \/ WorkerCrash(v)
                                \/ \E r \in Runs : TakeJob(v, r)
    BY <2>5 DEF WorkerCrash, TakeJob
  <2>6. QED
    BY <2>1, <2>3, <2>4, <2>5 DEF Next, RequestStep, QueueStep
<1>2. ASSUME NEW r \in Runs, create[r] = "enqueue", create'[r] = "compensate"
      PROVE  job'[r] = job[r]
  <2>1. CASE create' = create
    BY <1>2, <2>1
  <2>2. CASE job' = job
    BY <2>2
  <2>3. ASSUME NEW q \in Runs, Enqueue(q)
        PROVE  job'[r] = job[r]
    <3>1. DOMAIN create = Runs /\ job \in [Runs -> Jobs]
      BY DEF OrdinaryInv, TypeInv, StoresTypeOK
    <3>2. CASE q = r
      <4>1. CreateServiceOf["enqueue"] = "redis"
        BY DEF CreateServiceOf, InFlight, CreateStages
      <4>2. ~ (LostReplies /\ CreateThrows(r))
        BY <1>2, <4>1 DEF CreateThrows, NoLostSignal
      <4>3. create' = [create EXCEPT ![r] = "accepted"]
        BY <2>3, <3>2, <4>2 DEF Enqueue, CreateGoto
      <4>4. QED
        BY <1>2, <3>1, <4>3
    <3>3. CASE q # r
      BY <2>3, <3>1, <3>3 DEF Enqueue, Jobs
    <3>4. QED
      BY <3>2, <3>3
  <2>4. ASSUME NEW q \in Runs, CreateRun(q) \/ CreateStep(q) \/ ApiCrash(q)
        PROVE  job' = job \/ Enqueue(q)
    BY <2>4 DEF CreateRun, CreateStep, SetRun, AuditCreated, FailRow, FailDocument,
       CreateThrow, ApiCrash
  <2>5. ASSUME NEW q \in Runs,
               ReadForCancel(q) \/ CancelStep(q) \/ KeyExpires(q) \/ QueueStep(q)
        PROVE  create' = create
    BY <2>5 DEF ReadForCancel, CancelStep, SetCancelKey, AuditCancel, CancelThrow,
       KeyExpires, QueueStep, RecoverJob, LoseLock, SandboxExpires
  <2>6. ASSUME NEW w \in Workers, ExecStep(w)
        PROVE  create' = create
    BY <2>6, WorkerMoves
  <2>7. ASSUME NEW w \in Workers, WorkerCrash(w) \/ \E q \in Runs : TakeJob(w, q)
        PROVE  create' = create
    BY <2>7 DEF WorkerCrash, TakeJob
  <2>8. CASE UNCHANGED vars
    BY <2>8 DEF vars, storeVars
  <2>9. QED
    BY <2>1, <2>2, <2>3, <2>4, <2>5, <2>6, <2>7, <2>8 DEF Next, RequestStep, QueueStep
<1>3. QED
  BY <1>1, <1>2 DEF SignalsHeard

LEMMA HeardInvariant ==
  ASSUME NoLostSignal
  PROVE  Spec => [][SignalsHeard]_vars
BY HeardStep, OrdinaryInvariant, PTL DEF Spec

LEMMA OutcomeHeard ==
  ASSUME MaxLockLosses = 0
  PROVE  Spec /\ [][SignalsHeard]_vars => []OutcomeInv
<1>1. Init => OutcomeInv
  BY IdleOrdinary DEF Init, OutcomeInv, Announced, Consistent, Told, TryBody, Finishing
<1>2. QED
  BY <1>1, OutcomeStep, OrdinaryInvariant, RecordedInvariant, SoleInvariant, PTL DEF Spec

LEMMA OutcomeInvariant ==
  ASSUME MaxLockLosses = 0, NoLostSignal
  PROVE  Spec => []OutcomeInv
BY HeardInvariant, OutcomeHeard, PTL

\* With one execution at a time, what subscribers are told is in the row and the
\* document and stays there, whatever fails or dies and whichever other replies are
\* lost, if two exceptions of Redis are true: those of the last publish of a run that
\* ended well, and of queue.add.
THEOREM AnnouncementsFinalIfHeard ==
  ASSUME MaxLockLosses = 0
  PROVE  Spec /\ [][SignalsHeard]_vars => []AnnouncedOutcomeFinal
<1>1. OutcomeInv => AnnouncedOutcomeFinal
  BY DEF OutcomeInv, Announced, Told, AnnouncedOutcomeFinal
<1>2. QED
  BY <1>1, OutcomeHeard, PTL

\* They are true where Redis loses no reply: the last thing finishRun does is to
\* publish, and a caught exception of the publish itself has published nothing.
THEOREM AnnouncementsFinal ==
  ASSUME MaxLockLosses = 0, NoLostSignal
  PROVE  Spec => []AnnouncedOutcomeFinal
BY HeardInvariant, AnnouncementsFinalIfHeard, PTL

-----------------------------------------------------------------------------
(* AgentRuns implements RunLifecycle.                                      *)

ToldRuns == {r \in Runs : published[r] \cap Terminal # {}}

LEMMA LifecycleStutter ==
  ASSUME UNCHANGED status, \A r \in Runs : Told(r)' = Told(r)
  PROVE  [Lifecycle!Next]_(Lifecycle!vars)
<1>1. ToldRuns' = ToldRuns
  BY DEF ToldRuns, Told
<1>2. QED
  BY <1>1 DEF Lifecycle!vars, ToldRuns

\* A status changes from RUNNING to any outcome, or to FAILED as long as no outcome
\* has been announced.
LEMMA LifecycleSettles ==
  ASSUME NEW r \in Runs, NEW o \in Terminal, status' = [status EXCEPT ![r] = o],
         status \in [Runs -> Statuses], \A q \in Runs : Told(q)' = Told(q),
         \/ status[r] = "RUNNING"
         \/ o = "FAILED" /\ status[r] \in Terminal /\ Told(r) = {}
  PROVE  [Lifecycle!Next]_(Lifecycle!vars)
<1>1. ToldRuns' = ToldRuns
  BY DEF ToldRuns, Told
<1>2. CASE status[r] = "RUNNING"
  <2>1. Lifecycle!Settle(r, o)
    BY <1>1, <1>2 DEF Lifecycle!Settle, ToldRuns
  <2>2. QED
    BY <2>1 DEF Lifecycle!Next, Lifecycle!Outcomes, Terminal
<1>3. CASE o = "FAILED" /\ status[r] = "FAILED"
  <2>1. status' = status
    BY <1>3
  <2>2. QED
    BY <2>1, LifecycleStutter
<1>4. CASE o = "FAILED" /\ status[r] \in {"COMPLETED", "CANCELLED"} /\ Told(r) = {}
  <2>1. r \notin ToldRuns
    BY <1>4 DEF ToldRuns, Told
  <2>2. Lifecycle!Demote(r)
    BY <1>1, <1>4, <2>1 DEF Lifecycle!Demote, ToldRuns
  <2>3. QED
    BY <2>2 DEF Lifecycle!Next
<1>5. QED
  BY <1>2, <1>3, <1>4 DEF Terminal

LEMMA LifecycleFinish ==
  ASSUME OrdinaryInv, SoleInv, OutcomeInv, NEW w \in Workers, ExecStep(w),
         exec[w].pc \in Finishing \cup Finally
  PROVE  [Lifecycle!Next]_(Lifecycle!vars)
<1> DEFINE e == exec[w]
<1>1. PICK r \in Runs : r = e.run
  BY RunOf DEF Finishing, Finally
<1>2. /\ Consistent(e) /\ status \in [Runs -> Statuses] /\ DOMAIN published = Runs
      /\ e.pc \in Finishing => e.outcome \in Terminal
  BY DEF Finishing, OutcomeInv, OrdinaryInv, TypeInv, StoresTypeOK, Executing,
     WellFormed, Executions
<1>3. Effect(e) \/ UNCHANGED storeVars
  BY FinishStep DEF FinishMove
<1>4. CASE UNCHANGED storeVars
  BY <1>4, LifecycleStutter DEF storeVars, postgresVars, redisVars, Told
<1>5. CASE Effect(e) /\ e.pc = "saveOutcome"
  <2>1. /\ status' = [status EXCEPT ![r] = e.outcome] /\ UNCHANGED published
        /\ e.outcome \in Terminal
    BY <1>1, <1>2, <1>5 DEF Effect, Finishing
  <2>2. \/ status[r] = "RUNNING"
        \/ e.outcome = "FAILED" /\ status[r] \in Terminal /\ Told(r) = {}
    BY <1>1, <1>2, <1>5 DEF Consistent, Finishing
  <2>3. \A q \in Runs : Told(q)' = Told(q)
    BY <2>1 DEF Told
  <2>4. QED
    BY <1>2, <2>1, <2>2, <2>3, LifecycleSettles
<1>6. CASE Effect(e) /\ e.pc = "emitOutcome"
  <2>1. /\ published' = [published EXCEPT ![r] = @ \cup {e.outcome}] /\ UNCHANGED status
        /\ e.outcome \in Terminal /\ status[r] = e.outcome
    BY <1>1, <1>2, <1>6 DEF Effect, Consistent, Finishing
  <2>2. ToldRuns' = ToldRuns \cup {r}
    BY <1>2, <2>1 DEF ToldRuns
  <2>3. Lifecycle!Announce(r)
    BY <2>1, <2>2 DEF Lifecycle!Announce, Lifecycle!Outcomes, ToldRuns, Terminal
  <2>4. QED
    BY <2>3 DEF Lifecycle!Next
<1>7. CASE Effect(e) /\ e.pc \notin {"saveOutcome", "emitOutcome"}
  <2>1. UNCHANGED status /\ \A q \in Runs : Told(q)' = Told(q)
    BY <1>1, <1>2, <1>7 DEF Effect, Told, Terminal
  <2>2. QED
    BY <2>1, LifecycleStutter
<1>8. QED
  BY <1>3, <1>4, <1>5, <1>6, <1>7

LEMMA LifecycleRequest ==
  ASSUME OrdinaryInv, RecordedInv, OutcomeInv, NEW r \in Runs,
         RequestStep(r) \/ QueueStep(r)
  PROVE  [Lifecycle!Next]_(Lifecycle!vars)
<1>1. /\ status \in [Runs -> Statuses] /\ UNCHANGED published
      /\ \A q \in Runs : Told(q)' = Told(q)
  BY OutsideStep DEF OrdinaryInv, TypeInv, StoresTypeOK, Told
<1>2. CASE CreateRun(r)
  <2>1. status[r] = "none" /\ status' = [status EXCEPT ![r] = "RUNNING"]
    BY <1>2 DEF CreateRun, RecordedInv, Recorded
  <2>2. Lifecycle!Start(r)
    BY <1>1, <2>1 DEF Lifecycle!Start
  <2>3. QED
    BY <2>2 DEF Lifecycle!Next
<1>3. CASE FailRow(r)
  <2>1. /\ status' = [status EXCEPT ![r] = "FAILED"]
        /\ create[r] \in {"abandon", "compensate"}
    BY <1>3 DEF FailRow
  <2>2. status[r] # "none" /\ job[r].state = "none"
    BY <2>1 DEF RecordedInv, Recorded, OutcomeInv, Announced, Unoffered
  <2>3. status[r] \in {"RUNNING", "FAILED"} /\ Told(r) = {}
    BY <2>2 DEF OutcomeInv, Announced
  <2>4. "FAILED" \in Terminal
    BY DEF Terminal
  <2>5. QED
    BY <1>1, <2>1, <2>3, <2>4, LifecycleSettles
<1>4. ASSUME UNCHANGED status
      PROVE  [Lifecycle!Next]_(Lifecycle!vars)
  BY <1>1, <1>4, LifecycleStutter
<1>5. CASE \/ SetRun(r) \/ AuditCreated(r) \/ Enqueue(r) \/ FailDocument(r)
           \/ CreateThrow(r) \/ ApiCrash(r) \/ ReadForCancel(r) \/ CancelStep(r)
           \/ KeyExpires(r) \/ QueueStep(r)
  BY <1>4, <1>5 DEF SetRun, AuditCreated, Enqueue, FailDocument, CreateThrow, ApiCrash,
     ReadForCancel, CancelStep, SetCancelKey, AuditCancel, CancelThrow, KeyExpires,
     QueueStep, RecoverJob, LoseLock, SandboxExpires, postgresVars
<1>6. QED
  BY <1>2, <1>3, <1>5 DEF RequestStep, CreateStep

LEMMA LifecycleStep ==
  OrdinaryInv /\ RecordedInv /\ SoleInv /\ OutcomeInv /\ [Next]_vars
    => [Lifecycle!Next]_(Lifecycle!vars)
<1> SUFFICES ASSUME OrdinaryInv, RecordedInv, SoleInv, OutcomeInv, [Next]_vars
             PROVE  [Lifecycle!Next]_(Lifecycle!vars)
  OBVIOUS
<1> USE DEF postgresVars, redisVars
<1>1. ASSUME UNCHANGED <<status, published>>
      PROVE  [Lifecycle!Next]_(Lifecycle!vars)
  BY <1>1, LifecycleStutter DEF Told
<1>2. ASSUME NEW w \in Workers, ExecStep(w)
      PROVE  [Lifecycle!Next]_(Lifecycle!vars)
  <2>1. CASE exec[w].pc \in TryBody
    BY <1>1, <1>2, <2>1, TryStores DEF TryFrame
  <2>2. CASE exec[w].pc \in Finishing \cup Finally
    BY <1>2, <2>2, LifecycleFinish
  <2>3. CASE exec[w].pc = "findRun"
    BY <1>1, <1>2, <2>3, FindStep DEF storeVars
  <2>4. CASE SettleJob(w)
    BY <1>1, <2>4 DEF SettleJob
  <2>5. QED
    BY <1>2, <2>1, <2>2, <2>3, <2>4, WorkerCases
<1>3. ASSUME NEW w \in Workers, WorkerCrash(w) \/ \E r \in Runs : TakeJob(w, r)
      PROVE  [Lifecycle!Next]_(Lifecycle!vars)
  BY <1>1, <1>3 DEF WorkerCrash, TakeJob
<1>4. ASSUME NEW r \in Runs, RequestStep(r) \/ QueueStep(r)
      PROVE  [Lifecycle!Next]_(Lifecycle!vars)
  BY <1>4, LifecycleRequest
<1>5. CASE UNCHANGED vars
  BY <1>1, <1>5 DEF vars, storeVars
<1>6. QED
  BY <1>2, <1>3, <1>4, <1>5 DEF Next, RequestStep, QueueStep

\* With one execution at a time and those two exceptions true, the requests, the queue
\* and the executors together are a RunLifecycle: a run starts once, is demoted to
\* FAILED only before anybody was told otherwise, and never moves again after that.
THEOREM RunsFollowLifecycleIfHeard ==
  ASSUME MaxLockLosses = 0
  PROVE  Spec /\ [][SignalsHeard]_vars => ImplementsLifecycle
<1>1. Init => Lifecycle!Init
  BY DEF Init, Lifecycle!Init
<1>2. QED
  BY <1>1, LifecycleStep, OrdinaryInvariant, RecordedInvariant, SoleInvariant,
     OutcomeHeard, PTL DEF Spec, ImplementsLifecycle, Lifecycle!Spec

\* So they are wherever Redis loses no reply.
THEOREM RunsFollowLifecycle ==
  ASSUME MaxLockLosses = 0, NoLostSignal
  PROVE  Spec => ImplementsLifecycle
BY HeardInvariant, RunsFollowLifecycleIfHeard, PTL DEF ImplementsLifecycle, Lifecycle!Spec

-----------------------------------------------------------------------------
(* A run is counted once.                                                  *)

Uncounted(r) == \A s \in Terminal : counted[r][s] = 0

CountedRight(r) ==
  /\ \A s \in Terminal : counted[r][s] <= IF status[r] = s THEN 1 ELSE 0
  /\ job[r].state = "none" => Uncounted(r)

\* The executions that have yet to come to the counter.
BeforeCount == TryBody \cup {"saveOutcome", "mirrorOutcome"}

UncountedRun(e) == e.pc \in BeforeCount => Uncounted(e.run)

CountInv ==
  /\ \A r \in Runs : CountedRight(r)
  /\ \A w \in Workers : UncountedRun(exec[w])

\* A step that counts nothing and changes the outcome of uncounted runs only.
CountKept(r) ==
  /\ counted'[r] = counted[r]
  /\ status'[r] = status[r] \/ Uncounted(r)
  /\ job'[r].state = "none" => job[r].state = "none"

LEMMA CountedTotals == OrdinaryInv => counted \in [Runs -> [Terminal -> Nat]]
  BY DEF OrdinaryInv, TypeInv, StoresTypeOK

LEMMA CountedStays ==
  ASSUME CountInv, NEW r \in Runs, CountKept(r)
  PROVE  CountedRight(r)'
<1>1. CountedRight(r)
  BY DEF CountInv
<1>2. CASE status'[r] = status[r]
  BY <1>1, <1>2 DEF CountedRight, Uncounted, CountKept
<1>3. CASE Uncounted(r)
  BY <1>3 DEF CountedRight, Uncounted, CountKept
<1>4. QED
  BY <1>2, <1>3 DEF CountKept

\* A step of w, on its run r if it counts one.
LEMMA CountWorker ==
  ASSUME OrdinaryInv, SoleInv, CountInv, NEW w \in Workers, NEW f,
         exec' = [exec EXCEPT ![w] = f],
         NEW r \in Runs, Executes(w, r) \/ CountKept(r),
         \A q \in Runs : q # r => CountKept(q),
         CountedRight(r)', UncountedRun(f)'
  PROVE  CountInv'
<1>1. ASSUME NEW v \in Workers
      PROVE  UncountedRun(exec[v])'
  <2>1. CASE v = w
    <3>1. exec'[v] = f
      BY <2>1, ExecTyped
    <3>2. QED
      BY <3>1 DEF UncountedRun
  <2>2. CASE v # w
    <3>1. exec'[v] = exec[v]
      BY <2>2, ExecTyped
    <3>2. exec[v].pc # "idle" => exec[v].run \in Runs
      BY RunOf
    <3>3. exec[v].pc # "idle" /\ Executes(w, r) => exec[v].run # r
      BY <2>2 DEF SoleInv, Sole, Executes
    <3>4. exec[v].pc # "idle" => counted'[exec[v].run] = counted[exec[v].run]
      BY <3>2, <3>3 DEF CountKept
    <3>5. QED
      BY <3>1, <3>4 DEF CountInv, UncountedRun, Uncounted, BeforeCount, TryBody
  <2>3. QED
    BY <2>1, <2>2
<1>2. \A q \in Runs : CountedRight(q)'
  BY CountedStays
<1>3. QED
  BY <1>1, <1>2 DEF CountInv

LEMMA CountFinish ==
  ASSUME OrdinaryInv, SoleInv, OutcomeInv, CountInv, "redis" \notin Faults,
         NEW w \in Workers, ExecStep(w), exec[w].pc \in Finishing \cup Finally
  PROVE  CountInv'
<1> DEFINE e == exec[w]
<1>1. PICK r \in Runs : r = e.run
  BY RunOf DEF Finishing, Finally
<1>2. PICK f : /\ exec' = [exec EXCEPT ![w] = f]
               /\ \/ Went(e, f) /\ Effect(e) /\ Counts(e)
                  \/ /\ Failed(e, f) /\ UNCHANGED counted
                     /\ Effect(e) \/ UNCHANGED storeVars
  BY FinishStep DEF FinishMove, storeVars
<1>3. /\ Executes(w, r) /\ Consistent(e) /\ CountedRight(r) /\ UncountedRun(e)
      /\ e.pc \in Finishing => e.outcome \in Terminal
  BY <1>1 DEF Executes, Finishing, Finally, OutcomeInv, CountInv, OrdinaryInv,
     TypeInv, Executing, WellFormed, Executions
<1>4. status \in [Runs -> Statuses] /\ counted \in [Runs -> [Terminal -> Nat]]
  BY CountedTotals DEF OrdinaryInv, TypeInv, StoresTypeOK
<1>5. f.run = r
  BY <1>1, <1>2 DEF Went, Failed, SameJob
<1>6. ASSUME NEW q \in Runs, q # r
      PROVE  CountKept(q)
  <2>1. CASE Effect(e) /\ (Counts(e) \/ UNCHANGED counted)
    BY <1>1, <1>3, <1>4, <1>6, <2>1 DEF Effect, Counts, CountKept
  <2>2. CASE UNCHANGED storeVars
    BY <2>2 DEF storeVars, postgresVars, redisVars, CountKept
  <2>3. QED
    BY <1>2, <2>1, <2>2
<1>7. CASE e.pc = "mirrorOutcome" /\ Went(e, f) /\ Effect(e) /\ Counts(e)
  <2>1. status[r] = e.outcome /\ Uncounted(r) /\ e.outcome \in Terminal
    BY <1>1, <1>3, <1>7 DEF Consistent, UncountedRun, BeforeCount, Finishing
  <2>2. /\ UNCHANGED <<status, job>>
        /\ counted' = [counted EXCEPT ![r][e.outcome] = @ + 1]
    BY <1>1, <1>7 DEF Effect, Counts
  <2>3. \A s \in Terminal : counted'[r][s] = IF s = e.outcome THEN 1 ELSE 0
    BY <1>4, <2>1, <2>2 DEF Uncounted
  <2>4. job[r].state # "none"
    BY <1>3 DEF SoleInv, Sole
  <2>5. CountedRight(r)'
    BY <2>1, <2>2, <2>3, <2>4 DEF CountedRight
  <2>6. f.pc = "emitOutcome"
    BY <1>7 DEF Went, After
  <2>7. UncountedRun(f)'
    BY <2>6 DEF UncountedRun, BeforeCount, TryBody
  <2>8. QED
    BY <1>2, <1>3, <1>6, <2>5, <2>7, CountWorker
<1>8. CASE UNCHANGED counted
  <2>1. CountKept(r)
    <3>1. UNCHANGED job /\ (e.pc # "saveOutcome" => UNCHANGED status)
      BY <1>2 DEF Effect, storeVars, postgresVars, redisVars
    <3>2. e.pc = "saveOutcome" => Uncounted(r)
      BY <1>1, <1>3 DEF UncountedRun, BeforeCount
    <3>3. QED
      BY <1>8, <3>1, <3>2 DEF CountKept
  <2>2. UncountedRun(f)'
    <3>1. CASE e.pc \in BeforeCount
      BY <1>1, <1>3, <1>5, <1>8, <3>1 DEF UncountedRun, Uncounted
    <3>2. CASE e.pc \notin BeforeCount
      <4>1. e.pc \in {"emitOutcome"} \cup Finally
        BY <3>2 DEF BeforeCount, Finishing
      <4>2. e.pc = "emitOutcome" => ~ Failed(e, f)
        BY DEF Failed, ServiceOf, ExecStages, Finishing
      <4>3. f.pc \in Finally \cup {"settleJob"}
        BY <1>2, <4>1, <4>2 DEF Went, Failed, After, Caught, Unwound, TryBody,
           Finishing, Finally
      <4>4. QED
        BY <4>3 DEF UncountedRun, BeforeCount, TryBody, Finally
    <3>3. QED
      BY <3>1, <3>2
  <2>3. QED
    BY <1>2, <1>6, <2>1, <2>2, CountedStays, CountWorker
<1>9. QED
  BY <1>2, <1>7, <1>8 DEF Counts

LEMMA CountStep ==
  ASSUME MaxLockLosses = 0, "redis" \notin Faults
  PROVE  OrdinaryInv /\ SoleInv /\ OutcomeInv /\ CountInv /\ [Next]_vars => CountInv'
<1> SUFFICES ASSUME OrdinaryInv, SoleInv, OutcomeInv, CountInv, [Next]_vars
             PROVE  CountInv'
  OBVIOUS
<1> USE DEF postgresVars, mirrorVars, redisVars, requestVars, ghostVars
<1>a. job \in [Runs -> Jobs] /\ status \in [Runs -> Statuses]
      /\ counted \in [Runs -> [Terminal -> Nat]]
  BY AwaitedTyped, CountedTotals
<1>b. ASSUME NEW w \in Workers, NEW f, exec' = [exec EXCEPT ![w] = f],
             UNCHANGED <<status, counted>>,
             \A q \in Runs : job'[q].state = "none" => job[q].state = "none",
             f.pc \in BeforeCount => f.run \in Runs /\ Uncounted(f.run)
      PROVE  CountInv'
  <2>1. \A q \in Runs : CountKept(q)
    BY <1>b DEF CountKept
  <2>2. UncountedRun(f)'
    BY <1>b DEF UncountedRun, Uncounted
  <2>3. CASE Runs = {}
    <3>1. \A v \in Workers : exec'[v].pc \in BeforeCount => exec'[v] = f
      <4>1. \A v \in Workers : exec'[v] = f \/ exec'[v] = exec[v]
        BY <1>b, ExecTyped
      <4>2. \A v \in Workers : exec[v].pc = "idle"
        BY <2>3, RunOf
      <4>3. QED
        BY <4>1, <4>2 DEF BeforeCount, TryBody
    <3>2. QED
      BY <1>b, <2>3, <3>1 DEF CountInv, UncountedRun
  <2>4. CASE Runs # {}
    <3>1. PICK r \in Runs : TRUE
      BY <2>4
    <3>2. QED
      BY <1>b, <2>1, <2>2, <3>1, CountedStays, CountWorker
  <2>5. QED
    BY <2>3, <2>4
<1>1. ASSUME NEW w \in Workers, ExecStep(w)
      PROVE  CountInv'
  <2> DEFINE e == exec[w]
  <2>1. CASE e.pc \in TryBody
    <3>1. PICK f : exec' = [exec EXCEPT ![w] = f] /\ TryTarget(e, f)
      BY <1>1, <2>1, TryStep DEF TryMove
    <3>2. UNCHANGED <<status, counted, job>>
      BY <1>1, <2>1, TryStores DEF TryFrame
    <3>3. f.run \in Runs /\ Uncounted(f.run)
      BY <2>1, <3>1, RunOf DEF TryTarget, CountInv, UncountedRun, BeforeCount, TryBody
    <3>4. QED
      BY <1>b, <3>1, <3>2, <3>3
  <2>2. CASE e.pc \in Finishing \cup Finally
    BY <1>1, <2>2, CountFinish
  <2>3. CASE e.pc = "findRun"
    <3>1. PICK f : /\ exec' = [exec EXCEPT ![w] = f] /\ f.run = e.run
                   /\ \/ f.pc = "settleJob"
                      \/ f.pc = "createSandbox" /\ status[e.run] = "RUNNING"
      BY <1>1, <2>3, FindStep DEF FindMove, SameJob
    <3>2. UNCHANGED <<status, counted, job>>
      BY <1>1, <2>3, FindStep DEF storeVars
    <3>3. e.run \in Runs
      BY <2>3, RunOf
    <3>4. status[e.run] = "RUNNING" => Uncounted(e.run)
      BY <1>a, <3>3 DEF CountInv, CountedRight, Uncounted, Terminal
    <3>5. QED
      BY <1>b, <3>1, <3>2, <3>3, <3>4 DEF BeforeCount, TryBody
  <2>4. CASE SettleJob(w)
    <3>1. \A q \in Runs : job'[q].state = "none" => job[q].state = "none"
      BY <1>a, <2>4 DEF SettleJob, Jobs
    <3>2. exec' = [exec EXCEPT ![w] = Idle] /\ UNCHANGED <<status, counted>>
      BY <2>4 DEF SettleJob
    <3>3. QED
      BY <1>b, <3>1, <3>2, IdleOrdinary DEF BeforeCount, TryBody
  <2>5. QED
    BY <1>1, <2>1, <2>2, <2>3, <2>4, WorkerCases
<1>2. ASSUME NEW w \in Workers, WorkerCrash(w)
      PROVE  CountInv'
  <2>1. exec' = [exec EXCEPT ![w] = Idle] /\ UNCHANGED <<status, counted, job>>
    BY <1>2 DEF WorkerCrash
  <2>2. QED
    BY <1>b, <2>1, IdleOrdinary DEF BeforeCount, TryBody
<1>3. ASSUME NEW w \in Workers, NEW r \in Runs, TakeJob(w, r)
      PROVE  CountInv'
  <2>1. UNCHANGED <<status, counted>>
        /\ \A q \in Runs : job'[q].state = "none" => job[q].state = "none"
    BY <1>a, <1>3 DEF TakeJob, Jobs
  <2>2. PICK f : exec' = [exec EXCEPT ![w] = f] /\ f.pc = "findRun"
    BY <1>3, TakeStep DEF TakeMove
  <2>3. QED
    BY <1>b, <2>1, <2>2 DEF BeforeCount, TryBody
<1>4. ASSUME NEW r \in Runs, RequestStep(r) \/ QueueStep(r)
      PROVE  CountInv'
  <2>1. UNCHANGED <<exec, counted>>
    BY <1>4, OutsideStep
  <2>2. ASSUME NEW q \in Runs
        PROVE  CountKept(q)
    <3>1. CASE (CreateRun(r) \/ FailRow(r)) /\ q = r
      <4>1. create[r] \in Unoffered /\ UNCHANGED job
        BY <3>1 DEF CreateRun, FailRow, Unoffered
      <4>2. Uncounted(r)
        BY <4>1 DEF OutcomeInv, Announced, CountInv, CountedRight
      <4>3. QED
        BY <2>1, <3>1, <4>1, <4>2 DEF CountKept
    <3>2. CASE (CreateRun(r) \/ FailRow(r)) /\ q # r
      BY <1>a, <2>1, <3>2 DEF CreateRun, FailRow, CountKept
    <3>3. CASE Enqueue(r) \/ QueueStep(r)
      BY <1>a, <2>1, <3>3 DEF Enqueue, QueueStep, RecoverJob, LoseLock, MoveStalled,
         SandboxExpires, CountKept, Jobs
    <3>4. CASE \/ SetRun(r) \/ AuditCreated(r) \/ FailDocument(r) \/ CreateThrow(r)
               \/ ApiCrash(r) \/ ReadForCancel(r) \/ CancelStep(r) \/ KeyExpires(r)
      BY <2>1, <3>4 DEF SetRun, AuditCreated, FailDocument, CreateThrow, ApiCrash,
         ReadForCancel, CancelStep, SetCancelKey, AuditCancel, CancelThrow, KeyExpires,
         CountKept
    <3>5. QED
      BY <1>4, <3>1, <3>2, <3>3, <3>4 DEF RequestStep, CreateStep
  <2>3. \A v \in Workers : UncountedRun(exec[v])'
    BY <2>1 DEF CountInv, UncountedRun, Uncounted
  <2>4. QED
    BY <2>2, <2>3, CountedStays DEF CountInv
<1>5. CASE UNCHANGED vars
  BY <1>5 DEF vars, storeVars, CountInv, CountedRight, UncountedRun, Uncounted
<1>6. QED
  BY <1>1, <1>2, <1>3, <1>4, <1>5 DEF Next, RequestStep, QueueStep

\* While Redis answers and no lock lapses, agent_runs_total counts a run at most once,
\* under the status it has: the only way back from the counter to finishRun is a publish
\* that throws.
THEOREM CounterCountsOnce ==
  ASSUME MaxLockLosses = 0, "redis" \notin Faults
  PROVE  Spec => []CountedOnce
<1>1. Init => CountInv
  BY IdleOrdinary DEF Init, CountInv, CountedRight, UncountedRun, Uncounted,
     BeforeCount, TryBody
<1>2. CountInv => CountedOnce
  BY DEF CountInv, CountedRight, CountedOnce
<1>3. NoLostSignal
  BY DEF NoLostSignal
<1>4. QED
  BY <1>1, <1>2, <1>3, CountStep, OrdinaryInvariant, SoleInvariant, OutcomeInvariant,
     PTL DEF Spec

-----------------------------------------------------------------------------
(* A cancellation costs one more model call at most.                       *)

\* Redis answers and no worker dies, so that every execution settles its job.
Settles == "redis" \notin Faults /\ MaxWorkerCrashes = 0

JobSettles(r) ==
  \/ job[r].state = "done"
  \/ \E w \in Workers : exec[w].run = r /\ exec[w].pc = "settleJob"

\* No execution of r calls the model any more.
Over(r) ==
  /\ \A w \in Workers : exec[w].run = r => exec[w].pc \notin TryBody
  /\ status[r] \in Terminal \/ (Settles /\ JobSettles(r))

LateRun(r) ==
  /\ history[r].lateCalls <= 1
  /\ ~ history[r].cancelled => history[r].lateCalls = 0
  /\ history[r].cancelled /\ r \notin cancelKeys => Over(r)

LateExec(e) ==
  e.pc = "callModel" /\ history[e.run].cancelled => history[e.run].lateCalls = 0

LateInv ==
  /\ \A r \in Runs : LateRun(r)
  /\ \A w \in Workers : LateExec(exec[w])

\* An execution enters its try block through findRun, which looked at the status.
LEMMA TryEntered ==
  ASSUME OrdinaryInv, [Next]_vars, NEW v \in Workers, exec'[v].pc \in TryBody
  PROVE  /\ exec[v].run = exec'[v].run /\ exec[v].pc \in TryBody \cup {"findRun"}
         /\ exec[v].pc = "findRun" => status[exec[v].run] = "RUNNING"
         /\ exec'[v].pc = "callModel" =>
              exec'[v] = exec[v]
                \/ (exec[v].pc = "checkCancel" /\ exec[v].run \notin cancelKeys
                    /\ UNCHANGED history)
<1>1. CASE exec'[v] = exec[v]
  BY <1>1 DEF TryBody
<1>2. ASSUME NEW w \in Workers, NEW f, exec' = [exec EXCEPT ![w] = f], exec'[v] # exec[v]
      PROVE  w = v /\ exec'[v] = f
  BY <1>2, ExecTyped
<1>3. CASE exec'[v] # exec[v] /\ \E w \in Workers : ExecStep(w)
  <2>1. PICK w \in Workers : ExecStep(w)
    BY <1>3
  <2>2. CASE exec[w].pc \in TryBody
    <3>1. PICK f : exec' = [exec EXCEPT ![w] = f] /\ TryTarget(exec[w], f)
      BY <2>1, <2>2, TryStep DEF TryMove
    <3>2. w = v /\ exec'[v] = f
      BY <1>2, <1>3, <3>1
    <3>3. exec[v].pc # "callModel" => UNCHANGED history
      BY <2>1, <2>2, <3>2, TryStores
    <3>4. QED
      BY <2>2, <3>1, <3>2, <3>3 DEF TryTarget, TryBody
  <2>3. CASE exec[w].pc \in Finishing \cup Finally
    <3>1. PICK f : /\ exec' = [exec EXCEPT ![w] = f]
                   /\ Went(exec[w], f) \/ Failed(exec[w], f)
      BY <2>1, <2>3, FinishStep DEF FinishMove
    <3>2. exec'[v] = f
      BY <1>2, <1>3, <3>1
    <3>3. f.pc \notin TryBody
      BY <2>3, <3>1 DEF Went, Failed, After, Unwound, TryBody, Finishing, Finally
    <3>4. QED
      BY <3>2, <3>3
  <2>4. CASE exec[w].pc = "findRun"
    <3>1. PICK f : /\ exec' = [exec EXCEPT ![w] = f] /\ f.run = exec[w].run
                   /\ \/ f.pc = "settleJob"
                      \/ f.pc = "createSandbox" /\ status[exec[w].run] = "RUNNING"
      BY <2>1, <2>4, FindStep DEF FindMove, SameJob
    <3>2. w = v /\ exec'[v] = f
      BY <1>2, <1>3, <3>1
    <3>3. QED
      BY <2>4, <3>1, <3>2 DEF TryBody
  <2>5. CASE SettleJob(w)
    <3>1. exec'[v] = Idle
      BY <1>2, <1>3, <2>5 DEF SettleJob
    <3>2. QED
      BY <3>1, IdleOrdinary DEF TryBody
  <2>6. QED
    BY <2>1, <2>2, <2>3, <2>4, <2>5, WorkerCases
<1>4. CASE exec'[v] # exec[v] /\ \E w \in Workers : WorkerCrash(w)
  <2>1. exec'[v] = Idle
    BY <1>2, <1>4 DEF WorkerCrash
  <2>2. QED
    BY <2>1, IdleOrdinary DEF TryBody
<1>5. CASE exec'[v] # exec[v] /\ \E w \in Workers, r \in Runs : TakeJob(w, r)
  <2>1. PICK f : exec'[v] = f /\ f.pc = "findRun"
    BY <1>2, <1>5, TakeStep DEF TakeMove
  <2>2. QED
    BY <2>1 DEF TryBody
<1>6. CASE UNCHANGED exec
  BY <1>1, <1>6
<1>7. QED
  BY <1>1, <1>3, <1>4, <1>5, <1>6, OutsideStep DEF Next, RequestStep, QueueStep, vars

\* What a step does to the history of a run.
Asks(r) ==
  /\ r \in cancelKeys' /\ history'[r].cancelled
  /\ history'[r].lateCalls = history[r].lateCalls

Calls(w) ==
  /\ exec[w].pc = "callModel" /\ exec'[w].pc # "callModel"
  /\ UNCHANGED cancelKeys

Called(r) ==
  /\ history'[r].cancelled = history[r].cancelled
  /\ history'[r].lateCalls = IF history[r].cancelled THEN history[r].lateCalls + 1
                                                     ELSE history[r].lateCalls

LEMMA HistoryMoves ==
  ASSUME OrdinaryInv, [Next]_vars, NEW r \in Runs
  PROVE  \/ history'[r] = history[r]
         \/ Asks(r) /\ UNCHANGED exec
         \/ \E w \in Workers : exec[w].run = r /\ Calls(w) /\ Called(r)
<1> USE DEF postgresVars, mirrorVars, redisVars, requestVars, ghostVars
<1>a. history \in [Runs -> Histories]
  BY DEF OrdinaryInv, TypeInv, StoresTypeOK
<1>1. ASSUME NEW w \in Workers, ExecStep(w)
      PROVE  history'[r] = history[r] \/ (exec[w].run = r /\ Calls(w) /\ Called(r))
  <2>1. CASE exec[w].pc \in TryBody \ {"callModel"}
    BY <1>1, <2>1, TryStores
  <2>2. CASE exec[w].pc = "callModel"
    <3>1. PICK f : exec' = [exec EXCEPT ![w] = f] /\ TryTarget(exec[w], f)
      BY <1>1, <2>2, TryStep DEF TryMove, TryBody
    <3>2. exec'[w].pc # "callModel"
      BY <2>2, <3>1, ExecTyped DEF TryTarget
    <3>3. UNCHANGED cancelKeys
      BY <1>1, <2>2, TryStores DEF TryFrame, TryBody
    <3>4. CASE CallModel(w)
      <4>1. exec[w].run \in Runs
        BY <2>2, RunOf
      <4>2. exec[w].run # r => history'[r] = history[r]
        BY <1>a, <3>4, <4>1 DEF CallModel
      <4>3. exec[w].run = r => Called(r)
        BY <1>a, <3>4, <4>1 DEF CallModel, Called, Histories
      <4>4. QED
        BY <2>2, <3>2, <3>3, <4>2, <4>3 DEF Calls
    <3>5. CASE CallFails(w)
      BY <3>5 DEF CallFails, storeVars
    <3>6. QED
      BY <1>1, <2>2, <3>4, <3>5 DEF ExecStep, FindRun, CreateSandbox, SaveSandbox,
         MirrorSandbox, EmitStarted, CountSteps, CheckCancel, InsertStep, MirrorStep,
         EmitStep, RunTool, SaveOutcome, MirrorOutcome, EmitOutcome, KillSandbox,
         EndStream, ClearCancel, SettleJob
  <2>3. CASE exec[w].pc \in Finishing \cup Finally
    <3>1. Effect(exec[w]) \/ UNCHANGED storeVars
      BY <1>1, <2>3, FinishStep DEF FinishMove
    <3>2. QED
      BY <3>1 DEF Effect, storeVars
  <2>4. CASE exec[w].pc = "findRun"
    BY <1>1, <2>4, FindStep DEF storeVars
  <2>5. CASE SettleJob(w)
    BY <2>5 DEF SettleJob
  <2>6. QED
    BY <1>1, <2>1, <2>2, <2>3, <2>4, <2>5, WorkerCases
<1>2. ASSUME NEW w \in Workers, WorkerCrash(w) \/ \E q \in Runs : TakeJob(w, q)
      PROVE  history'[r] = history[r]
  BY <1>2 DEF WorkerCrash, TakeJob
<1>3. ASSUME NEW q \in Runs, RequestStep(q) \/ QueueStep(q)
      PROVE  history'[r] = history[r] \/ (Asks(r) /\ UNCHANGED exec)
  <2>1. CASE CreateRun(q) \/ CreateStep(q) \/ ApiCrash(q)
    BY <2>1 DEF CreateRun, CreateStep, SetRun, AuditCreated, Enqueue, FailRow,
       FailDocument, CreateThrow, ApiCrash
  <2>2. CASE ReadForCancel(q) \/ AuditCancel(q) \/ CancelThrow(q) \/ KeyExpires(q)
    BY <2>2 DEF ReadForCancel, AuditCancel, CancelThrow, KeyExpires
  <2>3. CASE QueueStep(q)
    BY <2>3 DEF QueueStep, RecoverJob, LoseLock, SandboxExpires
  <2>4. CASE SetCancelKey(q)
    <3>1. q # r => history'[r] = history[r]
      BY <1>a, <2>4 DEF SetCancelKey
    <3>2. q = r => Asks(r) /\ UNCHANGED exec
      BY <1>a, <2>4 DEF SetCancelKey, Asks, Histories
    <3>3. QED
      BY <3>1, <3>2
  <2>5. QED
    BY <1>3, <2>1, <2>2, <2>3, <2>4 DEF RequestStep, CancelStep
<1>4. CASE UNCHANGED vars
  BY <1>4 DEF vars, storeVars
<1>5. QED
  BY <1>1, <1>2, <1>3, <1>4 DEF Next, RequestStep, QueueStep

\* A job that is done stays done, and one about to be settled is.
LEMMA SettlesEnds ==
  ASSUME OrdinaryInv, SoleInv, [Next]_vars, Settles, MaxLockLosses = 0,
         NEW r \in Runs, JobSettles(r)
  PROVE  JobSettles(r)'
<1> USE DEF postgresVars, mirrorVars, redisVars, requestVars, ghostVars
<1>a. job \in [Runs -> Jobs]
  BY AwaitedTyped
<1>b. ASSUME job'[r] = job[r],
             \A u \in Workers : exec[u].pc = "settleJob" => exec'[u] = exec[u]
      PROVE  JobSettles(r)'
  BY <1>b DEF JobSettles
<1>c. ASSUME NEW w \in Workers, NEW f, exec' = [exec EXCEPT ![w] = f],
             exec[w].pc # "settleJob", job'[r] = job[r]
      PROVE  JobSettles(r)'
  BY <1>b, <1>c, ExecTyped
<1>1. ASSUME NEW w \in Workers, ExecStep(w)
      PROVE  JobSettles(r)'
  <2>1. CASE exec[w].pc \in TryBody
    BY <1>1, <1>c, <2>1, TryStep, TryStores DEF TryMove, TryFrame, TryBody
  <2>2. CASE exec[w].pc \in Finishing \cup Finally
    <3>1. PICK f : /\ exec' = [exec EXCEPT ![w] = f]
                   /\ Effect(exec[w]) \/ UNCHANGED storeVars
      BY <1>1, <2>2, FinishStep DEF FinishMove
    <3>2. UNCHANGED job
      BY <3>1 DEF Effect, storeVars
    <3>3. QED
      BY <1>c, <2>2, <3>1, <3>2 DEF Finishing, Finally
  <2>3. CASE exec[w].pc = "findRun"
    BY <1>1, <1>c, <2>3, FindStep DEF FindMove, storeVars
  <2>4. CASE SettleJob(w) /\ exec[w].run = r
    <3>1. job[r].state = "active" /\ Holds(w, r)
      BY <2>4 DEF SettleJob, SoleInv, Sole, Executes, Holds
    <3>2. job' = [job EXCEPT ![r].state = "done"]
      BY <2>4, <3>1, Zenon DEF SettleJob, Settles
    <3>3. job'[r].state = "done"
      BY <1>a, <3>2 DEF Jobs
    <3>4. QED
      BY <3>3 DEF JobSettles
  <2>5. CASE SettleJob(w) /\ exec[w].run # r
    <3>1. job'[r] = job[r] /\ exec' = [exec EXCEPT ![w] = Idle]
      BY <1>a, <2>5 DEF SettleJob
    <3>2. \A u \in Workers : exec[u].run = r => exec'[u] = exec[u]
      BY <2>5, <3>1, ExecTyped
    <3>3. QED
      BY <3>1, <3>2 DEF JobSettles
  <2>6. QED
    BY <1>1, <2>1, <2>2, <2>3, <2>4, <2>5, WorkerCases
<1>2. ASSUME NEW w \in Workers, WorkerCrash(w)
      PROVE  FALSE
  <2>1. spent.workerCrashes \in Nat
    BY AwaitedTyped
  <2>2. QED
    BY <1>2, <2>1 DEF WorkerCrash, Settles
<1>3. ASSUME NEW w \in Workers, NEW q \in Runs, TakeJob(w, q)
      PROVE  JobSettles(r)'
  <2>1. PICK f : exec' = [exec EXCEPT ![w] = f]
    BY <1>3, TakeStep DEF TakeMove
  <2>2. exec[w].pc = "idle" /\ (q # r => job'[r] = job[r])
    BY <1>a, <1>3 DEF TakeJob
  <2>3. q # r
    BY <1>3 DEF TakeJob, JobSettles, SoleInv, Sole, Executes
  <2>4. QED
    BY <1>c, <2>1, <2>2, <2>3
<1>4. ASSUME NEW q \in Runs, RequestStep(q) \/ QueueStep(q)
      PROVE  JobSettles(r)'
  <2>1. UNCHANGED exec
    BY <1>4, OutsideStep
  <2>2. job'[r] = job[r]
    <3>1. CASE CreateRun(q) \/ (CreateStep(q) /\ ~ Enqueue(q)) \/ ApiCrash(q)
      BY <3>1 DEF CreateRun, CreateStep, SetRun, AuditCreated, FailRow, FailDocument,
         CreateThrow, ApiCrash
    <3>2. CASE Enqueue(q)
      <4>1. job[r].state # "none"
        BY DEF JobSettles, SoleInv, Sole, Executes
      <4>2. QED
        BY <1>a, <3>2, <4>1 DEF Enqueue
    <3>3. CASE ReadForCancel(q) \/ CancelStep(q) \/ KeyExpires(q)
      BY <3>3 DEF ReadForCancel, CancelStep, SetCancelKey, AuditCancel, CancelThrow,
         KeyExpires
    <3>4. CASE RecoverJob(q)
      <4>1. q # r
        BY <3>4 DEF RecoverJob, MoveStalled, Holds, JobSettles, SoleInv, Sole, Executes
      <4>2. QED
        BY <1>a, <3>4, <4>1 DEF RecoverJob, MoveStalled
    <3>5. CASE LoseLock(q)
      BY <3>5, AwaitedTyped DEF LoseLock
    <3>6. CASE \E a \in sandboxes[q] : SandboxExpires(q, a)
      BY <3>6 DEF SandboxExpires
    <3>7. QED
      BY <1>4, <3>1, <3>2, <3>3, <3>4, <3>5, <3>6 DEF RequestStep, QueueStep
  <2>3. QED
    BY <1>b, <2>1, <2>2
<1>5. CASE UNCHANGED vars
  BY <1>b, <1>5 DEF vars, storeVars
<1>6. QED
  BY <1>1, <1>2, <1>3, <1>4, <1>5 DEF Next, RequestStep, QueueStep

LEMMA OverStays ==
  ASSUME OrdinaryInv, RecordedInv, SoleInv, [Next]_vars, MaxLockLosses = 0,
         NEW r \in Runs, Over(r)
  PROVE  Over(r)'
<1>1. ASSUME NEW v \in Workers, exec'[v].run = r, exec'[v].pc \in TryBody
      PROVE  FALSE
  <2>1. exec[v].run = r /\ exec[v].pc = "findRun" /\ status[r] = "RUNNING"
    BY <1>1, TryEntered DEF Over
  <2>2. JobSettles(r)
    BY <2>1 DEF Over, Terminal
  <2>3. Executes(v, r) /\ job[r].state = "active"
    BY <2>1 DEF Executes, SoleInv, Sole
  <2>4. QED
    BY <2>1, <2>2, <2>3 DEF JobSettles, SoleInv, Sole, Executes
<1>2. CASE status[r] \in Terminal
  BY <1>1, <1>2, StatusMoves DEF Over, OutcomesKept
<1>3. CASE Settles /\ JobSettles(r)
  BY <1>1, <1>3, SettlesEnds DEF Over, Settles
<1>4. QED
  BY <1>2, <1>3 DEF Over

\* An execution that forgets a cancellation is past its model calls for good.
LEMMA OverBegins ==
  ASSUME OrdinaryInv, RecordedInv, SoleInv, [Next]_vars, ~ KeysExpire,
         SavedInv \/ Settles, NEW r \in Runs, r \in cancelKeys, r \notin cancelKeys'
  PROVE  Over(r)'
<1>1. PICK w \in Workers : /\ exec[w].pc = "clearCancel" /\ exec[w].run = r
                           /\ exec'[w].pc = "settleJob" /\ exec'[w].run = r
  BY KeysStay
<1>2. ASSUME NEW v \in Workers, exec'[v].run = r, exec'[v].pc \in TryBody
      PROVE  FALSE
  <2>1. Executes(w, r) /\ Executes(v, r)
    BY <1>1, <1>2, TryEntered DEF Executes, TryBody
  <2>2. v = w
    BY <2>1 DEF SoleInv, Sole
  <2>3. QED
    BY <1>1, <1>2, <2>2 DEF TryBody
<1>3. CASE SavedInv
  <2>1. status[r] \in Terminal
    BY <1>1, <1>3 DEF SavedInv, SavedRun, SavedStages, Finally
  <2>2. QED
    BY <1>2, <2>1, StatusMoves DEF Over, OutcomesKept
<1>4. CASE Settles
  BY <1>1, <1>2, <1>4 DEF Over, JobSettles, Settles
<1>5. QED
  BY <1>3, <1>4

LEMMA LateStep ==
  ASSUME MaxLockLosses = 0, ~ KeysExpire
  PROVE  OrdinaryInv /\ RecordedInv /\ SoleInv /\ (SavedInv \/ Settles) /\ LateInv
           /\ [Next]_vars => LateInv'
<1> SUFFICES ASSUME OrdinaryInv, RecordedInv, SoleInv, SavedInv \/ Settles, LateInv,
                    [Next]_vars
             PROVE  LateInv'
  OBVIOUS
<1>1. history \in [Runs -> Histories]
  BY DEF OrdinaryInv, TypeInv, StoresTypeOK
<1>2. ASSUME NEW r \in Runs, history'[r].cancelled, r \notin cancelKeys'
      PROVE  Over(r)'
  <2>1. history[r].cancelled
    BY <1>2, AcknowledgedWithKey
  <2>2. CASE r \in cancelKeys
    BY <1>2, <2>2, OverBegins
  <2>3. CASE r \notin cancelKeys
    BY <2>1, <2>3, OverStays DEF LateInv, LateRun
  <2>4. QED
    BY <2>2, <2>3
<1>3. ASSUME NEW r \in Runs
      PROVE  /\ history'[r].lateCalls <= 1
             /\ ~ history'[r].cancelled => history'[r].lateCalls = 0
  <2>1. LateRun(r)
    BY DEF LateInv
  <2>2. CASE history'[r] = history[r]
    BY <2>1, <2>2 DEF LateRun
  <2>3. CASE Asks(r)
    BY <2>1, <2>3 DEF LateRun, Asks
  <2>4. ASSUME NEW w \in Workers, exec[w].run = r, Calls(w), Called(r)
        PROVE  /\ history'[r].lateCalls <= 1
               /\ ~ history'[r].cancelled => history'[r].lateCalls = 0
    <3>1. history[r].cancelled => history[r].lateCalls = 0
      BY <2>4 DEF LateInv, LateExec, Calls
    <3>2. QED
      BY <2>1, <2>4, <3>1 DEF LateRun, Called
  <2>5. QED
    BY <2>2, <2>3, <2>4, HistoryMoves
<1>4. ASSUME NEW v \in Workers, exec'[v].pc = "callModel", history'[exec'[v].run].cancelled
      PROVE  history'[exec'[v].run].lateCalls = 0
  <2>1. exec'[v].pc \in TryBody
    BY <1>4 DEF TryBody
  <2>2. exec'[v].run = exec[v].run /\ exec[v].pc # "idle"
    BY <2>1, TryEntered DEF TryBody
  <2>3. PICK r \in Runs : r = exec[v].run
    BY <2>2, RunOf
  <2>4. LateRun(r)
    BY DEF LateInv
  <2>5. CASE exec'[v] = exec[v]
    <3>1. history[r].cancelled => history[r].lateCalls = 0
      BY <1>4, <2>3, <2>5 DEF LateInv, LateExec
    <3>2. history[r].lateCalls = 0
      BY <2>4, <3>1 DEF LateRun
    <3>3. ASSUME NEW w \in Workers, exec[w].run = r, Calls(w)
          PROVE  FALSE
      <4>1. Executes(w, r) /\ Executes(v, r)
        BY <2>2, <2>3, <3>3 DEF Executes, Calls
      <4>2. w = v
        BY <4>1 DEF SoleInv, Sole
      <4>3. QED
        BY <1>4, <3>3, <4>2 DEF Calls
    <3>4. history'[r] = history[r] \/ Asks(r)
      BY <3>3, HistoryMoves
    <3>5. QED
      BY <2>2, <2>3, <3>2, <3>4 DEF Asks
  <2>6. CASE exec[v].pc = "checkCancel" /\ exec[v].run \notin cancelKeys /\ UNCHANGED history
    <3>1. ~ Over(r)
      BY <2>3, <2>6 DEF Over, TryBody
    <3>2. ~ history[r].cancelled
      BY <2>3, <2>4, <2>6, <3>1 DEF LateRun
    <3>3. QED
      BY <1>4, <2>2, <2>3, <2>6, <3>2
  <2>7. QED
    BY <1>4, <2>1, <2>5, <2>6, TryEntered
<1>5. QED
  BY <1>2, <1>3, <1>4 DEF LateInv, LateRun, LateExec

\* Once a cancellation is acknowledged, at most one more model call of its run begins,
\* as long as no lock lapses, no key reaches its TTL, and either PostgreSQL takes the
\* outcome or every execution settles its job: otherwise the key may be deleted while
\* the run is RUNNING and offered to another worker.
THEOREM OneLateCall ==
  ASSUME MaxLockLosses = 0, ~ KeysExpire, "postgres" \notin Faults \/ Settles
  PROVE  Spec => []LateCallBound
<1>1. Init => LateInv
  BY IdleOrdinary DEF Init, LateInv, LateRun, LateExec
<1>2. LateInv => LateCallBound
  BY DEF LateInv, LateRun, LateCallBound
<1>3. Spec => [](SavedInv \/ Settles)
  <2>1. CASE "postgres" \notin Faults
    BY <2>1, SavedInvariant, PTL
  <2>2. CASE Settles
    <3>1. SavedInv \/ Settles
      BY <2>2
    <3>2. QED
      BY <3>1, PTL
  <2>3. QED
    BY <2>1, <2>2
<1>4. QED
  BY <1>1, <1>2, <1>3, LateStep, OrdinaryInvariant, RecordedInvariant, SoleInvariant,
     PTL DEF Spec

-----------------------------------------------------------------------------
(* A run that ended well is mirrored to the last step.                     *)

Equal(r) == mirrorSteps[r] = steps[r]

\* Nobody is between the first step of r's try block and its event.
Quiet(r) ==
  \A w \in Workers : exec[w].run = r => exec[w].pc \notin TryBody \cup Finishing

MirroredRun(r) ==
  Quiet(r) =>
    /\ status[r] \in {"none", "RUNNING"} => Equal(r)
    /\ status[r] \in {"COMPLETED", "CANCELLED"} =>
         mirror[r].status = status[r] /\ Equal(r)

\* Between the row of a step and its document the two differ by that step, and an
\* execution that went through neither exception nor failure knows no other difference.
MirroredExec(e) ==
  /\ e.pc \in TryBody \ {"mirrorStep"} => Equal(e.run)
  /\ e.pc = "mirrorStep" =>
       steps[e.run] = WithStep(mirrorSteps[e.run], e.index - 1, e.step)
  /\ e.pc \in Finishing /\ e.outcome # "FAILED" => Equal(e.run)

MirrorInv ==
  /\ \A r \in Runs : MirroredRun(r)
  /\ \A w \in Workers : MirroredExec(exec[w])

\* A step that is not about the transcript of r or how r ended well.
MirrorKept(r) ==
  /\ steps'[r] = steps[r] /\ mirrorSteps'[r] = mirrorSteps[r]
  /\ \/ status'[r] = status[r]
     \/ status'[r] = "FAILED"
     \/ status[r] = "none" /\ status'[r] = "RUNNING"
  /\ mirror'[r].status = mirror[r].status \/ status'[r] \notin {"COMPLETED", "CANCELLED"}

LEMMA MirroredStays ==
  ASSUME MirrorInv, NEW r \in Runs, MirrorKept(r), Quiet(r)' => Quiet(r)
  PROVE  MirroredRun(r)'
  BY DEF MirrorInv, MirroredRun, MirrorKept, Equal

\* A step of w on its run r, which nobody else executes.
LEMMA MirrorWorker ==
  ASSUME OrdinaryInv, SoleInv, MirrorInv, NEW w \in Workers, NEW f,
         exec' = [exec EXCEPT ![w] = f], NEW r \in Runs,
         exec[w].run \in {r, NoRun}, Executes(w, r) \/ MirrorKept(r),
         \A q \in Runs : q # r => MirrorKept(q),
         MirroredRun(r)', MirroredExec(f)'
  PROVE  MirrorInv'
<1>1. ASSUME NEW v \in Workers
      PROVE  MirroredExec(exec[v])'
  <2>1. CASE v = w
    <3>1. exec'[v] = f
      BY <2>1, ExecTyped
    <3>2. QED
      BY <3>1 DEF MirroredExec, Equal
  <2>2. CASE v # w
    <3>1. exec'[v] = exec[v]
      BY <2>2, ExecTyped
    <3>2. exec[v].pc # "idle" => exec[v].run \in Runs
      BY RunOf
    <3>3. exec[v].pc # "idle" /\ Executes(w, r) => exec[v].run # r
      BY <2>2 DEF SoleInv, Sole, Executes
    <3>4. exec[v].pc # "idle" => /\ steps'[exec[v].run] = steps[exec[v].run]
                                 /\ mirrorSteps'[exec[v].run] = mirrorSteps[exec[v].run]
      BY <3>2, <3>3 DEF MirrorKept
    <3>5. MirroredExec(exec[v])
      BY DEF MirrorInv
    <3>6. QED
      BY <3>1, <3>4, <3>5 DEF MirroredExec, Equal, TryBody, Finishing
  <2>3. QED
    BY <2>1, <2>2
<1>2. ASSUME NEW q \in Runs, q # r
      PROVE  MirroredRun(q)'
  <2>1. exec[w].run # q
    BY <1>2, RunsAssumption
  <2>2. Quiet(q)' => Quiet(q)
    BY <2>1, ExecTyped DEF Quiet
  <2>3. QED
    BY <1>2, <2>2, MirroredStays
<1>3. QED
  BY <1>1, <1>2 DEF MirrorInv

\* recordStep: the row first, then its document.
LEMMA MirrorInsert ==
  ASSUME OrdinaryInv, NEW w \in Workers, InsertStep(w), MirroredExec(exec[w]),
         "postgres" \notin Faults
  PROVE  \E f : exec' = [exec EXCEPT ![w] = f] /\ MirroredExec(f)'
<1> DEFINE e == exec[w]
           f(n) == [e EXCEPT !.pc = "mirrorStep", !.index = n]
<1>1. PICK r \in Runs : r = e.run
  BY RunOf DEF InsertStep
<1>2. /\ e \in Executions /\ e.pc = "insertStep" /\ e.outcome \in {"none", "COMPLETED"}
      /\ DOMAIN steps = Runs /\ UNCHANGED mirrorSteps
  BY DEF InsertStep, OrdinaryInv, Ordinary, TypeInv, StoresTypeOK, Executing, TryBody,
     mirrorVars
<1>3. Caught(e) /\ mirrorSteps[r] = steps[r]
  BY <1>1, <1>2 DEF Caught, MirroredExec, Equal, TryBody
<1>4. CASE Throw(w)
  <2>1. PICK g : g = Thrown(e)
    OBVIOUS
  <2>2. g.pc = "saveOutcome" /\ g.outcome = "FAILED"
    BY <1>2, <1>3, <2>1, ThrownMoves
  <2>3. MirroredExec(g)'
    BY <2>2 DEF MirroredExec, TryBody
  <2>4. QED
    BY <1>4, <2>1, <2>3 DEF Throw
<1>5. CASE /\ steps' = [steps EXCEPT ![r] = WithStep(@, e.index, e.step)]
           /\ Answered(w, f(e.index + 1))
  <2>1. ServiceOf[e.pc] = "postgres"
    BY <1>2 DEF ServiceOf, ExecStages, TryBody
  <2>2. exec' = [exec EXCEPT ![w] = f(e.index + 1)]
    BY <1>5, <2>1 DEF Answered, CallThrows
  <2>3. \A n \in Nat : /\ f(n).pc = "mirrorStep" /\ f(n).index = n
                       /\ f(n).run = r /\ f(n).step = e.step
    BY <1>1, <1>2 DEF Executions
  <2>4. e.index + 1 \in Nat /\ (e.index + 1) - 1 = e.index
    BY <1>2 DEF Executions
  <2>5. steps'[r] = WithStep(mirrorSteps'[r], e.index, e.step)
    BY <1>2, <1>3, <1>5 DEF WithStep
  <2>6. PICK g : g = f(e.index + 1)
    OBVIOUS
  <2> HIDE DEF f
  <2>7. PICK i, type : i = e.index /\ type = e.step
    OBVIOUS
  <2>8. /\ g.pc = "mirrorStep" /\ g.run = r /\ g.index - 1 = i /\ g.step = type
        /\ steps'[r] = WithStep(mirrorSteps'[r], i, type)
    BY <2>3, <2>4, <2>5, <2>6, <2>7
  <2>9. MirroredExec(g)'
    BY <2>8 DEF MirroredExec, TryBody, Finishing
  <2>10. QED
    BY <2>2, <2>6, <2>9
<1>6. QED
  BY <1>1, <1>4, <1>5 DEF InsertStep

LEMMA MirrorDocument ==
  ASSUME OrdinaryInv, NEW w \in Workers, MirrorStep(w), MirroredExec(exec[w])
  PROVE  \E f : exec' = [exec EXCEPT ![w] = f] /\ MirroredExec(f)'
<1> DEFINE e == exec[w]
           f == [e EXCEPT !.pc = "emitStep"]
<1>1. PICK r \in Runs : r = e.run
  BY RunOf DEF MirrorStep
<1>2. /\ e \in Executions /\ e.pc = "mirrorStep" /\ e.outcome \in {"none", "COMPLETED"}
      /\ DOMAIN mirrorSteps = Runs /\ UNCHANGED steps
  BY DEF MirrorStep, OrdinaryInv, Ordinary, TypeInv, StoresTypeOK, Executing, TryBody,
     postgresVars
<1>3. Caught(e) /\ steps[r] = WithStep(mirrorSteps[r], e.index - 1, e.step)
  BY <1>1, <1>2 DEF Caught, MirroredExec, TryBody
<1>4. CASE exec' = [exec EXCEPT ![w] = Thrown(e)]
  <2>1. PICK g : g = Thrown(e)
    OBVIOUS
  <2>2. g.pc = "saveOutcome" /\ g.outcome = "FAILED"
    BY <1>2, <1>3, <2>1, ThrownMoves
  <2>3. MirroredExec(g)'
    BY <2>2 DEF MirroredExec, TryBody
  <2>4. QED
    BY <1>4, <2>1, <2>3
<1>5. CASE /\ mirrorSteps' = [mirrorSteps EXCEPT ![r] = WithStep(@, e.index - 1, e.step)]
           /\ exec' = [exec EXCEPT ![w] = f]
  <2>1. PICK g : g = f
    OBVIOUS
  <2>2. g.pc = "emitStep" /\ g.run = r
    BY <1>1, <1>2, <2>1 DEF Executions
  <2>3. mirrorSteps'[r] = steps'[r]
    BY <1>2, <1>3, <1>5
  <2>4. MirroredExec(g)'
    BY <2>2, <2>3 DEF MirroredExec, Equal, TryBody, Finishing
  <2>5. QED
    BY <1>5, <2>1, <2>4
<1>6. QED
  BY <1>1, <1>4, <1>5 DEF MirrorStep, Goto, Answered, CallThrows, Throw

LEMMA MirrorTry ==
  ASSUME OrdinaryInv, SoleInv, OutcomeInv, MirrorInv, "postgres" \notin Faults,
         NEW w \in Workers, ExecStep(w), exec[w].pc \in TryBody
  PROVE  MirrorInv'
<1> DEFINE e == exec[w]
<1>1. PICK f : exec' = [exec EXCEPT ![w] = f] /\ TryTarget(e, f)
  BY TryStep DEF TryMove
<1>2. PICK r \in Runs : r = e.run
  BY RunOf DEF TryBody
<1>3. MirroredExec(e) /\ Executes(w, r) /\ f.run = r
  BY <1>1, <1>2 DEF MirrorInv, Executes, TryTarget, TryBody
<1>4. exec'[w] = f
  BY <1>1, ExecTyped
<1>5. MirroredExec(f)'
  <2>1. CASE e.pc = "insertStep"
    <3>1. InsertStep(w)
      BY <2>1 DEF ExecStep, CallFails, CallThrows, ServiceOf, ExecStages, TryBody, FindRun,
         CreateSandbox, SaveSandbox, MirrorSandbox, EmitStarted, CountSteps, CheckCancel,
         CallModel, MirrorStep, EmitStep, RunTool, SaveOutcome, MirrorOutcome,
         EmitOutcome, KillSandbox, EndStream, ClearCancel, SettleJob
    <3>2. PICK g : exec' = [exec EXCEPT ![w] = g] /\ MirroredExec(g)'
      BY <1>3, <3>1, MirrorInsert
    <3>3. f = g
      BY <1>4, <3>2, ExecTyped
    <3>4. QED
      BY <3>2, <3>3
  <2>2. CASE e.pc = "mirrorStep" /\ MirrorStep(w)
    <3>1. PICK g : exec' = [exec EXCEPT ![w] = g] /\ MirroredExec(g)'
      BY <1>3, <2>2, MirrorDocument
    <3>2. f = g
      BY <1>4, <3>1, ExecTyped
    <3>3. QED
      BY <3>1, <3>2
  <2>3. CASE e.pc = "mirrorStep" /\ CallFails(w)
    <3>1. e \in Executions /\ Caught(e)
      BY <2>3 DEF OrdinaryInv, Ordinary, TypeInv, Executing, Caught, TryBody
    <3>2. f = Thrown(e)
      BY <1>4, <2>3, ExecTyped DEF CallFails, CallThrows, Throw
    <3>3. f.pc = "saveOutcome" /\ f.outcome = "FAILED"
      BY <3>1, <3>2, ThrownMoves
    <3>4. QED
      BY <3>3 DEF MirroredExec, TryBody
  <2>4. CASE e.pc \notin {"insertStep", "mirrorStep"}
    <3>1. UNCHANGED <<steps, mirrorSteps>>
      BY <2>4, TryStores
    <3>2. f.pc # "mirrorStep" /\ Equal(r)
      BY <1>1, <1>2, <1>3, <2>4 DEF TryTarget, MirroredExec
    <3>3. QED
      BY <1>3, <3>1, <3>2 DEF MirroredExec, Equal
  <2>5. QED
    BY <2>1, <2>2, <2>3, <2>4
    DEF ExecStep, FindRun, CreateSandbox, SaveSandbox, MirrorSandbox, EmitStarted,
        CountSteps, CheckCancel, CallModel, InsertStep, EmitStep, RunTool, SaveOutcome,
        MirrorOutcome, EmitOutcome, KillSandbox, EndStream, ClearCancel, SettleJob
<1>6. ~ Quiet(r)'
  BY <1>1, <1>3, <1>4 DEF Quiet, TryTarget, Finishing
<1>7. ASSUME NEW q \in Runs, q # r
      PROVE  MirrorKept(q)
  <2>1. status' = status /\ mirror'[q].status = mirror[q].status
    BY TryStores DEF TryFrame
  <2>2. steps'[q] = steps[q]
    <3>1. CASE e.pc # "insertStep"
      BY <3>1, TryStores
    <3>2. CASE e.pc = "insertStep"
      <4>1. InsertStep(w) \/ UNCHANGED steps
        BY <3>2 DEF ExecStep, CallFails, storeVars, postgresVars, FindRun,
           CreateSandbox, SaveSandbox, MirrorSandbox, EmitStarted, CountSteps, CheckCancel,
           CallModel, MirrorStep, EmitStep, RunTool, SaveOutcome, MirrorOutcome,
           EmitOutcome, KillSandbox, EndStream, ClearCancel, SettleJob
      <4>2. DOMAIN steps = Runs
        BY DEF OrdinaryInv, TypeInv, StoresTypeOK
      <4>3. QED
        BY <1>2, <1>7, <4>1, <4>2 DEF InsertStep
    <3>3. QED
      BY <3>1, <3>2
  <2>3. mirrorSteps'[q] = mirrorSteps[q]
    <3>1. CASE e.pc # "mirrorStep"
      BY <3>1, TryStores
    <3>2. CASE e.pc = "mirrorStep"
      <4>1. MirrorStep(w) \/ UNCHANGED mirrorSteps
        BY <3>2 DEF ExecStep, CallFails, storeVars, mirrorVars, FindRun,
           CreateSandbox, SaveSandbox, MirrorSandbox, EmitStarted, CountSteps, CheckCancel,
           CallModel, InsertStep, EmitStep, RunTool, SaveOutcome, MirrorOutcome,
           EmitOutcome, KillSandbox, EndStream, ClearCancel, SettleJob
      <4>2. DOMAIN mirrorSteps = Runs
        BY DEF OrdinaryInv, TypeInv, StoresTypeOK
      <4>3. QED
        BY <1>2, <1>7, <4>1, <4>2 DEF MirrorStep
    <3>3. QED
      BY <3>1, <3>2
  <2>4. QED
    BY <2>1, <2>2, <2>3 DEF MirrorKept
<1>8. QED
  BY <1>1, <1>2, <1>3, <1>5, <1>6, <1>7, MirrorWorker DEF MirroredRun

LEMMA MirrorFinish ==
  ASSUME OrdinaryInv, SoleInv, OutcomeInv, MirrorInv, "postgres" \notin Faults,
         NEW w \in Workers, ExecStep(w), exec[w].pc \in Finishing \cup Finally
  PROVE  MirrorInv'
<1> DEFINE e == exec[w]
<1>1. PICK r \in Runs : r = e.run
  BY RunOf DEF Finishing, Finally
<1>2. PICK f : /\ exec' = [exec EXCEPT ![w] = f]
               /\ Went(e, f) \/ Failed(e, f)
               /\ Effect(e) \/ UNCHANGED storeVars
  BY FinishStep DEF FinishMove
<1>3. /\ Executes(w, r) /\ Consistent(e) /\ MirroredExec(e) /\ MirroredRun(r)
      /\ e.pc \in Finishing => e.outcome \in Terminal
  BY <1>1 DEF Executes, Finishing, Finally, OutcomeInv, MirrorInv, OrdinaryInv,
     TypeInv, Executing, WellFormed, Executions
<1>4. /\ status \in [Runs -> Statuses] /\ mirror \in [Runs -> Documents]
      /\ UNCHANGED <<steps, mirrorSteps>>
  BY <1>2 DEF OrdinaryInv, TypeInv, StoresTypeOK, Effect, storeVars, postgresVars,
     mirrorVars
<1>5. f.run = r /\ exec'[w] = f
  BY <1>1, <1>2, ExecTyped DEF Went, Failed, SameJob
<1>6. ASSUME NEW q \in Runs, q # r
      PROVE  MirrorKept(q)
  <2>1. status'[q] = status[q] /\ mirror'[q].status = mirror[q].status
    <3>1. CASE Effect(e)
      BY <1>1, <1>4, <1>6, <3>1 DEF Effect
    <3>2. CASE UNCHANGED storeVars
      BY <3>2 DEF storeVars, postgresVars, mirrorVars
    <3>3. QED
      BY <1>2, <3>1, <3>2
  <2>2. QED
    BY <1>4, <2>1 DEF MirrorKept
<1>7. MirroredExec(f)'
  <2>1. e.pc \in Finally => f.pc \notin TryBody \cup Finishing
    BY <1>2 DEF Went, Failed, After, Caught, Unwound, TryBody, Finishing, Finally
  <2>2. f.pc \notin TryBody
    BY <1>2 DEF Went, Failed, After, Unwound, TryBody, Finishing, Finally
  <2>3. f.pc \in Finishing /\ f.outcome # "FAILED" => e.pc \in Finishing /\ f.outcome = e.outcome
    BY <1>2, <2>1 DEF Went, Failed, Finishing, Finally
  <2>4. f.pc \in Finishing /\ f.outcome # "FAILED" => Equal(r)
    BY <1>1, <1>3, <2>3 DEF MirroredExec
  <2>5. QED
    BY <1>4, <1>5, <2>2, <2>4 DEF MirroredExec, Equal, TryBody
<1>8. MirroredRun(r)'
  <2>1. CASE f.pc \in Finishing
    BY <1>5, <2>1 DEF MirroredRun, Quiet
  <2>2. CASE e.pc \in Finally
    <3>1. Quiet(r)
      BY <1>1, <1>3, <2>2 DEF Quiet, SoleInv, Sole, Executes, TryBody, Finishing, Finally
    <3>2. status' = status /\ mirror' = mirror
      BY <1>2, <2>2 DEF Effect, storeVars, postgresVars, mirrorVars, Finally
    <3>3. QED
      BY <1>3, <1>4, <3>1, <3>2 DEF MirroredRun, Equal
  <2>3. CASE e.pc \in Finishing /\ f.pc \notin Finishing
    <3>1. e.pc # "saveOutcome"
      BY <1>2, <2>3 DEF Went, Failed, After, ServiceOf, ExecStages, Finishing
    <3>2. status' = status /\ status[r] = e.outcome
      BY <1>1, <1>2, <1>3, <2>3, <3>1
      DEF Effect, storeVars, postgresVars, Consistent, Finishing
    <3>3. CASE e.outcome = "FAILED"
      BY <3>2, <3>3 DEF MirroredRun
    <3>4. CASE e.outcome # "FAILED"
      <4>1. ~ Failed(e, f)
        BY <2>3, <3>4 DEF Failed, Caught, Finishing
      <4>2. e.pc = "emitOutcome"
        BY <1>2, <2>3, <3>1, <4>1 DEF Went, After, Finishing
      <4>3. mirror' = mirror /\ mirror[r].status = e.outcome
        BY <1>1, <1>2, <1>3, <4>2 DEF Effect, storeVars, mirrorVars, Consistent
      <4>4. Equal(r)
        BY <1>1, <1>3, <2>3, <3>4 DEF MirroredExec
      <4>5. e.outcome \notin {"none", "RUNNING"}
        BY <1>3, <2>3 DEF Terminal
      <4>6. QED
        BY <1>4, <3>2, <4>3, <4>4, <4>5 DEF MirroredRun, Equal
    <3>5. QED
      BY <3>3, <3>4
  <2>4. QED
    BY <2>1, <2>2, <2>3
<1>9. QED
  BY <1>1, <1>2, <1>3, <1>6, <1>7, <1>8, MirrorWorker

\* Firestore owes the run of e something that PostgreSQL has, or that e is to record.
Owing(e) ==
  \/ e.pc = "mirrorStep"
  \/ e.pc = "saveOutcome" /\ e.outcome = "FAILED"
  \/ e.pc = "mirrorOutcome" /\ e.outcome # "FAILED"

\* A worker that dies owes Firestore nothing.
DiesEven == \A w \in Workers : WorkerCrash(w) => ~ Owing(exec[w])

LEMMA MirrorInductive ==
  ASSUME MaxLockLosses = 0, "postgres" \notin Faults
  PROVE  /\ OrdinaryInv /\ RecordedInv /\ SoleInv /\ OutcomeInv /\ MirrorInv
         /\ [Next]_vars /\ [DiesEven]_vars
         => MirrorInv'
<1> SUFFICES ASSUME OrdinaryInv, RecordedInv, SoleInv, OutcomeInv, MirrorInv,
                    [Next]_vars, [DiesEven]_vars
             PROVE  MirrorInv'
  OBVIOUS
<1> USE DEF postgresVars, mirrorVars, redisVars, requestVars, ghostVars
<1>a. /\ mirror \in [Runs -> Documents] /\ status \in [Runs -> Statuses]
  BY DEF OrdinaryInv, TypeInv, StoresTypeOK
<1>b. ASSUME NEW r \in Runs, NEW w \in Workers, NEW f, exec' = [exec EXCEPT ![w] = f],
             exec[w].run \in {r, NoRun}, exec[w].pc \notin TryBody \cup Finishing,
             UNCHANGED <<status, steps, mirror, mirrorSteps>>,
             f.run # r \/ f.pc \notin TryBody \cup Finishing \/ Equal(r),
             MirroredExec(f)
      PROVE  MirrorInv'
  <2>1. \A q \in Runs : MirrorKept(q)
    BY <1>b DEF MirrorKept
  <2>2. MirroredExec(f)'
    BY <1>b DEF MirroredExec, Equal
  <2>3. Quiet(r)' => Quiet(r)
    BY <1>b, ExecTyped DEF Quiet
  <2>4. QED
    BY <1>b, <2>1, <2>2, <2>3, MirroredStays, MirrorWorker
<1>1. ASSUME NEW w \in Workers, ExecStep(w)
      PROVE  MirrorInv'
  <2> DEFINE e == exec[w]
  <2>1. CASE e.pc \in TryBody
    BY <1>1, <2>1, MirrorTry
  <2>2. CASE e.pc \in Finishing \cup Finally
    BY <1>1, <2>2, MirrorFinish
  <2>3. CASE e.pc = "findRun"
    <3>1. PICK f : /\ exec' = [exec EXCEPT ![w] = f] /\ f.run = e.run
                   /\ \/ f.pc = "settleJob"
                      \/ f.pc = "createSandbox" /\ status[e.run] = "RUNNING"
      BY <1>1, <2>3, FindStep DEF FindMove, SameJob
    <3>2. UNCHANGED <<status, steps, mirror, mirrorSteps>>
      BY <1>1, <2>3, FindStep DEF storeVars
    <3>3. PICK r \in Runs : r = e.run
      BY <2>3, RunOf
    <3>4. Quiet(r)
      BY <2>3, <3>3 DEF Quiet, SoleInv, Sole, Executes, TryBody, Finishing
    <3>5. status[r] = "RUNNING" => Equal(r)
      BY <3>4 DEF MirrorInv, MirroredRun
    <3>6. MirroredExec(f)
      BY <3>1, <3>3, <3>5 DEF MirroredExec, TryBody, Finishing
    <3>7. e.pc \notin TryBody \cup Finishing
      BY <2>3 DEF TryBody, Finishing
    <3>8. f.pc \notin TryBody \cup Finishing \/ Equal(r)
      BY <3>1, <3>3, <3>5 DEF TryBody, Finishing
    <3>9. QED
      BY <1>b, <3>1, <3>2, <3>3, <3>6, <3>7, <3>8
  <2>4. CASE SettleJob(w)
    <3>1. PICK r \in Runs : r = e.run
      BY <2>4, RunOf DEF SettleJob
    <3>2. /\ exec' = [exec EXCEPT ![w] = Idle] /\ e.pc = "settleJob"
          /\ UNCHANGED <<status, steps, mirror, mirrorSteps>>
      BY <2>4 DEF SettleJob
    <3>3. MirroredExec(Idle) /\ Idle.pc \notin TryBody \cup Finishing
      BY IdleOrdinary DEF MirroredExec, TryBody, Finishing
    <3>4. e.pc \notin TryBody \cup Finishing
      BY <3>2 DEF TryBody, Finishing
    <3>5. QED
      BY <1>b, <3>1, <3>2, <3>3, <3>4
  <2>5. QED
    BY <1>1, <2>1, <2>2, <2>3, <2>4, WorkerCases
<1>2. ASSUME NEW w \in Workers, WorkerCrash(w)
      PROVE  MirrorInv'
  <2> DEFINE e == exec[w]
  <2>1. /\ exec' = [exec EXCEPT ![w] = Idle] /\ e.pc # "idle"
        /\ UNCHANGED <<status, steps, mirror, mirrorSteps>>
    BY <1>2 DEF WorkerCrash, storeVars
  <2>2. PICK r \in Runs : r = e.run
    BY <2>1, RunOf
  <2>3. ~ Owing(e)
    <3>1. exec'[w] = Idle /\ Idle.pc = "idle"
      BY <2>1, ExecTyped DEF Idle
    <3>2. exec' # exec
      BY <2>1, <3>1
    <3>3. QED
      BY <1>2, <3>2 DEF DiesEven, vars
  <2>4. \A q \in Runs : MirrorKept(q)
    BY <2>1 DEF MirrorKept
  <2>5. MirroredExec(Idle)'
    BY IdleOrdinary DEF MirroredExec, TryBody, Finishing
  <2>6. MirroredRun(r)'
    <3>1. CASE e.pc \in TryBody
      <4>1. Equal(r) /\ status[r] = "RUNNING"
        BY <2>2, <2>3, <3>1 DEF MirrorInv, MirroredExec, OutcomeInv, Consistent, Owing
      <4>2. QED
        BY <2>1, <4>1 DEF MirroredRun, Equal
    <3>2. CASE e.pc \in Finishing
      <4>1. e.outcome # "FAILED" => Equal(r)
        BY <2>2, <3>2 DEF MirrorInv, MirroredExec
      <4>2. CASE e.pc = "saveOutcome"
        <5>1. e.outcome # "FAILED" /\ status[r] = "RUNNING"
          BY <2>2, <2>3, <4>2 DEF OutcomeInv, Consistent, Owing
        <5>2. QED
          BY <2>1, <4>1, <5>1 DEF MirroredRun, Equal
      <4>3. CASE e.pc = "mirrorOutcome"
        <5>1. status[r] = "FAILED"
          BY <2>2, <2>3, <4>3 DEF OutcomeInv, Consistent, Owing
        <5>2. QED
          BY <2>1, <5>1 DEF MirroredRun
      <4>4. CASE e.pc = "emitOutcome"
        <5>1. status[r] = e.outcome /\ mirror[r].status = e.outcome
          BY <2>2, <4>4 DEF OutcomeInv, Consistent
        <5>2. QED
          BY <2>1, <4>1, <5>1 DEF MirroredRun, Equal
      <4>5. QED
        BY <3>2, <4>2, <4>3, <4>4 DEF Finishing
    <3>3. CASE e.pc \notin TryBody \cup Finishing
      <4>1. Quiet(r)' => Quiet(r)
        BY <2>1, <3>3, ExecTyped DEF Quiet
      <4>2. QED
        BY <2>4, <4>1, MirroredStays
    <3>4. QED
      BY <3>1, <3>2, <3>3
  <2>7. QED
    BY <2>1, <2>2, <2>4, <2>5, <2>6, MirrorWorker
<1>3. ASSUME NEW w \in Workers, NEW r \in Runs, TakeJob(w, r)
      PROVE  MirrorInv'
  <2>1. /\ exec[w].pc = "idle" /\ exec[w].run = NoRun
        /\ UNCHANGED <<status, steps, mirror, mirrorSteps>>
    BY <1>3 DEF TakeJob, OrdinaryInv, Ordinary
  <2>2. PICK f : exec' = [exec EXCEPT ![w] = f] /\ f.pc = "findRun"
    BY <1>3, TakeStep DEF TakeMove
  <2>3. MirroredExec(f) /\ f.pc \notin TryBody \cup Finishing
    BY <2>2 DEF MirroredExec, TryBody, Finishing
  <2>4. exec[w].pc \notin TryBody \cup Finishing
    BY <2>1 DEF TryBody, Finishing
  <2>5. QED
    BY <1>b, <2>1, <2>2, <2>3, <2>4
<1>4. ASSUME NEW r \in Runs, RequestStep(r) \/ QueueStep(r)
      PROVE  MirrorInv'
  <2>1. UNCHANGED <<exec, steps, mirrorSteps>>
    BY <1>4, OutsideStep
  <2>2. ASSUME NEW q \in Runs
        PROVE  MirrorKept(q)
    <3>1. CASE CreateRun(r)
      <4>1. status[r] = "none" /\ status' = [status EXCEPT ![r] = "RUNNING"]
        BY <3>1 DEF CreateRun, RecordedInv, Recorded
      <4>2. UNCHANGED mirror
        BY <3>1 DEF CreateRun
      <4>3. QED
        BY <1>a, <2>1, <4>1, <4>2 DEF MirrorKept
    <3>2. CASE FailRow(r)
      BY <1>a, <2>1, <3>2 DEF FailRow, MirrorKept
    <3>3. CASE SetRun(r) \/ FailDocument(r)
      <4>1. create[r] \in Unoffered /\ UNCHANGED status
        BY <3>3 DEF SetRun, FailDocument, Unoffered
      <4>2. status[r] \notin {"COMPLETED", "CANCELLED"}
        BY <4>1 DEF OutcomeInv, Announced
      <4>3. q # r => mirror'[q].status = mirror[q].status
        BY <1>a, <3>3 DEF SetRun, FailDocument
      <4>4. QED
        BY <2>1, <4>1, <4>2, <4>3 DEF MirrorKept
    <3>4. CASE \/ AuditCreated(r) \/ Enqueue(r) \/ CreateThrow(r) \/ ApiCrash(r)
               \/ ReadForCancel(r) \/ CancelStep(r) \/ KeyExpires(r)
      BY <2>1, <3>4 DEF AuditCreated, Enqueue, CreateThrow, ApiCrash, ReadForCancel,
         CancelStep, SetCancelKey, AuditCancel, CancelThrow, KeyExpires, MirrorKept
    <3>5. CASE QueueStep(r)
      BY <2>1, <3>5 DEF QueueStep, RecoverJob, LoseLock, SandboxExpires, MirrorKept
    <3>6. QED
      BY <1>4, <3>1, <3>2, <3>3, <3>4, <3>5 DEF RequestStep, CreateStep
  <2>3. \A q \in Runs : Quiet(q)' => Quiet(q)
    BY <2>1 DEF Quiet
  <2>4. \A v \in Workers : MirroredExec(exec[v])'
    BY <2>1 DEF MirrorInv, MirroredExec, Equal
  <2>5. QED
    BY <2>2, <2>3, <2>4, MirroredStays DEF MirrorInv
<1>5. CASE UNCHANGED vars
  BY <1>5 DEF vars, storeVars, MirrorInv, MirroredRun, MirroredExec, Quiet, Equal
<1>6. QED
  BY <1>1, <1>2, <1>3, <1>4, <1>5 DEF Next, RequestStep, QueueStep

\* While PostgreSQL answers and no lock lapses, a run that ended COMPLETED or CANCELLED
\* has every step in Firestore, and the document has its status: a document that could
\* not be written has turned the run FAILED. Workers may die, only not in the middle of
\* recordStep or finishRun, nor on the way from a failure to the row that records it.
THEOREM EndedWellMirroredDespiteDeaths ==
  ASSUME MaxLockLosses = 0, "postgres" \notin Faults
  PROVE  Spec /\ [][SignalsHeard]_vars /\ [][DiesEven]_vars => []SettledRunMirrored
<1>1. Init => MirrorInv
  BY IdleOrdinary DEF Init, MirrorInv, MirroredRun, MirroredExec, Equal, TryBody, Finishing
<1>2. SoleInv /\ MirrorInv => SettledRunMirrored
  <2> SUFFICES ASSUME SoleInv, MirrorInv, NEW r \in Runs, job[r].state = "done",
                      status[r] \in {"COMPLETED", "CANCELLED"}
               PROVE  mirror[r].status = status[r] /\ mirrorSteps[r] = steps[r]
    BY DEF SettledRunMirrored
  <2>1. Quiet(r)
    BY DEF SoleInv, Sole, Executes, Quiet, TryBody, Finishing
  <2>2. QED
    BY <2>1 DEF MirrorInv, MirroredRun, Equal
<1>3. QED
  BY <1>1, <1>2, MirrorInductive, OrdinaryInvariant, RecordedInvariant, SoleInvariant,
     OutcomeHeard, PTL DEF Spec

\* Where no worker dies at all, that holds of every behaviour.
THEOREM EndedWellMirrored ==
  ASSUME MaxLockLosses = 0, MaxWorkerCrashes = 0, "postgres" \notin Faults, NoLostSignal
  PROVE  Spec => []SettledRunMirrored
<1>1. ASSUME OrdinaryInv PROVE DiesEven
  <2>1. spent.workerCrashes \in Nat
    BY <1>1, AwaitedTyped
  <2>2. QED
    BY <2>1 DEF DiesEven, WorkerCrash
<1>2. QED
  BY <1>1, EndedWellMirroredDespiteDeaths, HeardInvariant, OrdinaryInvariant, PTL

==============================================================================
