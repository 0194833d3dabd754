------------------------------ MODULE RunState -------------------------------
(***************************************************************************)
(* The life of an agent run across the processes and stores it touches:    *)
(*                                                                         *)
(*   - the HTTP request that creates it (AgentRunsService.create),         *)
(*   - the requests that ask for its cancellation (AgentRunsService.cancel *)
(*     and AgentLoopService.requestCancellation),                          *)
(*   - the BullMQ queue that carries its job (AgentRunQueue), and          *)
(*   - the queue workers that execute it (AgentLoopService.execute).       *)
(*                                                                         *)
(* Every awaited call is one step, so that any other process can act       *)
(* between two awaits, and a process can die there.  A call takes effect   *)
(* and returns, or throws; the services whose calls may throw are Faults.  *)
(* One that throws has had no effect or, if LostReplies, only its reply    *)
(* was lost.                                                               *)
(***************************************************************************)
EXTENDS Naturals, FiniteSets

CONSTANTS
  Runs,              \* identifiers of agent runs
  Workers,           \* execution slots of the queue workers, of all replicas
  Cancellable,       \* bound: the runs that somebody may ask to cancel
  MaxIterations,     \* AGENT_MAX_ITERATIONS
  MaxTexts,          \* bound: text blocks in one model response
  MaxToolUses,       \* bound: tool_use blocks in one model response
  MaxStalledCount,   \* BullMQ's default maxStalledCount, which the code keeps
  Faults,            \* the services whose calls may throw
  LostReplies,       \* may a call that throws have taken effect?
  KeysExpire,        \* may a cancellation key reach its TTL?
  MaxWorkerCrashes,  \* bound: executions lost to the death of their process
  MaxApiCrashes,     \* bound: create requests lost to the death of theirs
  MaxLockLosses,     \* bound: jobs whose lock lapses under a living worker
  NoRun              \* the run of an idle worker

Services == {"postgres", "firestore", "redis", "anthropic", "e2b"}

ASSUME RunsAssumption == NoRun \notin Runs
ASSUME CancellableAssumption == Cancellable \subseteq Runs
ASSUME IterationsAssumption == MaxIterations \in Nat \ {0}
ASSUME BlocksAssumption == MaxTexts \in Nat /\ MaxToolUses \in Nat
ASSUME StalledAssumption == MaxStalledCount \in Nat
ASSUME FaultsAssumption ==
  Faults \subseteq Services /\ LostReplies \in BOOLEAN /\ KeysExpire \in BOOLEAN
ASSUME BudgetAssumption ==
  MaxWorkerCrashes \in Nat /\ MaxApiCrashes \in Nat /\ MaxLockLosses \in Nat

Terminal  == {"COMPLETED", "FAILED", "CANCELLED"}
StepTypes == {"ASSISTANT", "TOOL_CALL", "TOOL_RESULT"}

VARIABLES
  \* PostgreSQL
  status,       \* agent_runs.status of a run, "none" before its row exists
  sandboxId,    \* agent_runs.sandboxId: the attempt that created it, 0 = null
  steps,        \* agent_steps of a run: index -> type, unique by (run, index)
  audit,        \* the actions in audit_logs about a run
  \* Firestore
  mirror,       \* the document agentRuns/{run}
  mirrorSteps,  \* its subcollection steps: document id -> type
  \* Redis
  job,          \* the BullMQ job of a run: state, attempts made, stalls
  cancelKeys,   \* runs whose agent-cancel key exists
  published,    \* outcomes and "stream_end" published on a run's channel
  \* E2B and the metrics registry
  sandboxes,    \* live sandboxes of a run, named by the attempt that created it
  counted,      \* agent_runs_total increments for a run, by status
  \* processes
  create,       \* where the create request of a run is
  cancel,       \* where the cancel request of a run is
  exec,         \* what each worker is executing
  \* bounds and history
  spent,        \* crashes and lock losses that have happened
  history       \* acknowledged cancellations, and model calls begun after them

postgresVars == <<status, sandboxId, steps, audit>>
mirrorVars   == <<mirror, mirrorSteps>>
redisVars    == <<job, cancelKeys, published>>
requestVars  == <<create, cancel>>
ghostVars    == <<spent, history>>
\* all but the workers, and all but the create requests
storeVars    == <<postgresVars, mirrorVars, redisVars, sandboxes, counted,
                  requestVars, ghostVars>>
vars         == <<storeVars, exec>>

-----------------------------------------------------------------------------
(* Program counters.  The body of the try block of execute, then what the  *)
(* catch and finally clauses run; finishRun is shared by try and catch.     *)

TryBody == {"createSandbox", "saveSandbox", "mirrorSandbox", "emitStarted",
            "countSteps", "checkCancel", "callModel", "insertStep",
            "mirrorStep", "emitStep", "runTool"}
Finishing == {"saveOutcome", "mirrorOutcome", "emitOutcome"}
Finally == {"killSandbox", "endStream", "clearCancel"}
ExecStages == {"idle", "findRun", "settleJob"} \cup TryBody \cup Finishing
              \cup Finally

CreateStages == {"idle", "setRun", "abandon", "audit", "enqueue", "compensate",
                 "compensateMirror", "accepted", "rejected", "lost"}
InFlight == CreateStages \ {"idle", "accepted", "rejected", "lost"}
CancelStages == {"idle", "setKey", "audit"}

\* The service each awaited call of execute talks to.  A tool has no entry: it
\* can throw whatever the state of the service (a command times out).
ServiceOf ==
  [s \in (ExecStages \ {"idle", "settleJob", "runTool"}) |->
     CASE s \in {"findRun", "saveSandbox", "countSteps", "insertStep",
                 "saveOutcome"}                               -> "postgres"
       [] s \in {"mirrorSandbox", "mirrorStep", "mirrorOutcome"} -> "firestore"
       [] s \in {"createSandbox", "killSandbox"}              -> "e2b"
       [] s = "callModel"                                     -> "anthropic"
       [] OTHER                                               -> "redis"]

CreateServiceOf ==
  [s \in InFlight \cup {"idle"} |->
     CASE s \in {"idle", "abandon", "audit", "compensate"}   -> "postgres"
       [] s \in {"setRun", "compensateMirror"}       -> "firestore"
       [] s = "enqueue"                              -> "redis"]

Idle ==
  [pc |-> "idle", run |-> NoRun, attempt |-> 0, sandbox |-> FALSE,
   iteration |-> 0, index |-> 0, texts |-> 0, tools |-> 0,
   step |-> "ASSISTANT", outcome |-> "none"]

Executions ==
  [pc : ExecStages, run : Runs \cup {NoRun}, attempt : Nat, sandbox : BOOLEAN,
   iteration : Nat, index : Nat, texts : Nat, tools : Nat,
   step : StepTypes, outcome : Terminal \cup {"none"}]

Statuses  == {"none", "RUNNING"} \cup Terminal
Documents == [created : BOOLEAN, status : Statuses, sandboxId : Nat]
Jobs      == [state : {"none", "waiting", "active", "done"}, attempt : Nat,
              stalls : Nat]
Budgets   == [workerCrashes : Nat, apiCrashes : Nat, lockLosses : Nat]
Histories == [lateCalls : Nat, cancelled : BOOLEAN]

NoDocument == [created |-> FALSE, status |-> "none", sandboxId |-> 0]

Init ==
  /\ status      = [r \in Runs |-> "none"]
  /\ sandboxId   = [r \in Runs |-> 0]
  /\ steps       = [r \in Runs |-> [i \in {} |-> "ASSISTANT"]]
  /\ audit       = [r \in Runs |-> {}]
  /\ mirror      = [r \in Runs |-> NoDocument]
  /\ mirrorSteps = [r \in Runs |-> [i \in {} |-> "ASSISTANT"]]
  /\ job         = [r \in Runs |-> [state |-> "none", attempt |-> 0,
                                    stalls |-> 0]]
  /\ cancelKeys  = {}
  /\ published   = [r \in Runs |-> {}]
  /\ sandboxes   = [r \in Runs |-> {}]
  /\ counted     = [r \in Runs |-> [s \in Terminal |-> 0]]
  /\ create      = [r \in Runs |-> "idle"]
  /\ cancel      = [r \in Runs |-> "idle"]
  /\ exec        = [w \in Workers |-> Idle]
  /\ spent       = [workerCrashes |-> 0, apiCrashes |-> 0, lockLosses |-> 0]
  /\ history     = [r \in Runs |-> [lateCalls |-> 0, cancelled |-> FALSE]]

==============================================================================
