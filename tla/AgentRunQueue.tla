---------------------------- MODULE AgentRunQueue ----------------------------
(***************************************************************************)
(* The BullMQ queue that AgentRunQueue sets up and the workers that take    *)
(* jobs from it, each a slot of some replica's concurrency.  A job has one  *)
(* attempt as far as its result goes (attempts: 1); a job whose worker died or*)
(* lost its lock is handed out again, which is why a run can be executed twice.*)
(***************************************************************************)
EXTENDS RunState

Holds(w, r) == exec[w].run = r /\ exec[w].attempt = job[r].attempt

TakeJob(w, r) ==
  /\ exec[w].pc = "idle"
  /\ job[r].state = "waiting"
  /\ job' = [job EXCEPT ![r] = [state |-> "active", attempt |-> @.attempt + 1,
                                 stalls |-> @.stalls]]
  /\ exec' = [exec EXCEPT ![w] = [Idle EXCEPT !.pc = "findRun", !.run = r,
                                              !.attempt = job[r].attempt + 1]]
  /\ UNCHANGED <<postgresVars, mirrorVars, cancelKeys, published, sandboxes,
                 counted, requestVars, ghostVars>>

\* execute returned or threw.  With attempts: 1 either way ends the job, unless
\* the queue has taken it from this worker in the meantime.  If Redis cannot be
\* told (RedisService quits every connection on shutdown, this worker's too), the
\* job stays active until the stalled-job check finds it.
SettleJob(w) ==
  LET r == exec[w].run IN
  /\ exec[w].pc = "settleJob"
  /\ \/ job' = IF job[r].state = "active" /\ Holds(w, r)
                 THEN [job EXCEPT ![r].state = "done"] ELSE job
     \/ "redis" \in Faults /\ UNCHANGED job
  /\ exec' = [exec EXCEPT ![w] = Idle]
  /\ UNCHANGED <<postgresVars, mirrorVars, cancelKeys, published, sandboxes,
                 counted, requestVars, ghostVars>>

\* The stalled-job check: an active job without a lock goes back to the queue,
\* and fails for good when it has stalled more than maxStalledCount times.
MoveStalled(r) ==
  /\ job[r].state = "active"
  /\ job' = [job EXCEPT ![r] =
       [state   |-> IF @.stalls < MaxStalledCount THEN "waiting" ELSE "done",
        attempt |-> @.attempt,
        stalls  |-> @.stalls + 1]]

RecoverJob(r) ==
  /\ ~ \E w \in Workers : Holds(w, r)
  /\ MoveStalled(r)
  /\ UNCHANGED <<postgresVars, mirrorVars, cancelKeys, published, sandboxes,
                 counted, requestVars, exec, ghostVars>>

\* The worker is alive but did not renew its lock in time.
LoseLock(r) ==
  /\ \E w \in Workers : Holds(w, r)
  /\ spent.lockLosses < MaxLockLosses
  /\ MoveStalled(r)
  /\ spent' = [spent EXCEPT !.lockLosses = @ + 1]
  /\ UNCHANGED <<postgresVars, mirrorVars, cancelKeys, published, sandboxes,
                 counted, requestVars, exec, history>>

\* The worker's process dies; its sandbox and everything it wrote stay.
WorkerCrash(w) ==
  /\ exec[w].pc # "idle"
  /\ spent.workerCrashes < MaxWorkerCrashes
  /\ exec' = [exec EXCEPT ![w] = Idle]
  /\ spent' = [spent EXCEPT !.workerCrashes = @ + 1]
  /\ UNCHANGED <<postgresVars, mirrorVars, redisVars, sandboxes, counted,
                 requestVars, history>>

==============================================================================
