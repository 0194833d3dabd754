# A verification development for the agent backend

TLA+ models of the NestJS backend in `src/`, the TLC configurations that
model-check them, and TLAPS proofs of theorems about them. File and line
references are to the repository.

1. The system
2. The modules and the code they translate
3. The runs: what each shows, its bounds
4. Fairness, deadlock, symmetry
5. What is proved, and how
6. What is assumed, what is left out
7. Disagreements between the code and what the repository says of it
8. The plan

## 1. The system

### Components, their state and their operations

| Component | State | Operations | Talks to |
| --- | --- | --- | --- |
| Agent run requests, `agent-runs.service.ts` | rows of `agent_runs`, `audit_logs` | `create`, `cancel`, reads | PostgreSQL, Firestore mirror, queue, agent loop |
| Queue, `agent-run.queue.ts` | BullMQ jobs in Redis, one per run (`jobId` = run id) | `enqueue`, a `Worker` with bounded concurrency | Redis, agent loop |
| Agent loop, `agent-loop.service.ts` | local variables of one `execute` call; cancellation keys in Redis | `execute` (`runLoop`, `recordStep`, `finishRun`), `requestCancellation` | all five services |
| Agent events, `agent-events.service.ts`, SSE in `agent.controller.ts` | one `Subject` per observed run and replica, a subscriber connection | `emit`, `complete`, `observe`, message handler | Redis pub/sub, SSE clients |
| Sandboxes and tools, `sandbox.service.ts`, `tools/` | live E2B sandboxes and the files in them | `create`, `kill`; `bash`, `read_file`, `write_file`, `list_files` | E2B |
| Firestore mirror, `firestore-mirror.service.ts` | documents `agentRuns`, `steps`, `messages`, `members` | `setRun`, `updateRun`, `addStep`, `addMessage`, `setMember` | Firestore |
| Organizations, membership cache and guard | `organizations`, `memberships`, cache entries with a TTL | `create`, `addMember`, `get`, `invalidate`, `canActivate` | PostgreSQL, Redis, Firestore |
| Sessions and messages, `firestore.rules` | `sessions`, `messages` | `create`, `update`, `createMessage`, reads | PostgreSQL, Firestore |
| Rate limiter, `redis-throttler.storage.ts` | hit counters and block keys with TTLs | `increment` (one Lua script) | Redis |
| API keys | `api_keys` | `create`, `revoke`, `authenticate` | PostgreSQL |
| Authentication, users | `users` | `verify`, `provisionFromIdentity` | Firebase Auth, PostgreSQL |
| Pagination, `common/pagination.ts` | the cursor, in the client's hands | `buildPage` under four listings: sessions, messages, runs, steps | PostgreSQL |
| Audit, metrics, health, configuration | `audit_logs`, counters | append, increment, probe | |

### How they interact, and what is hard about it

Two groups of components share state; three parts stand alone.

**Runs.** `create` inserts a row (`RUNNING`), mirrors it, writes an audit
record and adds a job. A worker of any replica takes the job and calls
`execute`: sandbox, model calls, tools, one row and one document per step, then
the outcome in the row, in the document and on the run's channel, and in the
`finally` clause the kill of the sandbox, the end of the stream and the removal
of the cancellation key. `cancel` is a key in Redis that the loop reads before
each model call. SSE clients hear of the run through Redis pub/sub. Nothing of
this is one transaction: each `await` is a point where

- another process acts (the cancel request, a second execution of the same run
  after its lock lapsed, another replica);
- the call throws, before its effect or after it, and control goes to a `catch`
  clause whose calls may throw too;
- the process dies, and BullMQ hands the job to another worker, up to
  `maxStalledCount` times.

What makes it correct: a run that was accepted ends, once; what subscribers
were told is final and in both stores; the transcript stays a transcript
whoever wrote it; a cancellation is neither forgotten nor late by more than one
model call; sandboxes do not outlive their execution; clients see the end of
the stream.

**Tenants.** A request passes `JwtAuthGuard` (which provisions the user), then
`OrgMembershipGuard` (cache, row, cache), then its handler (rows, mirror,
audit). Requests of all replicas interleave, none of their calls is inside a
`try`, and the access rules are written twice: in the API over rows and cached
roles, in `firestore.rules` over mirrored documents. What makes it correct:
nobody is let in, by the API or by the rules, with a role that is not in the
rows; an organization always has an owner; the documents say what the rows say;
a revoked key is refused.

**Parts that stand alone.** The rate limiter is one Lua script, run for every
request of every replica, over two keys that expire by themselves: its
correctness is a matter of instants. A walk through a listing is a sequence of
independent queries, between which rows are inserted, committed out of order
and updated; the cursor is a row that may have moved. The tools take whatever
path a model gives them, cut what they return by bytes, and turn some failures
into a message for the model and let others end the run.

`PROJECT.json` lists the hazards line by line, with the properties that would
catch them going wrong.

## 2. The modules and the code they translate

```
 RunState ── AgentRunsService ─┐          RunLifecycle
          ├─ AgentRunQueue ────┼─ AgentRuns ─┘ (refinement)
          └─ AgentLoop ────────┘      ├─ MCAgentRuns
                                      └─ AgentRunsProofs ── AgentRunsRecoveryProofs
                                                                 └─ AgentRunsOutcomeProofs
 AgentEvents ── AgentEventsProofs
 TenancyState ── Organizations ─┐
              ├─ Sessions ──────┼─ Tenancy ── MCTenancy
              ├─ RunRequests ───┤      └─ TenancyProofs
              └─ ApiKeys ───────┘
 RateLimiter ── MCRateLimiter
      └─ RateLimiterProofs
 Pagination ── PaginationProofs
 Tools ── MCTools
      └─ ToolsProofs
```

A step of every model is the code from one `await` to the next: one awaited
call with the synchronous code around it. `map` in `PROJECT.json` names the
lines of each definition.

**RunState** holds the variables: the columns of `agent_runs` that matter
(`status`, `sandboxId`), the rows of `agent_steps` as a function from index to
type (the key `(run, index)` is unique), the two Firestore documents, the job of
a run (`state`, attempts, stalls), cancellation keys, what was published, live
sandboxes, the Prometheus counter, and per process a program counter. `exec[w]`
is a worker slot: the local variables of its `execute` call (attempt, whether
`sandbox` is set, iteration, next step index, text and tool_use blocks left in
the response, the step being recorded, the outcome being finished).

**AgentRunsService** is `create` and `cancel`. `CreateRun` inserts the row;
`SetRun`, `AuditCreated`, `Enqueue` follow; a failing mirror leads to
`FailRow` (`abandon`), a failing enqueue to `FailRow` and `FailDocument`
(`compensate`), a failing audit write to neither, as in the code. `ApiCrash`
loses the request where it is. `ReadForCancel` reads the row and answers or goes
on to `SetCancelKey` and `AuditCancel`; the row may have changed by then.

**AgentRunQueue** is BullMQ as the code configures it (`jobId`, no `attempts`,
default `maxStalledCount`): `TakeJob`, `SettleJob`, `WorkerCrash`, `LoseLock`
(the lock lapses under a living worker), `RecoverJob` (the stalled check: the
job waits again, or fails when it has stalled too often). On shutdown
`RedisService` quits every connection, those of the queue and its worker
included, while executions go on: their calls throw, and `SettleJob` may find
Redis gone, which leaves the job active until the stalled check finds it.

**AgentLoop** is `execute`. `FindRun` skips a run that is not `RUNNING`;
`CreateSandbox` … `EmitStarted` prepare it; `CountSteps` finds the next index;
`CheckCancel`, `CallModel` are one iteration, which leaves blocks to record:
`InsertStep`, `MirrorStep`, `EmitStep` are `recordStep`, `RunTool` a tool; the
last three of the outcome are `SaveOutcome`, `MirrorOutcome`, `EmitOutcome`; the
`finally` clause is `KillSandbox`, `EndStream`, `ClearCancel`. `CallFails` is
any of these calls throwing, without effect or (`LostReplies`) after it, and
`Caught` says where control goes then: from the `try` body to `finishRun(FAILED)`,
from the `catch` clause to `finally`, and so on.

**AgentRuns** composes them, with the fairness of the processes and the
properties. **RunLifecycle** is the abstract specification: a run starts, gets
an outcome, may be demoted to `FAILED` until the outcome has been announced, and
never afterwards. `AgentRuns` implements it (`ImplementsLifecycle`), reading the
`status` column as the outcome and the channel as the announcement.

**AgentEvents** is one replica: the map of Subjects, the subscriber connection
with its queue of commands and its queue of replies and messages, and the SSE
handlers, each at its `await`. A Subject is named by the `observe` that made it,
so that a later one for the same run is another. Every execution of a run ends its
stream (`agent-loop.service.ts:105`), so `Publish` lets events and further ends
follow an end, and what comes without a Subject is ignored (`HandleMessage`).
`RefuseCommand` is a `SUBSCRIBE` or an `UNSUBSCRIBE` that throws: the one fails
the `observe` that waits for it, the other is logged by `removeSubject`. A client
that goes away (`Disconnect`) leaves the Subject in the map. Two variables are
history: `refused` has the runs whose last command was refused, `unheard` what was
published while the channel was not subscribed to.

**TenancyState** holds rows, documents, cache entries and the requests being
served: operation, stage, what came from the client, the role that the guard
found. **Organizations** is the guard (`ReadCache`, `FindMembership`,
`FillCache`, `CacheExpires`), `create` (`FindSlug`, then the transaction
`InsertOrganization`) and `addMember` (`FindUser`, `InsertMembership`,
`Invalidate`, `SetMember`), and `Audit`. **Sessions** is `create`, `getById`,
`update` and `createMessage` with `canAccess`, and `canReadPrivate` of the
rules. **RunRequests** is who may create, list, read and cancel runs: a run is
reached by its id and by the scope of its session (`FindRun`), a session's runs
by the session (`ListRuns`). **ApiKeys** is `create`, `revoke` and
`authenticate`. **Tenancy** composes them.

**RateLimiter** has the two keys of a client as a value and an instant of
expiry, and the script's three ways out as actions: `StillBlocked`, `Exceed`,
`Admit`. `Tick` is the clock. A key is still there in its last millisecond, with
a `PTTL` of 0. An answer may be lost on its way (`failed`).

**Pagination** is a client that walks one of the four listings, at page sizes of
its choice: `FindMany` is the query as Prisma executes it, a comparison with
the values the cursor's row has now and `skip: 1`, and `BuildPage` cuts the
extra row. Rows appear when they are committed, with the time at which their
statement began, and sessions are updated under the walk.

**Tools** is a sequence of tool calls over the files of one sandbox:
`ResolveWorkspacePath` with the `normalize` and `resolve` of Node, `Truncate` by
bytes, and for each tool which failures are a result (`ToolError`) and which
leave `execute` (`Throw`).

Definitions commented `Mutant:` are plausible bugs, used to see that the
properties notice them (`mutants` in `PROJECT.json`); no action uses them.

## 3. The runs: what each shows, its bounds

Passing runs:

| Run | Shows | Instance |
| --- | --- | --- |
| `outcome` | No job is offered before its document and audit record exist (`EnqueuedRunRecorded`); an acknowledged cancellation costs at most one more model call (`LateCallBound`); the counter counts a run once (`CountedOnce`); no path out of `execute` leaks a sandbox (`SandboxesOwned`); the system implements `RunLifecycle` (`ImplementsLifecycle`). | one run, two iterations, up to two texts and two tools per response; PostgreSQL, Firestore and Anthropic may throw at every call, before or after its effect; one API crash |
| `recovery` | With a worker that dies anywhere, and jobs that cannot be settled: the run still ends (`RunSettles`), has a job or a request until then (`NoOrphanedRun`), its cancellation is kept (`CancelRequestKept`), an announced outcome is final and in both stores (`AnnouncedOutcomeFinal`). | one run, one crash; every service but PostgreSQL may throw |
| `sharing` | A cancellation hits its own run (`CancelledOnlyIfAsked`), a run that ends `COMPLETED` or `CANCELLED` is mirrored to its last step (`SettledRunMirrored`), both streams end (`StreamEnds`). | two runs, one worker, a cancellation key that may expire; Firestore, Anthropic, E2B throw, before or after their effect |
| `overlap` | Two executions of one run at once leave a transcript without gaps (`StepsContiguous`), with results after their calls (`TranscriptPaired`), and a mirror that shows only rows (`MirroredStepsMatch`). | two workers, one lapsed lock, one crash |
| `events` | The connection ends up subscribed to a channel exactly if the run has a Subject, unless its last command was refused (`SubscriptionFollowsSubject`); a client gets events in order, each once, with no gap but what was published unsubscribed after an earlier end, up to an end (`ReceivedUninterrupted`); one attached in time sees an end (`AttachedStreamEnds`). | one run with two events and two ends, in any order; three clients; any command refused |
| `tenants` | Roles are those of the rows of the organization in question (`RolesFollowRows`); sessions and their runs are acted on by creator, owners and admins (`SessionsPrivate`); the Firestore rules let nobody read more than the API (`RulesNoWider`); an answered write is in both stores (`AnsweredMirrored`). | two people, two organizations, a session, a message or a run, one request at a time |
| `races` | No organization without an owner, no slug twice (`OrganizationsOwned`); absence is never cached (`MembersLetIn`); a revoked key is refused (`RevokedKeyRefused`). | two people, two organizations, one slug, one key, two requests at a time |
| `limiter` | Less than twice the limit is admitted within a window's length (`BurstBounded`); a refusal has its reason in the same client (`RefusedForExcess`); waiting as long as one was told is enough (`RetryAfterSuffices`); a block is served to its end (`BlockServed`). | limit 2, window 2, a second of 2, instants 0 to 6; one client with six requests, another with one |
| `pages` | Rows that never change are given in order (`ListedInOrder`); what was there from the start is seen (`NothingMissed`), once (`SeenOnce`), but for the two cases in which a session is not; a transcript can be followed while it grows (`StepsWithoutGap`). | each of the four listings, four rows, page sizes 1 and 2, instants 0 to 2, two updates |
| `tools` | A path is worked on where it leads, and only within the workspace (`WorksWherePathLeads`); what was written is read back (`ReadsWhatWasWritten`); outputs are bounded and tell failure from success (`OutputBounded`); what the model is told has failed has changed nothing (`ErrorChangedNothing`). | paths of up to three segments, characters of 1, 2 and 4 bytes, a limit of 4 bytes, two files |

`TypeOK` is checked in one run of each module that shares state: `outcome`,
`events`, `races`. Runs that end in a counterexample, described in section 7:
`mirror_gap`, `late_observer`.

### Bounds, and why they are enough

- *Runs, workers.* Runs share only the workers (and the Redis keys named by
  their ids), so one run has all behaviours but those of competition;
  `sharing` has two runs on one slot for these. Two executions of one run need
  two slots: `overlap`.
- *`MaxIterations`, `MaxTexts`, `MaxToolUses`.* Two iterations have a first and
  a last; two texts and two tools have a step after a step of each kind, and
  a response without tools ends the run. Where a run crosses with crashes or a
  second worker, one of each is used: the next index is counted from the rows,
  which the number of earlier rows does not change.
- *Crashes, lost locks.* One is recovered from (`maxStalledCount` is 1); two
  are not (section 7). These are counted in `spent`.
- *`Faults`* says which services may throw. `outcome` has the ones that every
  step writes to; `recovery` and `sharing` have Redis and E2B. A lost reply of
  `queue.add` is in no run: with it the properties are false (section 7).
- *`Cancellable`* are the runs somebody may ask to cancel.
- *`MaxEvents`, `MaxEnds`.* Two events are enough for a gap, a repetition or a swap;
  two ends let the Subject of a run be ended, made anew and ended again, with
  the events before, between and after. Three clients are the one that
  the first Subject is made for, the one that makes the next while the old
  subscription is being given up, and one that joins it. Runs share the connection
  only and every command and message names its run, so the run is one; the proofs
  are for any number.
- *`Granted`, `Operations`, `Recorded`* choose which roles are granted, which
  routes are called and which audit actions are kept in a run. `tenants` has
  everything about sessions, where two concurrent requests would add states but
  no interference: no operation on a session reads what another has written but
  the row made by `create`. `races` has the operations with a read and a later
  write that depends on it.
  `MessageOrRun` keeps a state with a message apart from one with a run: no
  action on the one reads the other.
- *Limit 2, window 2, six requests.* A limit of one would make the first hit of
  a window its last; six requests are a full window, the excess, a block that
  ends, and the requests after it. The seconds are as long as the window, so
  that rounding up overshoots. The other client shows that keys are apart.
- *Four rows, pages of one and two* give a first, a middle and a last page, and
  a page boundary that a tie, an insertion or an update can fall on; two updates
  can move the cursor's row and another one.
- *Paths* of three segments go out of the workspace and back; the limit of four
  bytes falls on a character's end, and within one.
- *Two people, two organizations* make "another person" and "another
  organization". A third would have to relate to two others at once; no step
  reads more than one row of one organization.

## 4. Fairness, deadlock, symmetry

`AgentRuns!Fairness` is weak fairness of what is scheduled in the code: the next
step of a request in progress and of an execution in progress (the event loop of
a living process goes on, and a client library answers or throws), of a
waiting job being taken by some free worker, and of BullMQ's stalled-job check,
which runs on a timer. Creating, cancelling, failing, crashing, expiring and
lapsing locks are not fair: nothing has to happen. No strong fairness is used.
`AgentEvents!Fairness` says that Redis executes commands, the connection is
read, handlers go on, and every run ends its stream once, which is `StreamEnds` of
`AgentRuns`; further ends may come or not, and clients are free to come and go.

`RateLimiter`, `Pagination`, `Tools` and `Tenancy` have safety properties only
and no fairness.

`CHECK_DEADLOCK FALSE` is set for `AgentRuns` and `AgentEvents`, which really
stop when every run has ended and every stream is over, and for `RateLimiter`
and `Pagination`, whose clocks, requests and walks come to an end. `Tenancy` and
`Tools` never stop and are checked for deadlock.

Symmetry is used where only invariants are checked: of the workers in `overlap`,
of people, organizations, requests, messages, runs and slugs in `tenants` and
`races`.
No definition tells one of these from another.

## 5. What is proved, and how

Every safety property that a run checks is also a theorem, and so is the
refinement of `RunLifecycle`: TLC shows them on the instances of section 3, TLAPS for every
value of the constants. The constants are assumed to be what the modules name
(`None` and `NoRun` are no ids, bounds are naturals, `MaxIterations` and page
sizes are positive, granted roles are roles, there is a run whose events are
observed). Some theorems of `AgentRuns` have hypotheses on which services fail
and what dies; each is satisfied by the run that checks the property, and is
needed, as said below.

### The life of a run

`AgentRunsProofs`, without hypotheses:

- `TypeCorrect`: `Spec => []TypeOK`. The type of `exec` has counters that are
  decremented (`texts`, `tools`), so it is not inductive by itself: `TypeInv`
  adds `WellFormed`, which says for each program counter what it implies (a step
  being recorded is one that was pending, an outcome being finished is terminal,
  an execution that is not idle has a run).
- `NoGapInSteps`: `Spec => []StepsContiguous`.
- `ResultsFollowCalls`: `Spec => []TranscriptPaired`.
- `MirrorShowsRows`: `Spec => []MirroredStepsMatch`.

The last three come from one invariant, `TranscriptInv`: the rows are `0..n-1`
(`Contiguous`), results follow calls (`Paired`), documents match rows
(`Mirrored`), and every execution is `Placed`: the index it counted is at most
`n`, and if it has written a row that it is about to mirror, that row is there
with that type; an execution that is going to write a `TOOL_RESULT` at `i` has
seen its own `TOOL_CALL` go to `i - 1`. The argument needs no lock: any number
of executions may have counted the same `n`, the first insert makes the index
of the others stale, and the unique key makes their insert throw. That the index
is `Placed` is what makes an insert extend the rows by exactly one.

`AgentRunsRecoveryProofs` begins with what every later proof uses: the steps of
`Next` as a few kinds of move, each with what it changes (`TryMove` for the `try`
body, `FinishMove` with `Went`, `Failed` and `Effect` for what follows it,
`FindMove`, `TakeMove`, `RequestStep`, `QueueStep`).

| Theorem | States | Hypotheses | Why they are needed |
| --- | --- | --- | --- |
| `RunsRecordedFirst` | `EnqueuedRunRecorded` | none | |
| `CancelledOnRequest` | `CancelledOnlyIfAsked` | none | |
| `CancellationWaits` | `CancelRequestKept` | PostgreSQL answers, no TTL runs out | an outcome that could not be saved leaves the run `RUNNING`, and `finally` removes the key |
| `NoSandboxLeaks` | `SandboxesOwned` | E2B answers, no worker dies | a lost reply or a death leaves a sandbox nobody knows (section 7) |
| `NobodyEnqueuedForgotten` | `ForgottenUnqueued`: only a run whose request died before `queue.add` is RUNNING with nobody to end it | PostgreSQL answers, deaths of workers and lapsed locks together at most `MaxStalledCount` | section 7: the stall that is one too many |
| `NobodyForgotten` | `NoOrphanedRun` | those, and no API process dies | section 7: the API that dies before `queue.add` |

Their invariants: `RecordedInv` (by the stage of `create`, the document and the
audit record exist, and a job that is not `none` has them); `AskedInv` (a set
key, an outcome `CANCELLED` and a row `CANCELLED` belong to a run that was asked
to stop); `SavedInv` (an execution past `saveOutcome` finds a terminal row, so
what deletes the key has saved an outcome); `Owns` (the execution that created a
sandbox, by its attempt, has its kill still to come); `OrphanInv`, which counts:
the stalls of a job and the execution nobody is at work on (`Unheld`) are at most
the deaths and lapsed locks spent, so BullMQ has not given the job up.

`AgentRunsOutcomeProofs` is about executions that do not overlap: no lock lapses
under a living worker (`MaxLockLosses = 0`), from which `SoleInv` follows, that
whoever executes a run holds its job and is alone. With overlap the properties
are false: the second execution overwrites what the first has announced.

| Theorem | States | Further hypotheses | Why they are needed |
| --- | --- | --- | --- |
| `AnnouncementsFinalIfHeard` | `AnnouncedOutcomeFinal` | two exceptions of Redis are true (`SignalsHeard`) | a publish that throws after its effect is followed by `finishRun(FAILED)`; a lost reply of `queue.add` by `compensate` |
| `AnnouncementsFinal` | the same | Redis loses no reply (`NoLostSignal`) | implies `SignalsHeard` |
| `RunsFollowLifecycleIfHeard`, `RunsFollowLifecycle` | `ImplementsLifecycle` | `SignalsHeard`, `NoLostSignal` | the same |
| `CounterCountsOnce` | `CountedOnce` | Redis answers | a publish that throws comes after the counter, and the run is counted again as `FAILED` |
| `OneLateCall` | `LateCallBound` | no TTL runs out; PostgreSQL answers, or Redis answers and no worker dies | a run whose outcome was not saved loses its key, and is executed again if its job was not settled |
| `EndedWellMirroredDespiteDeaths` | `SettledRunMirrored` | PostgreSQL answers, `SignalsHeard`, no worker dies owing Firestore anything (`DiesEven`) | the death between the row and the document is `mirror_gap` |
| `EndedWellMirrored` | the same | PostgreSQL answers, no worker dies, Redis loses no reply | implies those |

`SignalsHeard` and `DiesEven` are hypotheses about steps, `Spec /\ [][...]_vars => ...`,
and say exactly what the properties hang on. `SignalsHeard`: when `emitOutcome` of a
run that ended well throws, nothing was published, and when `queue.add` throws, no
job was added; every other call of the system may lose its reply. `DiesEven`: no
worker dies between the row of a step or of an outcome and its document, nor between
a failure and `saveOutcome`. Used as an `ACTION_CONSTRAINT` on an instance with
one agent run, deaths and lost replies (not kept as a run), they leave TLC no
counterexample, and each of the five conditions dropped gives one.

`OutcomeInv` says for each stage of an execution what the row and the document
are then (`Consistent`), that a run which was announced has no execution that
could still move its outcome (`Announced`), and that a request which may still
write `FAILED` has enqueued nothing (`Unoffered`). The refinement follows from it:
initial states map to initial states, a step of `Next` changes the outcome of at
most one run, and by `OutcomeInv` only as `RunLifecycle` allows; every other step
is a stutter. `CountInv` adds that a run whose execution has not come to the
counter is uncounted. `LateInv` follows the cancellation: the key of a run that
was asked to stop is there until the run is over, and an execution about to call
the model then has read the key before it was set, so its call is the first late
one. `MirrorInv` adds that documents and rows
differ, for the one execution there is, by the step being recorded.

### Tenants

`TenancyProofs`:

- `TypeCorrect`: `Spec => []TypeOK`. The invariant `TypeInv` adds to the types
  of stores (`StoresTyped`) and requests (`Typed`) what a stage implies of its
  operation (`WellFormed`) and that a row looked up earlier is still there
  (`Found`), so that `sessions[s].creator` after two awaits is a field of a row
  and not of null.
- `RolesAreRows`: `Spec => []RolesFollowRows`. A cached role or the role of a
  request was read from a row some steps ago, so it is right as long as rows that
  are there stay (`MembersKept`). The only step that could overwrite one is the
  transaction of `create`, which must meet an organization without rows: hence
  `Backed` (rows only in organizations that exist), hence `addMember` only by
  somebody who has a row (`RoleHeld` at `findUser` and `insertMembership`), which
  is what the guard established. Cache expiry and invalidation at any point only
  remove entries.

In the same module: `EveryOrganizationOwned`, `MembersAdmitted`,
`SessionsStayPrivate`, `RulesAreNoWider`, `AnswersMirrored`,
`RevokedKeysRefused`, for any number of people, organizations and concurrent
requests, from one invariant, `AccessInv`. `StoresAgree` relates the stores:
every document names what its row says (`MemberDocsFollow`, `MessageDocsFollow`,
`RunDocsFollow`), runs lie in sessions that exist, organizations have owners, a
revocation that is on record is in the row. `Informed` says of each request, by its
stage, what it may go by: who was a member is not turned away (`Welcome`), a
handler has been given a role (`LetIn`), the rows it found or made are those it is
about (`InHand`), what it is to record or has answered is in the stores (`Done`),
a key that was revoked when it came in is not accepted (`Authentic`). Both survive
the steps of the other requests by `StoresGrow`: rows stay as they are but for
the revocation of a key, documents and records stay.

### Events of a run

`AgentEventsProofs`, for any number of runs, clients, executions and messages:
`TypeCorrect` (`TypeOK`), `ConnectionFollows` (`SubscriptionFollowsSubject`) and
`ReceivedInOrder` (`ReceivedUninterrupted`), without hypotheses: commands may be
refused, and streams end any number of times.

`ConnectionFollows` rests on types alone. Taking the first command of the queue
leaves what the connection will be subscribed to (`TakenWanted`), or makes the run
one of the `refused`; sending one makes it what the map says (`SentWanted`), because
both places that write the map, `Observe` and `EndSubject`, send the command that
goes with it.

`ReceivedInOrder` needs more. `SubjectsMatch` says which observer's Subject the map
holds. `StreamsInv` is about the connection: an `UNSUBSCRIBE` is sent, and a Subject
is ended, only once the run has ended a stream (`Unsubscribing`, `EndedOver`), so
that after the first message that was heard whatever is not heard comes after an
end (`HeardOn`); what is on its way was heard, is in order, and has all that was
heard after it behind it (`InFlight`). `Received(o)` joins a client to it: what it
has seen follows each other (`SeenInOrder`), what was heard since is on its way
(`RestOnItsWay`), and a stream that completed was seen to an end (`SeenToEnd`).
"Without a gap" holds from one end to the next and not across them, which is what
`Follows` says: between two events that a client received, only those are missing
that were published unheard and after an earlier end of the run.

### The rate limiter

`RateLimiterProofs`, for every limit, window, length of a second and number of
clients and requests. `TypeInv` is `TypeOK` with `KeysInv`: a key's window has
begun and ends at most a window from now.

- `TypeCorrect`: `Spec => []TypeOK`.
- `BurstsBounded`: `Spec => []BurstBounded`, from `Admissions`: what was
  admitted knows its window and its rank in it (`Sound`), and two admissions of
  ranks and windows that differ are apart accordingly (`Apart`). `2 Limit`
  consecutive admissions would need two whole windows.
- `BlocksServed` and `RetriesReleased`: `Spec => []BlockServed` and
  `Spec => []RetryAfterSuffices`, from `Refusals`: a client that was told of a
  block has the key of it until then (`Announced`), and the counter of a blocked
  client is gone when its block is, so that it is not blocked again at once
  (`Outlived`). The rounding is the lemma `SecondsSuffice`.
- `RefusalsJustified`: `Spec => []RefusedForExcess`, from `Excesses`: the
  counter's hits are the last answers of the log, all within its window
  (`Windowed`), and a block key goes back to a hit that exceeded (`Caused`).

### Pages

`PaginationProofs`, for any number of rows and updates and any page sizes:
`TypeCorrect` (`TypeOK`), `ListedOnceInOrder` (`ListedInOrder`), `NoRowMissed`
(`NothingMissed`), `NoRowTwice` (`SeenOnce`) and `TranscriptWithoutGap`
(`StepsWithoutGap`). `InOrder` is a choice, so the first thing to prove is that
there is something to choose: a row's place in the order is one more than the
number of rows before it, which makes the places an injection into `1..n`, and
one into a set of the same size is onto (`InOrderExists`, `InOrderLists`).
`PageFacts` then says what a page is to the rows: its items come after the
cursor, in order, and a row that comes after a cursor which is still listed is
in the page or after its last item. The walk's invariant, `WalkInv`: the cursor is
the last row given (`Following`); what was given is touched, or lies before the
cursor unless that has moved (`Behind`); what was there from the start is given or
lies after it, unless it is gone (`Ahead`). An update takes a session to the head
of the listing, so an updated cursor still lies before what came after it. For
the transcript, indexes have no gap (`Placed`), and `StepsConsecutive` counts the
rows between two steps of a page by a bijection with the indexes between theirs.

### Tools

`ToolsProofs`, for names, paths and texts of any length, any limit and any
sequence of calls: `ToolsWorkWherePathsLead` (`WorksWherePathLeads`),
`ReadsSeeWrites` (`ReadsWhatWasWritten`), `OutputsAreBounded` (`OutputBounded`)
and the action property `ErrorsChangeNothing` (`ErrorChangedNothing`). They
assume that paths are sequences of segments, that texts are sequences of
characters of one to four bytes, and that the limit is not 0. `Resolve`,
`Normalize` and `Bytes` fold a sequence, and what a fold computes for every
sequence takes an induction. The library's induction theorems take an operator,
which no prover here instantiates, so the module proves one for sets
(`SetInduction`): if `n` were the first natural left out, the successor would map
what lies before it into itself without 0, against the pigeonhole principle.
`FoldExists` then finds the function that a fold chooses its result from, and
`FoldAppends` says that one more element is one more step, for an operation given
as a function; `ResolveAppends`, `NormalizeAppends` and `BytesAppends` are its
instances.

- `NormalizeResolves`: normalizing a path does not change where it leads. What
  normalize leaves has no `.`, and a `..` only takes a name away, so following a
  segment in the normalized path and then resolving is resolving and then
  entering it (`FollowResolves`).
- `FilesInv`: files hold what was given, and what is remembered of the writes is
  there, in the workspace (`StillThere`). With `LeadsToTarget`, the path that is
  read is the place that was written.
- `CutExists`: the bytes of the first characters grow from 0 to more than the
  limit, so one character crosses it, and what `Truncate` chooses is there to be
  chosen. `CutIsBounded` counts what is left of it; the line with the exit code
  comes first and is one byte, so no limit cuts it (`TruncateKeepsExitCode`).

### Only model-checked

The liveness properties (`RunSettles`, `StreamEnds`, `AttachedStreamEnds`):
fairness and `ENABLED` are out of the prover's reach.

## 6. What is assumed, what is left out

- A call takes effect and returns, throws without effect, or (where
  `LostReplies`) throws after its effect. Calls are not repeated by the client
  libraries after the model's step has ended.
- PostgreSQL and Firestore are single consistent stores; a Prisma `$transaction`
  is one step; unique indexes reject the second insert.
- A shutdown has no action of its own: it makes the remaining calls of the
  executions under way throw, the settling of their jobs included, or it is the
  death of the worker.
- In `AgentRuns` the lookup of the session in `create`, and the actor's
  rights to see or cancel a run, always succeed; they are the subject of
  `RunRequests`.
- `SandboxesOwned` is checked and proved where E2B answers and workers live. A sandbox whose
  `create` has lost its reply is known to nobody, and so is one of a dead worker;
  both end with E2B's own timeout.
- In `Tenancy` a call whose reply is lost needs no step of its own: it leaves
  what a call that succeeds leaves when the next one throws. Identities keep
  their email. A request that fails in `JwtAuthGuard` has done nothing.
  `listMessages` checks access like `getSession` and is covered by it.
  `authenticate` of `ApiKeysService` is on no route; it is modelled as a request
  of its own.
- `RateLimiter`: Redis's clock does not go back, the script is atomic, and no key
  is evicted. The guard's tracker is a client as a whole.
- `Pagination`: a page is one consistent query. Rows are never deleted, and only
  sessions are updated in a column that orders or filters. A walk starts once and
  a session's creator and organization never change, so the filter is that of
  the status.
- `AgentEvents`: published messages keep their order and come once, and the
  subscriber connection stays up. How many events and ends a run publishes, and
  in which order, is free: executions that overlap or follow each other are
  in it. Fairness is needed for the first end only.
- `Tools`: the sandbox's files have no links; a path has no segment that the
  sandbox would treat specially; a command may change any file; E2B answers
  with what it did or throws.
- Left out: text and titles of sessions and messages, expiry of tokens, loss of
  the subscriber connection to Redis (what is published meanwhile is lost, and
  nothing in the code notices), malformed payloads, metrics other than
  `agent_runs_total`.

Not modelled, or in part, and why:

- *Configuration and wiring.* Validation of environment variables and the module
  graph: no state and no concurrency. The values are the models' constants.
- *Authentication and users.* A request enters with its user provisioned. What
  `TokenVerifierService` asks of a decoded token is a conjunction of conditions
  on a value that Firebase has verified; changes of an email are in
  `PROJECT.json` as a hazard without a property, because nothing says what
  should happen.
- *Metrics, health, audit log.* The run counter and the audit records of runs
  and requests are part of the models; request timing and probes keep no state.
- *Agent events.* Everything but the loss of the connection.

## 7. Disagreements between the code and what the repository says of it

- `mirror_gap`: `README.md:10` says there is "no silent divergence" of the
  mirror. In the counterexample the row of a step is inserted, the worker dies
  before its document is written, the job is handed out again, the next execution
  goes on after the row, and the run ends `COMPLETED` with a step that Firestore
  never gets. The property speaks of steps only (`SettledStepsMirrored`).
- `late_observer`: `agent-events.service.ts:34-36` says SSE clients receive
  events whichever process executes the run. In the counterexample a client is let
  in and its `SUBSCRIBE` sent, the run publishes its end before Redis executes
  it, and the client is attached to a Subject that nobody completes.

Seen while modelling, without a run of their own:

- `agent-run.queue.ts:21-23` says runs "survive API process restarts". The second
  stall of one job exceeds `maxStalledCount`: BullMQ fails the job, nobody
  updates the run, and it is `RUNNING` for ever. A graceful restart does not
  save a run either: its connections are quit under it, its calls throw, and it
  ends `FAILED`, or `RUNNING` until the stalled check hands it out.
- `README.md:70` says "the sandbox is always killed when the run ends." The
  sandbox of an attempt that died is not known to the next one.
- `README.md:14` says that mutating operations are audited; `createMessage`
  writes no audit record.
- `AGENT_MAX_ITERATIONS` bounds an attempt and starts again after a worker's
  death.
- `addMember`, repeated after its mirror write failed, is refused as a conflict:
  the member document is never written, and the Firestore rules keep out a member
  whom the API lets in.
- An API process that dies between the insert of a run and its job leaves the run
  `RUNNING`; a lost reply of `queue.add` leaves a run that is `FAILED` in the row
  while a worker may execute it.
- A text cut within a character ends in U+FFFD, up to two bytes over
  `MAX_OUTPUT_BYTES`, and the notice comes on top; `list_files` is not cut at all.
- `BashTool` drops whether its command failed; the model sees it by the line with
  the exit code. A file that cannot be read or listed is reported as not found
  whatever went wrong, while a `write_file` to a directory and a command that
  times out end the run.
- A worker that dies between an outcome's row and its document leaves a run
  whose document says `RUNNING`: the next attempt finds the row terminal and
  leaves.
- After a lapsed lock, or an execution whose outcome could not be saved, events of
  a run come after its `stream_end`. Clients have been completed by then; one that
  comes back makes a new Subject while the old `UNSUBSCRIBE` is on its way, and a
  client that joins it may be given what was still heard, miss what was
  published before the new `SUBSCRIBE`, and go on.
- A refused `SUBSCRIBE` leaves its Subject in the map, so that every later client of
  the run waits on it and hears nothing; a refused `UNSUBSCRIBE` leaves the
  channel subscribed until the next end.
- A page of sessions whose cursor has left the listing (another status) skips
  one session that nobody has seen, and a walk whose cursor was updated starts
  over from the session's new place.

## 8. The plan

Done: the life of a run, its events, tenancy with runs, the rate limiter,
pages and tools; the abstract life cycle and its refinement; every safety
property of all of them proved, with the hypotheses of the findings taken down to
the steps that break a property.

Next: what can be said with overlap. The theorems of `AgentRunsOutcomeProofs` need
`MaxLockLosses = 0`; two executions of a run break most of their properties, but not
all of what `OutcomeInv` says of a run that was never executed twice.

The order of the modules follows what would hurt most: a run that is lost or
told wrongly, then a person let in wrongly, then the parts that stand alone.
