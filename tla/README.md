# Canvast in TLA+

TLA+ models of the runtime core of Canvast, the configurations that check them
with TLC, and theorems about them proved with TLAPS. Paths are relative to the
repository (`src/src/…` is the TypeScript source, `src/extensions/…` the
extensions that register it with the agent runtime).

## 1. The system

Canvast is a harness around an agent runtime. The runtime calls it through
events (session start, turn start, message start, context, compaction, end of
a run); Canvast keeps what must survive compactions, crashes and restarts in
JSON files of the project's agent directory, and sends hidden messages back to
the runtime to continue work that was cut off. A project may be open in several
processes at once: the terminal, the macOS application's live runtime, a
restarted session.

### Components

| Component | State it keeps | Operations | Hard part |
| --- | --- | --- | --- |
| Serialized state files (`harness/context-continuity/{serialized-state,filesystem,storage}.ts`) | state file with a revision, `<file>.lock` with an owner record | take the lock, refresh, read, reduce, check revision, write a temporary file, rename, release | several processes, crashes between any two system calls, failed writes |
| Context continuity (`harness/context-continuity.ts`) | active turn and its phase, compaction attempts, continuation outbox, receipts, applied event ids | one transition for each of its events | events repeated, late, or of a turn that is gone |
| Request coordinator (`tui/runtime-request-coordinator.ts`) | in memory: primary, response, active and admitted dispatches, flags; on disk: continuity, requests, root | one handler for each runtime event | messages delivered late, twice or never; crashes inside a handler; restart from disk only |
| Runtime resume (`harness/runtime-resume.ts`) | candidates with disposition, claim, validation; applied event ids | reconcile, choose, rebind, claim, release, complete, retire | reads of other files before the lock, two sessions claiming, a poll with a timeout |
| Root execution and status (`harness/runtime-root-execution.ts`, `runtime-status*.ts`) | status snapshot: root, requests, input queue, items | update under the lock, project the root, settle | a settlement that must not pass over open work |
| Batches (`harness/runtime-batch-*.ts`, `tui/runtime-request-coordinator/batch-*.ts`) | commits, directive executions with token and lease | stage, commit, claim, accept, start, settle, release | at-least-once transport, leases, serial directives waiting for the root |
| Sidecars (`harness/sidecar-*.ts`) | the requests (primary, follow-ups, batches), the dispatch of each follow-up, the queue of the open ones; which tool call admitted which dispatch; a state file for each project | begin, suspend, route, record, admit, roll back, settle, hydrate, rebind | follow-ups and batches that interpose, hooks that block after an admission, restarts in between, a file that must be accepted when it is read back |
| Sub-agents and run control (`extensions/sub-agent*.ts`, `desktop-action/orchestration-control.ts`) | reservations, owners, child processes, run registry | reserve, consume, spawn, cancel, settle, shut down | cancellation across an await, signals that fail, shutdown deadline |
| Workflows (`extensions/workflow.ts`) | calls with their steps, the slots all calls share with a queue of waiters, children | plan the next batch, wait for a slot, spawn, time out, cancel, shut down | dependencies that fail or form a cycle, slots given back once, shutdown while steps wait |
| Process lifecycle (`utils/{owned-handle-registry,process-lifecycle,bounded-lifecycle}.ts`) | handles, admission freezes, latched causes | acquire, freeze, signal, reap | signals and deadlines racing an exit |
| Background tasks, monitors | tasks, timers, latched causes | start, stop, time out, drain | the same as for sub-agents |
| Desktop actions (`desktop-action/*.ts`) | request log, live handlers | dispatch an action to its handler | asynchronous handlers over shared files |
| Sandbox and grants (`harness/sandbox*.ts`) | session grants in memory, project grants in a file | grant, revoke, decide | grants shared by processes |
| Canvas graph (`graph/*.ts`, `extensions/canvast-core.ts`), JSON store (`harness/safe-json-file.ts`) | the graph in the memory of each session; one file, its backup, a lock directory | load, view, record, save, quarantine | a crash or power loss between any two calls, readers without a lock, a lock directory left by a crash |
| Orchestration decisions, intent signals, budgets, recall, identity, rendering, CLI, tool extensions, macOS application, scripts | none shared, or counters of one process | classification, text, I/O | not the kind of thing a model checker helps with |

How they interact: the coordinator calls the continuity reducer and the resume
reducer, each through `dispatchSerializedStateUpdate`, and the status functions
through `updateRuntimeStatus`; all three take the owner lock of their own file.
The coordinator sends messages with `pi.sendMessage`, which returns before
anything is delivered; the runtime calls `onMessageStart` and `onContext` when
the message starts or is put into a context. The desktop action `resume.claim`
polls the continuity file for the receipt of what it dispatched. The sidecar
controller reserves capacity of the sub-agents when it admits a dispatch, and
the tool consumes it when it starts; it learns of a batch from the bridge that
stages one and from the coordinator that commits it. Sub-agents and workflows
share the run registry and the handles of processes, not their slots. The
canvas has a file, a lock and a backup of its own.

Every handler of the coordinator is synchronous, so inside one process a
handler is not interleaved with another. What can happen between two of its
writes is a crash, and, as the files are shared, a step of another process.

## 2. Plan

Order, most important first; all but the sixth are done.

1. `SerializedState`: the file protocol all the others rest on. *Proved.*
2. `ContextContinuity`: the reducer, as operators from state to state.
3. `RequestCoordinator`, over `ContextContinuity`, with the runtime and
   restarts. *Proved.*
4. `RuntimeResume`: candidates, claims, several sessions. *Proved.*
5. `BatchExecution`: stage, decision, commit, directive executions with claims,
   the serial line and the settlement of the root. *Proved.*
6. `RootExecution`: the projection over requests, inputs, items, candidate and
   policy that the display uses. Open. What settles the root is part of
   `RequestCoordinator` and `BatchExecution`.
7. `SlotPool` and `SubAgents`: reservations, owners, run registry, children,
   cancellation, shutdown, as an implementation of an abstract pool.
   *Proved*, the refinement too.
8. `SidecarOrchestration`: the controller, its dispatches and its file.
   *Proved.*
9. `Workflow`: dependencies, the shared slots, children, shutdown.
   *Proved.*
10. `CanvasPersistence`: the JSON store under crashes and power losses, with the
    graph of each session on it. *Proved.*

*Proved* is every property of the module's passing run but its liveness.

Left: the grant store (another client of `SerializedState`); `SubAgents` together with
`SidecarOrchestration`, each of which now has its own half of a reservation;
what the model sees of an execution message (the filter of `onContext`), and
the policies that replace or pause the root.

## 3. Modules

### `SerializedState`

One state file, its lock file, and `Proc` slots in which processes run, crash
and are started again. Each step is a system call another process can observe,
or one that observes another process.

| Variable | Code |
| --- | --- |
| `lockFile` | `<file>.lock`: absent, or an owner record (owner, token), possibly still empty |
| `stored` | content of the file: generation (inode), `revision`, events applied |
| `pc`, `attempt`, `event`, `base`, `pinned` | the frame of `withOwnedFileLock` / `dispatchSerializedStateUpdate` / `writeProtectedTextFileAtomic` |
| `kind` | whether the file is written through `dispatchSerializedStateUpdate` or `updateRuntimeStatus`, which has no revision check and no pin |
| `owns`, `acked`, `overlapped`, `misread` | history; `misread`: what a failed read returned was used, and no second read contradicted it |

Actions follow the calls: `CreateLock`, `OpenRefused`, `FillOwner`, `SyncLock`,
`FillFails`, `Refresh`, `Heartbeat`, `ReadState`, `CheckRevision`, `Pin`,
`AssertPinned`, `Publish`, `Release`, `Unlink`, `WorkFails`, `Crash`.
`OpenRefused` is what the code does on EEXIST: the `return` in the `finally` of
`createOwnedLock` discards the exception, so the caller goes on. `Reads` is
`storage.ts:20-29`: any read that fails gives the empty state, because a rename
came in the middle or for any other reason (a fault). A dispatch reads twice, and
the second read, the check of the revision, tells a stored state from the empty
one; an update reads once.

### `ContextContinuity`

Operators, one for each event of `reduceContextContinuity` that changes what
the module keeps (`TurnStarted`, `CompactionPrepared`, …, `SessionStarted`), from
a state record to a state record, with the early returns for duplicates in
`Commit`. `project_restarted` has none, for it only counts restarts of the
project, nor have `continuation_dispatch_succeeded` and
`continuation_acknowledged`, which nothing dispatches. No variables:
`RequestCoordinator` applies them.

### `RequestCoordinator`

One process at a time over one project, with sessions it is started in. `cc` is
the continuity file, `req`, `replied`, `parent` and `root` (request, settlement,
`batchControl`) the part of the status file it uses, `co` the fields of the object (lost by a restart), `host` and `branch`
the runtime's side: its run, its follow-up queue, its compaction, and the
messages of each session file. One action for each handler: `BeginRequest`,
`Retry` (onTurnStart), `MessageStart`, `Context`, `FinalReply`, `SidecarReply`,
`RunEnd` (onAgentEnd with onContinuationRunEnd), `Settled`, `BeforeCompaction`,
`AfterCompaction`, `CompactionAborts`, `SessionStart`, `ResetSession`,
`CancelRoot` (a batch decided during the run), and `Crash`, `CrashInRunEnd` for
the process. A root that a batch cancelled is done whatever is open
(`runtime-root-execution.ts:355-358`), so `Settled` completes its turn. A handler makes all its writes in one
action, except where a crash between them is what matters.

### `RuntimeResume`

Several processes over `runtime-resume.json`, with the part of the continuity
file that counts. Every transition of either file is a step, so a handler with
several is interleaved with the other processes. `disp`, `lease`, `holder`,
`ready`, `bound`, `selected`, `processed` are the file; `pc`, `after`,
`target`, `fresh`, `seenTurn`, `seenReady`, `todo` say what a handler does next
and what it has read; `binding`, `prior`, `poll` are `activeResume` and the
claim that `resume.claim` polls for; `viewRevision` is the revision a user or
client inspected.

### `BatchExecution`

One process over one project, from the inputs typed during a run to the
outcome of the executions they become.

| Variable | Code |
| --- | --- |
| `db` | `runtime-status.json`: `input` (status, policy, checkpoint to wait for), `request` of each input, `line` (directive and execution of input *i* in batch *b*), `revision` of the queue |
| `root`, `answered` | `rootExecution` and the requests with a visible reply |
| `primary`, `active`, `admitted`, `receipt` | fields of the coordinators, lost by a restart |
| `stage` | the staged batch of `runtime-batch-bridge.ts` and whether its planning message started |
| `run`, `sent`, `plans` | the runtime: phase of the run, execution messages it has not delivered, planning messages it kept over a restart |

`token` and `lease` of a claim: every claim has a token of its own, so the
number of the attempt stands for it; whether a lease is over when a session
starts is a choice, for the restart may take any time. Actions: `BeginRequest`,
`NewInput` (handleInput), `PlanStart`, `StalePlanStart` (a planning message whose
stage a restart took: it counts when it still matches the queue), `ExecutionStart`, `AssistantStart`,
`ToolStart`, `ToolEnd` (with its safe checkpoint), `Decide` and `DecideCrashed`
(applyDecision, commit and dispatch), `ExecutionReply`, `BatchReply`,
`RootReply`, `RunEnd`, `NativeRetry`, `Settled`, `ContinuityUpdate`, `Crash`,
`SessionRetired`, `SessionStart` (with recoverPending), `SessionReloaded` (whose
event is spent, so that nothing is restored or recovered). A handler that claims
may see its send refused, or die after the claim (`Outcome`).

A continuity update copies a projection whose queue revision is always zero;
`ContinuityCopied` keeps that, so revisions repeat and a stage is told from a
later queue only by its list of inputs. `lastRunIncomplete` is no variable:
it is set where a run ends and read where it settles, so `run` has it. Whether
the root is settled as succeeded or failed is the same to every line.

### `SlotPool`

What a pool of slots promises: slots are free, reserved or held; what is
reserved for one holder is never taken by another, and everything is given back
as a whole. It has no code of its own; `SubAgents` implements it.

### `SubAgents`

The tools `spawn_agent` and `parallel_agents` in one process.

| Variable | Code |
| --- | --- |
| `reserved`, `held`, `activeChildren` | the reservations, the slots of an owner, the counter of `sub-agent.ts` |
| `call`, `left`, `result`, `aborted` | a tool call: how far it is, the tasks no lane took yet, the worst result, its signal |
| `run`, `accepted` | the record in the run registry; which cancellations were accepted |
| `stage`, `cause`, `os`, `handle` | a child: the stage of its run, the latched cause, its process as it was seen last, its owned handle |
| `shutdown` | open, draining with a deadline, closed |

`TryReserve`, `ReleaseReservation`, `Start`, then the callbacks of a child: its
result, `Timeout`, `KillTimer`, `Watchdog`, the error and the close of the
process; `CancelRun`, an aborted signal, the shutdown and `Expire`. A signal
finds the group alive or gone and may fail; what a process really does is
chosen when the code looks. What the promises of a callback go on to do (the
lane takes its next task, the call returns) is part of the callback's action.

### `SidecarOrchestration`

One controller, moved from project to project.

| Variable | Code |
| --- | --- |
| `state` | what `persist` writes: `phase` of each request, `dispatch` of each follow-up, `parent` of each batch, the committed batches, `open` (the queue of follow-ups), `active`, whether there is a primary, whether it has a prompt and needs another turn, whether its guidance is to be given |
| `saved` | the state file of every project |
| `enhanced` | the mode in effect |
| `owner`, `reserved`, `seen`, `awaiting` | `toolCallOwners`, the capacity reserved for calls that have not started, `seenToolCallIds`, `awaitingPrimaryMessage` |
| `call` | the host: a tool call was let through by the hook, or runs |
| `staged` | the batch of `runtime-batch-bridge.ts` |

One action for each hook: `SetMode`, `BeforeAgentStart`, `PrimaryMessage`,
`SidecarMessage`, `AssistantMessage`, `Context`, `Stage`, `Unstage`, `BatchMessage`,
`CommitBatch`, `RecordDispatch`, `Admit` (`shouldBlock`), `Rollback`,
`ToolStart`, `ToolResult`, `BatchTurnEnd`, `PrimaryTurnEnd`, `SidecarTurnEnd`,
`SessionStart`, `Restart`, `Rebind`. All are synchronous and end in `persist`,
so a crash falls between two of them. `Decisions` evaluates the dispatch policy
over all the evidence there can be and keeps what the controller goes by.
`Restorable` is the check of the hydration, which drops the whole file.

The mode may change before any step, by a command, a tool or a word in a prompt.
In parity mode `BeforeAgentStart` begins a primary without a prompt, even when a
restored one waits (`canvast-harness.ts:728`), and `ToolResult` and the turn ends
do nothing (`sidecar-orchestration-context.ts:133-150`); what the assistant
says is saved in either mode. `BatchMessage` has no branch for a request that
exists (`sidecar-orchestration-state.ts:188-191`): the id of a batch is a fresh
UUID, its message is sent once (`batch-delivery.ts:103-114`), and a message that
a restart kept finds no stage, which is in memory only, and changes nothing.

### `Workflow`, `MCWorkflow`

The calls of `run_workflow` in one process. `plan` is what a call is for,
`phase`, `batch`, `aborted`, `run` how far it is; `queue` and `active` are
`BoundedFifoSlots`; `stage`, `cause`, `process` belong to a step; `shutdown` is
the shutdown of the extension. `Start` and `BatchEnd` are the loop of
`execute`, `Launch` the moment a step that was granted a slot goes on,
`Timeout`, `KillTimer`, `Watchdog`, `Close` and the failed spawn the callbacks,
then cancel, abort and shutdown. `MCWorkflow` gives the plans: a step that
waits for two, in both modes, a step that waits for itself, a chain, and a call
of one step beside them.

### `CanvasPersistence`

`readSafeJson` and `writeSafeJson`, a system call at a time, and the store of
each session above them.

| Variable | Code |
| --- | --- |
| `dir`, `disk` | the file, the `.lkg` copy and the lock directory as the directory has them, and all that each may be after a power loss |
| `at`, `aim`, `draft`, `prev`, `ok` | where a session is in a read or a save, for the store or for the view of the harness |
| `mem`, `healthy` | the graph in its memory and whether it reports a healthy canvas |
| `recorded`, `saved`, `unsettled`, `since` | history: what was reported as recorded, the last save that got through, the saves begun since, what a reader may find |

Actions: `Start`, `View`, `Read`, `Quarantine`, `ReadBackup`; `Record` (with
`Acquire` or, where the lock is held or cannot be made, `LockFails`), `Publish`, `Sync`, `Throw`, `Unlock`, `Return`; `Stop`, `PowerLoss`, `Damage`.
`LookFails` is an `lstat` that fails or finds no regular file: the canvas is
unhealthy and the file stays where it is, unlike after a read that fails.

### The proof modules

`SerializedStateProofs`, `RequestCoordinatorProofs` (with the lemmas about the
operators of `ContextContinuity`), `RuntimeResumeProofs`, `BatchExecutionProofs`,
`SubAgentsProofs`, `SidecarOrchestrationProofs`, `WorkflowProofs` and
`CanvasPersistenceProofs`: theorems, section 6. `MCRequestCoordinator` and
`MCRuntimeResume` add the symmetry sets, the second an initial state and a view
(section 5), `MCWorkflow` the plans.

## 4. Runs

| Run | Checks | Shows |
| --- | --- | --- |
| `serialized_state` | `TypeOK`, `LockOwnership`, `SoloUpdatesDurable`, `SoloUpdatesAtomic`, `DispatchReturns` | A lock record is refreshed and removed by its owner only. As long as no two processes overlap and no failed read goes unnoticed, every update reported applied stays, and each publication is the stored state and one event: one failed read, a failed write or a crash loses nothing. A dispatch ends unless others publish, or reads fail, for ever. |
| `serialized_loss` | `DispatchesDurable` (violated) | Two processes do overlap, because the lock refuses nobody, and an update is lost. |
| `coordinator` | `TypeOK`, `ReceiptsMatchOutbox`, `AwaitedContinuation`, `SettledNotRepeated`, `CompletionIsQuiet` | Receipts agree with the outbox; a turn that awaits to be resumed has a committed compaction that the host resumes or whose continuation is outstanding, unless a crash fell between two writes, and that continuation is on its way unless it was given back or delivered before; an acknowledged continuation is not queued or shown to the model again; a turn is completed only when nothing of it is open or a batch cancelled its root. |
| `resume` | `TypeOK`, `ClaimMatchesCandidate`, `ClaimNotStolen`, `ClaimOnInspected` | Claims and dispositions agree, no claim passes from a session to another, and a claim is granted only on what its session inspected. |
| `resume_claimed` | `ClaimedAndDispatched` (violated) | After a refused claim the next one dispatches without holding the claim. |
| `batches` | `TypeOK`, `OneExecutionInFlight`, `AdmittedIsOwed`, `ActiveHoldsClaims`, `ExecutionsAdvance`, `DecisionsComplete` | Whatever is decided, refused, lost, repeated or restarted: an input is worked on by one execution at most, one that was admitted has an execution that still owes it, the run works only on what its message holds the claims of, no execution comes back from its end, and a decision covers exactly the inputs that wait when it is committed. |
| `batch_overwritten` | `AcceptedSettled` (violated) | A second execution message takes the place of the first before its reply; the executions of the first stay accepted although the agent is idle. |
| `subagents` | `TypeOK`, `CapacityKept`, `LiveChildReported`, `CancelHolds`, `CallsEnd`, `PoolImplemented` | The limit holds over reservations, owners and children; a process that may still live is never reported as settled; a run whose cancellation was accepted does not complete; every call and the shutdown end; the slots are a `SlotPool`. |
| `sidecar` | `TypeOK`, `DispatchOwned`, `QueueRestorable`, `PrimaryHeld`, `LeftSettled`, `NeverRunAgain`, `SuspendedReturns` | In both modes: a dispatch in flight is owned and runs once; what is written of a primary with a prompt can be read back; the primary is suspended as long as a follow-up is open, and comes back, unless a batch, parity or a result ignored in parity keeps it; a project that was left is settled. |
| `workflows` | `TypeOK`, `OrderKept`, `SlotsShared`, `StepsAccounted`, `WorkflowsEnd` | No step starts before what it depends on; a slot is given out and back once, and none is idle while somebody waits; a call that returned has no step under way and skipped only what depends on a step that did not succeed; calls and shutdown end, also with cycles and with processes that ignore signals. |
| `canvas` | `SavesDurable`, `LoadsLatest` | Without a fault of the disk a save that got through survives crashes and power losses, and a session that starts finds it, whatever another one does meanwhile. |
| `canvas_forgotten` | `LossVisible` (violated) | After a read that failed, the next session reports an empty canvas as healthy and saves it. |

### Disagreements between code and documents

Four are runs, with the quoted lines in `PROJECT.json` under `findings`:

- `serialized_loss`: the lock of a state file refuses nobody (`filesystem.ts:300`).
- `resume_claimed`: after a refused claim the next one counts as a duplicate and
  dispatches without a claim (`runtime-request-coordinator.ts:332`).
- `batch_overwritten`: a second execution message takes the place of the first
  (`batch-execution.ts:340`).
- `canvas_forgotten`: a failed read moves the file away, and an absent file is
  "missing", not lost, whatever the backup holds (`safe-json-file.ts:71`).

Others were met while modelling. The models behave as the code does; no run is
about them:

- A read that fails is taken for a file that does not exist. Where no second read
  tells, in an update or when both reads of a dispatch fail, the empty state with
  one event replaces the file (`storage.ts:20-29`, `runtime-status.ts:310`).
- A session start gives a continuation back under a fixed event id
  (`runtime-request-coordinator.ts:685`), and a start of one kind counts once.
  A message lost for the second time stays `attempted`, and its turn waits until
  it is reset or another request begins.
- In parity mode a primary is saved without a prompt, and such a file is refused
  as a whole when it is read back (`canvast-harness.ts:729`,
  `sidecar-orchestration.ts:260`).
- A result that comes in parity mode is ignored
  (`sidecar-orchestration-context.ts:133-144`): the dispatch stays admitted, its
  follow-up cannot be settled and the primary stays suspended until the session
  starts again.
- A manual compaction takes a completed turn back to compacting
  (`context-continuity.ts:640`).
- A continuation delivered twice starts without a receipt of its own
  (`runtime-request-coordinator.ts:493`; the comment at 181 confirms each).
- A compaction of an earlier turn makes an answered turn settle as failed
  (`runtime-request-coordinator.ts:895`; `reducer-support.ts:50` says it is
  ignored).
- A candidate that a reset retired becomes available when a claim in flight is
  reverted (`runtime-resume.ts:682`;
  `docs/architecture/canvas-and-traceability.md:89`).
- Two follow-ups with the same text take one id, and the file that is written
  is refused when it is read back (`sidecar-orchestration.ts:377-379`); so is one
  that is written while a batch interposes. `Repeats = TRUE` shows the first.
- A workflow step whose process is killed from outside closes without a code,
  which counts as success (`workflow.ts:460`).
- Two sessions on one canvas overwrite each other's nodes, for each saves the
  graph it loaded (`canvast-core.ts:85`); both saves count as recorded, although
  Canvast "must not silently overwrite a conflict"
  (`docs/architecture/canvas-and-traceability.md:51`). `SavesDurable` is about the
  last save of any session. A save refused by a lock that is held for a moment
  makes the canvas unhealthy until the session ends.

## 5. Bounds, fairness and what they leave out

- `SerializedState`: 2 processes, 2 events, 2 dispatches each, 2 faults. Two
  processes are what an overlap needs, two dispatches what a stale lock, token
  or generation needs; a fault is a crash or a failing system call, and two of
  them are what misleads both reads of a round. 496,951 states. Fairness is weak,
  for each process on its next step: the calls are synchronous and a process that
  is not crashed is scheduled. Nothing is assumed of crashes and restarts. The
  retry loop has no limit in the code, and a process may starve while others
  publish or its reads fail again and again; `DispatchReturns` excepts exactly
  that, so the bounds on dispatches and faults, which make it impossible, do not
  carry the property: they remove only behaviours that it excepts.
- `RequestCoordinator`: 2 sessions, 2 requests and 1 sidecar of which 2 are
  made, 1 window key (two compactions of the same entries have one operation
  id), 3 disruptions (crash, torn handler, failed send, session start, reset,
  compaction, native retry, a batch that cancels the root). Three suffice for
  compaction, failed run and restart in one behaviour; 895,826 states. With one
  key a request has one operation id, so that no turn has two compactions; with two
  the run is too long to keep beside the others, and the theorems, which hold for
  any keys, stand for it. There `AwaitedContinuation` has to ask for *some* committed compaction
  and not for the last: one that nobody ended, as after a restart, is committed in
  the name of a later one. Sessions and requests are symmetric. There is no
  fairness: the properties are safety properties, since the user and the
  runtime owe the coordinator nothing. Deadlock is not checked because the
  bounds stop the system.
- `RuntimeResume`: 2 sessions, 2 candidates, 8 or 9 transitions of the file, 1
  fault. A file starts empty and reaches a candidate that can be claimed only
  after five transitions, so the runs begin there (`ReadyInit`, a state the
  full specification reaches); the proofs start from the empty file. The view
  keeps, of the revisions inspected, only whether they are current, which is
  all that guards and properties ask of them.
- `BatchExecution`: 2 inputs, 2 batches, 1 root request, 1 fault (crash, refused
  send, repeated delivery, native retry, compaction). Two inputs give every pair
  of policies in one batch and an order in the serial line; the second batch
  decides again on what the first deferred; one fault puts a restart between a
  claim and its message, and a message kept over that restart, of either kind,
  costs no other. 1,861,569 states.
  Two root requests are small enough only without faults (`MaxRequests = 2`,
  `MaxFaults = 0`: the properties hold as well) and have no run. There is no fairness, for the
  runtime owes no reply. Nothing stops: a session can always be retired and
  started, so deadlock is checked.
- `SubAgents`: one `spawn_agent` and one `parallel_agents` with 2 tasks on 2
  slots, so that a reservation of one stands against the other; the child of the
  first starts with an identity that cannot be read, those of the second with
  one that can. 25,078 states. Fairness is weak on the timers of a child and on
  the deadline of the shutdown: Node runs timers that are due. Nothing is
  assumed of processes, users and the host.
- `SidecarOrchestration`: 2 follow-ups, 1 batch, 1 tool call, 2 projects of which
  requests begin in one, a dispatch recorded twice for one of the follow-ups,
  no text repeated. Two follow-ups give a queue, the second project a place to
  leave for and return from; a second decision is what a tool call of the first
  may meet. `Dispatching` names the follow-up that records dispatches; the other
  only takes its place in the queue, which is the same whatever it dispatches.
  127,566 states. Fairness: a tool that was let through starts and
  returns (weak), and the model comes to a final reply if it is asked for one
  again and again (strong: follow-ups and batches take the turn in between). No
  fairness for users, hooks, restarts and the mode, and for replies of batches:
  `SuspendedReturns` excepts a batch in the turn, parity mode, and a dispatch
  whose result came in parity mode. Deadlock is not checked because the
  host may stop calling at any time.
- `Workflow`: two calls, three names of steps, the plans of `MCWorkflow`, 2 slots.
  Three steps and two slots make a step wait both for another and for a slot.
  21,960 states. Weak fairness on what a promise wakes up, on timers and on the
  deadline; processes may never close. Deadlock is not checked: calls return.
- `CanvasPersistence`: 2 sessions, 2 nodes, 1 fault, 1 power loss. One session
  reads while another saves, twice; a fault is a damaged file or a failing
  `lstat`, read or quarantine; 1,132,334 states, and deadlock is checked.
- Histories that the code cuts (last 24 candidates, 128 or more applied ids)
  are longer than any bounded behaviour and are kept whole.

## 6. Proofs

All theorems hold for every value of the constants, under the assumption each
module states and TLC evaluates:

| Assumption | Says |
| --- | --- |
| `SerializedAssumption`, `CanvasAssumption`, `BoundsAssumption` | The bounds are natural numbers. |
| `ResumeAssumption` | So are these, and the string for "nobody" is no session or candidate. |
| `RequestCoordinatorAssumption` | "none" is no request or sidecar. |
| `SidecarAssumption` | "none" is no request, the primary, follow-ups and batches are different things, and which bounds are subsets of what. |
| `SubAgentsAssumption` | The calls are finitely many, and there is at least one slot and one task. |
| `WorkflowAssumption` | Calls and steps are finitely many, there is a slot, and a plan lists each of its steps once and depends on its own steps only; it may have cycles. |

Each proof has one inductive invariant, `IInv`, and a lemma for each action or
group of actions that preserves it; the properties follow. `RuntimeResumeProofs`
has an invariant for each property instead. Before
a proof TLC checked, on the instance of the module's run, what it can evaluate of
`IInv`.

`SerializedStateProofs`: `TypeCorrect`, `LockOwned`, `SoloDurable`,
`SoloAtomic`. `LockOwnership` is not inductive alone: a process between the
comparison and the unlink of a release acts by path, so the invariant must say
what each process in that place knows of the record on disk; and that tokens
are numbered by attempt, so no earlier incarnation has the current token.
`SoloUpdatesDurable` needs that, while nothing overlapped and no read misled,
the process in the section has read the current file (`FileInv`); and that only
the unwritten state has revision 0, so that the check of the revision tells a
file from a failed read, whatever the first read gave. The conjunction of these is
`IInv`, and the theorem `Inductive` states `Spec => []IInv`.

`RequestCoordinatorProofs`: `TypeCorrect`, `ReceiptsMatch`, `Awaited`,
`SettledOnce`, `CompletedQuietly`. The invariant is what the stored state
promises (`Sound`), that a waiting turn has what resumes it (`Awaits`, unless
a crash tore a handler), and how the memory of the coordinator and the root fit
the turn (`Primary`, `Root`). The parts of `Sound` follow from each other's
needs. `SettledNotRepeated` needs that what was queued once has its event among
the processed ones and that an acknowledged dispatch stays acknowledged
wherever it is in the outbox (`Recorded`): a reset empties the outbox, and only
the event keeps the dispatch from coming back. `AwaitedContinuation` needs that
nothing was queued or resumed for an operation before it was committed
(`Untouched`), or the commit would find its own events already spent and leave
the turn waiting for nothing; that operation ids are not shared (`Distinct`);
that the compactions of the turn are the last ones (`Order`), as a commit takes
the last; and that a compaction which `onAgentSettled` gave up is not prepared
(`GivenUp`), or the event that gives it up would be dropped the second time.
On top of it, `Tracked` is about a coordinator that knows the turn which waits: its
continuation is in the queue of the host, taken up by the run, or ready to be
sent, unless one of the fixed events that give it back or note its delivery is
spent. `Keeps(c, x, S, U)` says that a transition from c to x preserves all of this
whoever makes it; it is proved once for each operator of `ContextContinuity`,
and a handler is then a chain of them. The loops over dispatches are folds over
finite sets (`HandlesSound`). The lemma of each action also states that nothing
acknowledged is repeated and that no turn is completed; only `Settled` may, and
there `CompletionIsQuiet` is shown.

`RuntimeResumeProofs`: `ResumeTypeCorrect`, `ClaimsMatchCandidates`,
`ClaimsNotStolen`, `ClaimsOnInspected`. `ClaimOnInspected` rests on
`RevisionCounts`: every inspected revision is at most the current one, and
strictly less for a session that something changed under. The claim
properties rest on the fixed ids: a claim id is spent when the claim is
granted, so an active claim implies its id is processed and the release that
ends it can be told from any other step.

`BatchExecutionProofs`: `TypeCorrect`, `ExecutionsAlone`, `AdmittedOwed`,
`ClaimsHeld`, `Advance`, `DecisionComplete`. `OneExecutionInFlight` is not
inductive: a parallel execution that is still pending is claimed without another
look at its input. So `Held` says that every execution that is in flight, *or
pending and parallel*, has its input to itself, admitted and open; a serial one
is claimed only while its input is deferred, which no such execution shares.
`Owed` is the other direction: an input admitted to run has such an execution.
`Undecided` says that a batch that was not decided has no executions, so a
decision finds its lines empty. All are predicates of the status file alone
(`Sound(db)`), preserved by each writer of the file, and a crash does not touch
them. `Attempts` bounds the claims of an execution by the faults, for the type
only; `PlansTyped` is the type of the messages kept over a restart, which a
decision may come to work on.

`SubAgentsProofs`: `TypeCorrect`, `CapacityHolds`, `LiveChildrenReported`,
`CancellationHolds`, `PoolRefined`. The counter `activeChildren` is the sum of
what the calls hold; the invariant keeps it (`SlotsKept`), so that the limit over
reservations and owners does not depend on the order in which they are given
back. `CallSound` ties a call to its children: it holds at least as many slots
as it has active children, and has one as long as it runs, which is why the last
child to end may close the call. `ChildSound` says that a child may be settled
while its process lives only if its handle was reported unconfirmed.
`PoolRefined` is the refinement of `SlotPool` with no fairness: each action maps
to one of the pool's or to a stutter. The sums over calls need that a sum
changes by what one of its terms changes by, which is proved for
`SumFunctionOnSet` by way of a least set for which it fails.

`CanvasPersistenceProofs`: `TypeCorrect`, `Durable`, `Latest`. The invariant is
`TypeOK /\ LockInv /\ DraftInv /\ (faults = 0 => FileInv)`. `LockInv`: whoever is
inside a save holds the lock, and is alone; a lock directory that a dead session
left behind only keeps others out. `FileInv` says what the file may be after a
power loss at each place of a save (between the rename and the fsync it is the
old graph or the new one) and that, without a fault, no reader is on its way to
take a good file for a damaged one: a publication replaces the name in one step.
A reader is promised what was saved when it looked, or anything whose save began
since (`since`), which is why `LoadsLatest` needs no lock for readers.

`SidecarOrchestrationProofs`: `TypeCorrect`, `LeftProjectsSettled`,
`DispatchesRunOnce`, `DispatchesOwned`, `PrimaryIsHeld`, `QueueIsRestorable`.
The invariant `IInv` has two parts. `Files`: every file is
`Sound` (a request that never began has no dispatch and is nobody's parent; a
dispatch that is not blank has a revision; only a primary is restored), and the
file of the bound project is what is in memory (`Tied`), or one that is refused
when it is read. Without `Tied`, a restart could bring back an older dispatch
that was settled since, and a change of the project could leave one behind.
`Owners`: the dispatch in flight is the one its tool call is bound to, so that
no two share a call; and where no text is repeated, capacity is reserved for
admitted calls only. Every action has a lemma that it preserves `IInv` and that
no dispatch is run again (`Kept`). A change of the mode changes nothing else, and
a result that is ignored leaves the dispatch admitted and bound to its call, so
that `Owners` holds across both.

On top of it, `Turns` is about the queue. A suspended primary waits for a
follow-up, of memory and of every file, as a restart may take any of them;
what is unfinished is in the queue; and the model answers an unfinished
follow-up or a batch from which parents lead to one. Parents may be batches
again, so the last part speaks of a set of batches that is closed under
"parent or unfinished" (`Interposed`) instead of following a path.
Repeated texts are the disagreement of section 4: a repeated text replaces a
dispatch whose call was not settled, and the file that holds two entries is
refused. `DispatchesOwned` and `QueueIsRestorable` therefore assume `~Repeats`,
which is what the run checks; the other four do not. That a saved queue is in
order rests on what an append, a removal of the last occurrence and a step to the
next one do to a queue without repetitions (`AppendedOnce`, `LastPlace`,
`RemovedOnce`), also after batches, once none of the follow-ups is open: then what
is active, or what the parents of the active batch lead to, is the primary or
nothing (`Rooted`).

`WorkflowProofs`: `TypeCorrect`, `SlotsAreShared`, `OrderIsKept`,
`StepsAreAccounted`. `SlotsShared` says of the counter
that it is the number of jobs that hold a slot and of the queue that it is exactly
the waiters, each once; what a release does to both, granting as many as there is
room for, is the lemma `DrainKeeps`, over `AmongKeeps`, which says what a filter of the queue keeps. `Owned` says that only steps of a plan are begun
and that what is under way is in the batch its call awaits, hence a call that
returns has nothing under way. `Ordered` is the half of `OrderKept` that is
inductive: a granted step was queued, so it needs no clause of its own.
`Cancels` says that only an aborted call has cancelled steps, so one that
completes does not.

Only model-checked: liveness (`DispatchReturns`, `CallsEnd`, `WorkflowsEnd`,
`SuspendedReturns`), which the provers do not reach. Of induction over data they
reach little, since the library's induction theorems take an operator as a
parameter; where a fold over a set, a sum or a position in a sequence had to be
reasoned about, the proofs take a least counterexample instead (`WFMin` of
`WellFoundedInduction`, which takes a set): the lemmas `LeastSubset` and
`LeastNumber`. The four disagreements are violations that TLC finds; there is
nothing to prove about them.

## 7. Abstractions

Left out everywhere: message texts, summaries, timestamps, paths and their
validation, rendering. Event ids are kept as tuples of what the code hashes,
since whether two ids coincide decides whether an event is dropped. JSON
parsing appears as a read that may fail.

Not modelled, and why:

- Orchestration decisions, intent signals, budgets, recall, resource
  allocation: classification of texts and tables; a function of its input, with
  no state that two actors share. The dispatch policy, whose result the sidecar
  controller acts upon, is modelled.
- Sandbox: decisions on paths and commands are functions. Its grant store is a
  client of the locked file of `SerializedState`, with the same lock.
- Background tasks and monitors: a task is a child with the latch, the signals,
  the grace period and the cleanup that `SubAgents` and `Workflow` have; tasks
  share nothing.
- The projection of the status for display, the traversal of the canvas, the
  schemas of the files, the agent registry and the task manager: sequential
  code over one table.
- Rendering, terminal, command line, launcher, tool extensions, macOS
  application, scripts, skills and evaluation data: text, I/O and data. They are
  most of the lines of the repository.
- Of the batches: policies that supersede or pause the root, one that cancels it but
  for what it does to the root and its turn, the evidence
  a policy must bring (a plan without it is refused and changes nothing), payload
  files, the checkpoints of plans and workflows, and a request that takes a queued
  input along. `candidate_running` has no caller; project-delivery continuations
  appear only as the settlement that keeps the root open.
