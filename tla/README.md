# super-bot: a verification project in TLA+

super-bot is a multi-agent workbench: a desktop client talks to a FastAPI
server; worker processes take tasks from the server's PostgreSQL database and
run an LLM agent on each, with tools, under a policy that may ask the user for
approval; a scheduler turns routines into tasks; a browser gateway keeps remote
Playwright sessions.  Nothing but the database rows connects the API server,
the workers and the scheduler: every protocol of the system is a protocol of
short transactions on shared rows, and that is what is modelled here.

## 1. Inventory

Paths are relative to `src/`; API = `apps/api/superbot_api`, W =
`apps/worker/superbot_worker`, D = `apps/desktop/src`.

| Component | State it keeps | Operations | Talks to |
|---|---|---|---|
| Task repository (API `persistence/repositories.py`, `tables.py`) | `tasks` rows: status, lease, cancel_requested, checkpoint, steps, version | create, claim_next, cancel, update_execution, append_event, list_events, record_artifact, record_usage | everything below, by shared rows |
| Execution coordinator (W `execution.py`) and worker loop (W `service.py` run_database_worker) | one ORM session per execution with a cached row | claim, execute: load, check approval, RUNNING, run the agent, pause / fail / succeed | task repository, approvals, agent runtime, artifact store |
| Approvals (API `api/approvals.py`, ApprovalRepository) | `approvals` rows | create (worker), decide and requeue (API), latest_for_task (worker) | task rows |
| Agent runtime (W `agent/runtime.py`) | messages, step, executed tools of one run; the checkpoint of a pause | run, resume from a checkpoint | model gateway, policy engine, tool registry |
| Policy (API `policy/engine.py`, `risk.py`) | rules | evaluate: deny > require approval > allow > default of the risk | called by the runtime |
| Model gateway (API `models/*`) | catalogue, providers | complete with fallbacks | HTTP providers |
| Events and SSE (API `api/tasks.py`, D `api/client.ts`, D `features/chat`) | `task_events` rows with database ids, the server's and the client's cursor | append, poll, stream, reconnect with Last-Event-ID | task rows |
| Submission (API `api/bots.py` send_message, `api/tasks.py` delegate_task) | conversations, messages, tasks, created events, idempotency keys | submit, delegate, retry by the client | task rows |
| Scheduler (W `scheduler.py`, `service.py`) and routines (API `api/routines.py`) | `routines` rows: next_run_at | create, dispatch due occurrences | task rows |
| Browser (API `api/browser.py`, `browser_gateway.py`; W `browser_gateway.py`, `browser.py`) | `browser_sessions` and `browser_actions` rows; the gateway's registry of live sessions; one Playwright connection | create, act, capture, close; gateway restart, shutdown, probe | database, HTTP between API and gateway, Playwright |
| In-memory and Redis queues (W `queue.py`), WorkerService | pending jobs and leases | enqueue, lease, ack, retry | tests; the production worker reads the database instead |
| Worker heartbeats (W `service.py`, API `api/workers.py`) | one row per worker | heartbeat, list | desktop |
| Tools, sandbox, skills, artifacts (W `tools/*`, `sandbox.py`, `skills.py`, `artifacts.py`) | files | execute one call | runtime |

What is hard here:

* *interleaving*: any number of workers and API calls act on a row, each
  through an ORM session that decides on a cached copy and writes back only the
  columns it changed; no version column is compared.
* *time*: a lease of 60 seconds that nobody renews; the SSE poll every 15
  seconds; idle waiting for a user between a pause and a decision.
* *failure*: a worker or the API dies between two commits of what is one
  operation to the user; the artifact store or the model fails in the middle.
* *ordering*: created_at is the start of a transaction, event ids are taken
  before the commit, approvals are visible before their checkpoint.

What makes each component correct, in one line each: the lifecycle executes
every approved call exactly once and no other, and loses no task; a cancel
stays; the agent executes nothing the policy did not allow and stops in time;
the stream shows every event once and in order; a submission becomes one task;
an occurrence of a routine becomes one task; a browser session row and the
gateway's session live and die together.

## 2. Modules

| Module | Models |
|---|---|
| `TaskLifecycle`, `TaskLifecycleMC` | claim, lease, execution, pause, decision, requeue, cancel, crash; the properties the documents state and the code does not have |
| `ApprovalGate` | abstract: what a user is promised about a tool call; `TaskLifecycle` implements it |
| `ToolPolicy` | the decision of the policy engine, a pure operator |
| `ModelRouting` | the catalogue of models, their capabilities, the providers and their keys: what can come of asking one model |
| `AgentLoop`, `AgentLoopMC` | the runtime's step loop over pauses, with policy and model fallbacks |
| `AgentDelivery` | AgentLoop with the shared workspace, the artifact store and the delivery of files step by step; it implements `AgentLoop` |
| `EventStream`, `EventStreamMC` | ids, commits, the server's poll, the client's cursor, its reconnects and its screen |
| `Submission` | send_message, delegate_task and dispatch_due_routines on the unique key |
| `BrowserSessions`, `BrowserSessionsMC` | API calls, registry, connector, restarts of the gateway |
| `TaskLifecycleProofs` | TLAPS: types, final cancel |
| `TaskLifecycleGateProofs` | TLAPS: the invariants about approvals and executed calls, that the lifecycle implements `ApprovalGate`, one worker at a time |
| `AgentLoopProofs`, `AgentDeliveryProofs` | TLAPS: every invariant of the loop; the delivery implements the loop and stores what it records |
| `EventStreamProofs` | TLAPS: every invariant of the stream |
| `SubmissionProofs` | TLAPS: every invariant of submissions and routines |
| `BrowserSessionsProofs`, `BrowserSessionsLifeProofs` | TLAPS: a closed session is dead; every other invariant of the browser sessions |

The modules meet in the rows and are kept apart: each one keeps of another's
state what its own steps read.  `TaskLifecycle` knows of a run how it may end,
`AgentLoop` models the run and knows of the database that a user approves or
denies; `EventStream` keeps the status changes that an event follows;
`Submission` ends where a row is QUEUED, where `TaskLifecycle` begins.
`AgentDelivery` extends `AgentLoop`, which uses `ToolPolicy` and `ModelRouting`.

## 3. TaskLifecycle

**State.** `row` is the tasks table; `approvals` the approvals table, indexed by
the stamp that stands for created_at; `log` the set of event types of each task;
`pc`, `cur`, `mem` are the program counter, the claimed task and the locals of
each worker's `execute`, with the session's cached row `mem.cache`; `rpc` and
`req` the same for API calls.  `ran`, `faults`, `stopped`, `crashes` are
history: no guard reads them except the bound on crashes.

**Steps.** One action is one database transaction, or one external effect
between two.  `Flush` is what a commit of the ORM session does: a column whose
new value equals the cached one is not written and keeps what another session
stored.  The worker's path is
`Claim, ReadText, Load`, then `Cancel` | `CheckUnanswered` | `CheckAnswered` →
denied: two events around `Fail`; approved: two events, `Resume`,
`RefreshResumed`, `ExecuteTool` | `Start`, `RefreshFresh`, `AppendStarted`; then
the run ends with `Answer`, `RunRaises` or `Ask`, `Pause`.  `AppendEvent` is
every append_event between two other commits: the table `After` says where it
goes on.  API calls are `CancelRead`, `CancelCommit` and `DecideRead`,
`DecideCommit`, `RequeueRead`, `RequeueCommit`.  `Crash` and `RequestDies` may
hit a process between any two steps, `LeaseLapse` lets a lease run out at any
time.

**Abstractions.** Nothing reads lease_owner, so owner and expiry are one value
`free | held | lapsed`.  version, current_step and the budget columns are left
out: no decision reads them.  A checkpoint is named by the approval created with
it.  A claim takes any claimable task, since SKIP LOCKED may pass over a locked
older one.  A call to a model is the choice of how the run ends.

**History of faults.** What went wrong is kept per task, so that a property can
say exactly when it holds:

| Fault | Recorded when | Kind |
|---|---|---|
| `late` | a lease lapses and its worker has not committed RUNNING (a denied task: FAILED) | cause |
| `early` | a decision is committed and the worker that asked has not committed WAITING_APPROVAL | cause |
| `double` | a second decision of one approval is committed | cause |
| `torn` | a worker dies between the approval's and the checkpoint's commit of a resumed run | cause |
| `abandoned` | the API dies between decision and requeue | cause |
| `overlap` | a task becomes claimable while a worker is busy with it | effect |

`Exclusive` speaks of the causes: a task that is in two hands had one of `late`,
`early` and `double`.  So it says what the code does achieve although it never
renews a lease and compares no version: a lease that lapses during a run, a
cancel at any moment and a decision after the pause put no task into a second
worker's hands.  `overlap` would be no condition for it: it is what two workers
on a task presuppose.  The properties about calls are about
what follows once two workers have a task, and except `overlap`.  Each fault
named in a property's condition is needed: without it TLC finds a
counterexample.

| Run | Instance | Shows |
|---|---|---|
| `lifecycle_overlap` | 2 workers, 1 task, 1 API call at a time, 3 agent runs, no crash | `TypeOK`; `Exclusive`: at most one worker has a task, whatever leases lapse during a run, unless a lease lapsed before RUNNING, a decision came before WAITING_APPROVAL or one approval was decided twice; `GrantMatches`: a resumed run executes the call whose approval it read; `CancelFinal`: a cancel accepted while nobody acts on the task is final; `GateKept`: the refinement of `ApprovalGate` |
| `lifecycle_decisions` | 1 worker, 1 task not overlapped, 2 concurrent API calls, 3 agent runs, 1 crash | `RunOnce`: an approved call runs at most once; `OnlyApprovedRuns`: what ran was and stays approved; `WaitingIsAnswerable`: a waiting task has a pending approval or a decision on its way |
| `lifecycle_liveness` | 1 worker, 2 tasks (one blank), 1 API call, 2 agent runs, 1 crash | `QueuedIsServed`, `DecisionTakesEffect`, `CancelPrevails` |
| `lifecycle_terminal` | violation | `TerminalIsFinal`: a cancel that is committed between the worker's load of the row and its RUNNING commit is overwritten (a late decision would do it too, but that trace is longer) |
| `lifecycle_recovery` | violation | `CrashIsRecovered`: a running task that lost its worker is never claimed again |
| `lifecycle_approved_call` | violation | `ApprovedCallIsRun`: after a torn pause the user's approval executes another call |

**The abstract specification.** `ApprovalGate` knows calls, the task that asked
for each, and what was decided: a task has one open question at a time, an
answer stands, and a call is executed at most once, after it was approved and
while no question of its task is open.  The refinement mapping (`Gate`) reads
owner, answer and number of executions off the approvals table and `ran`.  A
task on which `overlap`, `torn` or `double` is recorded is *exposed*: from then
on the gate promises nothing about its calls, and still everything about the
others'.  `GateKept == Gate!Spec` says that every step of workers, users, lapses
and crashes is one of the gate's, or `Unseen`.  It is stronger than the three
invariants about calls, which look at one state: an answer that changes, or an
execution under an open question, would pass them.  With one API call at a time
`lifecycle_overlap` still has two workers whose pauses and decisions cross.

**Bounds.** Tasks interact only by occupying workers, so one task suffices for
the safety properties, and a second one, which goes round for ever, for the
liveness ones.  Three agent runs are a fresh run and two resumed ones: the first
resumed run can pause again, and the second can act on a stale checkpoint.  The
last run of a behaviour never asks, so no approval is cut off by the bound.  Two
API calls are enough for two racing decisions, and a decision racing a cancel.
`lifecycle_decisions` does not go on after an overlap (`NotOverlapped`): it has
one task, a fault is never forgotten, and none of its three properties says
anything of a task that was overlapped.  `lifecycle_overlap` has no crash, so
that two workers and three runs can be explored; that `Exclusive` and the others
hold with crashes too, for any number of workers and API calls, is proved.  In
`lifecycle_liveness` users leave the blank task alone (`BlankLeftAlone`): it is
there to go round for ever and occupy the worker.

**Fairness.** Each worker loop and each API call that has started goes on (weak
fairness); time passes (`LeaseLapse`); a task that is claimable again and again
is claimed (strong fairness of `Claim`), because claim_next takes the oldest
claimable task and a task that was given back unserved is not claimable for a
minute.  Users need not act, and failures need not happen.

## 4. AgentLoop

**State.** A call is named by the step and position at which the model asked
for it.  `asked` and `answered` are the message list, as far as it matters: what
was asked and which calls have a tool message.  A checkpoint holds the message
list and the next run starts from it, so the pair serves both.  `step`, `pos`,
`attempt`, `executed`, `usage` are the locals of `run`; `rules` is the policy,
any subset of `Rule`, chosen at the start.  The production coordinator passes
`PolicyEngine([])`, so the rules there are the empty set; the runtime takes any,
and the model lets them vary.

`chain` is the task's own model followed by its bot's fallbacks.

**Steps.** `Unavailable` and `ModelRaises` are the gateway's loop over
candidates, whose possible outcomes `ModelRouting` takes from the built-in
catalogue: an unknown or incapable model raises and ends the run, a model
without a key is unavailable before anything is sent, any other answers, is
unavailable or answers nonsense.  `FinalAnswer` and `ToolCalls` are the two
kinds of response, with the step limit checked between them as in the code; for
each call `RejectCall`, `Pause`, `Deny` or `Execute`; `NextStep`;
`UserApproves`, `UserDenies`, `Resume`; and `RecordArtifact`, `Succeed` of the
coordinator.  `DeliveryFails` leaves the task `stuck` (the row stays RUNNING).

**AgentDelivery** adds the files.  `files` is the workspace that the tasks of a
bot share, `objects` the artifact store under the key `bots/{bot}/{path}`, which
names no task; a content is named by the call that wrote it.  `UseTool` executes
a call with its effect on the file, `ReadFile`, `PutFile`, `RecordRow` and
`Announce` are the steps of `_record_file_artifact`: hash and size come from one
read, the upload from another.  `OtherWrites` and `OtherUploads` are another
task of the same bot.  `touched` records the paths it wrote during the delivery.

| Run | Shows |
|---|---|
| `agent_loop` | `OnlyPermitted`, `NoConsentToDenied`: deny > require_approval > allow > risk, over every set of rules; `ExecutedOnce`, `StepLimit`, `UsageComplete`, `ConversationAnswered`: across pauses; `LastRunRecorded`; `RoutedInOrder`: a fallback answers only when every model before it was unavailable for that request; `ArtifactsAreStored`: what is announced is recorded, what is recorded is stored, with the hash of what this task wrote last, wherever the delivery stopped, unless another task touched the path; `RunEnds` |
| `agent_artifacts` | violation: a file written before the last pause is not recorded |

**Bounds.** Three steps are two that can pause and a final one, so a run is
resumed from a checkpoint that a resumed run made.  Two calls per response are
needed for a call before and one behind a pause.  The four calls have one kind
each: a read, a write, a critical one and one that does not parse; the rules
have one of each effect, overlapping, and a disabled one.  Of the two chains one
has a local fallback, the other starts with a model without a key and ends with
an unknown one.  One path is enough: a task meets itself there by writing it
twice, and it meets the other task there.  The other task's steps are taken
during the delivery only: what it writes or uploads earlier has no effect on the
delivery that it could not have then, except that the object is there already.
**Fairness.** A run goes on (weak fairness of the coroutine's own steps): its
model and tool calls end by their timeouts.  The user need not decide, and the
other task need not do anything.

## 5. EventStream

**State.** `types` is the table by id, `log` the committed ids, `open` the id a
session's uncommitted INSERT took: ids are in the order of the inserts and
visible in the order of the commits.  `after`, `net`, `cursor`, `received` and
`shown` are the server's after_id, the frames on their way, the client's last
id, what its callback got and what its screen says.

**Steps.** Each session appends by `Insert` and `Commit`; a status change that
announces an event sets `todo`, and `Die` loses it.  The worker decides on the
row it loads (`Load`: a start, a resume or a denied task, kept in `about`) and
writes it in a later step (`Start`, `Resume`, `FailDenied`), so a cancel or a
decision can come between; `FindCancelled`, `Note`, `Pause`, `Finish` are its
other changes, `Decide` and `AskCancel` the users'.  cancel's own transaction
holds the task's row until its event is committed (`RowFree`), unlike the
worker, which commits status and event apart.  `Connect`, `Poll`, `Receive`,
`Break` are the stream; a poll and the frames it sends, in the order of their
ids (`Sorted(Unsent)`), are one step, and what is not received when the
connection breaks is lost.  `Refuse` is a connection answered with a status that
the client does not try again (any but 502, 503 and 504): `stream()` throws
(client.ts:166), main.tsx:37 logs it, and the stream is `over`.

**Exceptions.** `late` holds the ids committed after a larger one was visible.
`faults` says why the last status may have no event behind it: `crossed` (a
cancel was committed while the worker had a status written and its event not),
`lost` (the worker died there), `unheeded` (a run paused over a cancel that it
had not noticed; the task then ends as cancelled without an event).  Each status
that the worker announces starts `faults` anew: what went wrong earlier does not
excuse a wrong screen in the end.

| Run | Shows |
|---|---|
| `event_stream` | `SeenInOrder`: ids increase over all connections; `NoneSkipped`, `CatchesUp`: every event that was not committed late is seen, whatever connections broke; `ScreenSettles`: a finished task's screen comes to agree with its row.  Both except a stream that is over; the latter also a late event and the three reasons above for which the last status has no event behind it |
| `event_skipped` | violation: an event committed after a larger id was sent is never seen |

**Bounds.** One event without a status, one pause, one cancel and one failure,
and every order of the inserts and commits of the three sessions; the log grows
to at most seven or eight events.  A note and a failure are not explored in one
behaviour (`NoteOrFailure`): every kind of session and every failure is there
with events that tell a status and with one that tells none (`created`), and a
note is a second one of those.  The creator's transaction alone is enough for
the skipped event, so that run sets all bounds to 0.
**Abstractions.** The approval is visible before the WAITING_APPROVAL commit;
what that race does is `TaskLifecycle`'s, here `Decide` is one step.
**Fairness.** A session with an event to append goes on, the server polls, the
client reads and reconnects (its number of reconnects is infinite by default),
until it gives the stream up.  Only finitely many connections break, by the
bound.

## 6. Submission

**State.** The nth request of a submission is `<<s, n>>`; messages and tasks are
named by the request that inserted them.  `keyed` and `delegations` choose the
kind of each submission at the start.  A routine's occurrences are the instants
1, 2, ...; `locked` holds the rows of each scheduler's transaction.

**Steps.** `Send`, `Receive`, `Lose`, `TimeOut` are ApiClient.request: a request
that lost its connection, or got a 502 to 504, is repeated if it has a key, and
the first one goes on in the API; a request that timed out is not repeated
(client.ts:121 throws), and goes on in the API as well.  `Find`, `Converse`, `Lookup`, `Insert`,
`AppendCreated`, `AppendDelegated` are the handlers, commit by commit; `Die`
ends one anywhere.  `Select` locks the due rows, `Dispatch` turns one occurrence
of each into a task or disables a routine whose bot is archived, and commits.

`submission` shows `AnswersAgree` (one key, one task, whoever answers),
`NoLeftovers`, `AnsweredIsRecorded`, `SubmissionEnds`, `EveryOccurrence`,
`DueIsDispatched`.  `NoLeftovers` excepts two overlapping handlers, both of
which find no task and insert a message (the loser of the unique key leaves its
message behind), and a handler that died.

**Bounds.** One submission: two share nothing, since each has its own key.  Three
requests are the client's 1 + 2 (its default), two schedulers, one routine, two
instants, one death.
**Fairness.** Handlers, clients and schedulers go on, each kind as a whole.  Time
need not pass and bots need not be archived.

## 7. BrowserSessions

**State.** A session is named by the call that creates it.  `row` and `recorded`
are the two tables; `pc` the API's handler of a call, `hpc` the gateway's
handlers, which go on when the API's HTTP client has given up; `sessions` is the
registry, `context` the Playwright context of a session and `on` its browser.
`browser` and `driver` are the connector's two fields, `drivers` and `browsers`
what really runs.

**Steps.** Every await is a step of its own.  `Create`, `Perform`, `Close` and
`Probe` begin a call; `Proceed` and `Refused` take a reply, `TimeOut` gives up;
`InsertRow`, `Record`, `MarkClosed` are the commits and `DatabaseFails` the
failure of one.  `Raise` is the except branch of create: after the remote
creation it closes the remote session.  `Connect` to `Forget` are connect and
the close that a failed connect calls, `NewContext` to `Delete` the registry.
`CloseContext` may raise, because the context's browser is gone or Playwright
fails: the entry is then kept, and the context, if it was open, stays so.
`GatewayRestarts` and `BrowserLost` may happen at any time.

`browser_sessions` shows `ActiveIsLive`, `NothingLeaks`, `ClosedIsDead`,
`AuditIsTrue` and `DriversAreHeld`.  `faults` records what happened to each
session, and each property names the faults it excepts: a timeout of create
leaks its session (remote_created is still false), an action that timed out is
done and not recorded, a restart leaves an active row without a session, and two
overlapping connects, or one after a lost connection, leave a driver running
that nobody holds.  `ClosedIsDead` holds whatever goes wrong.

**Bounds.** Three calls are a create and two that race on its session, or two
creates and a probe that race on the connector; one failure; two drivers, so
that a connect can follow or overlap another.  Calls are symmetric and every
property is an invariant, so TLC checks one of each symmetric set of states.
**Abstractions.** URLs and domain policies appear as a refusal: of a navigation
before it is done, of any action after it.  A gateway that restarts ends its
contexts, as a Playwright server does with those of a lost client.

## 8. Proofs

**`TaskLifecycleProofs`**, for every set of workers, tasks and API calls and
every bound:

* `TypeCorrect` — `Spec => []TypeOK`.  TypeOK is not inductive: the types of
  `row'` and `ran'` need `Linked`, which ties a process' step to its locals (a
  worker that is not idle has a task, one that executes a tool has a checkpoint).
* `CancelIsFinal` — `Spec => []CancelFinal`.  The invariant `CancelInv` adds
  that a stopped task's row has cancel_requested set, for good, and what the
  cached rows of API calls in the middle of a cancel look like; the column-wise
  flush (`UpdateEffect`) never clears it.

Assumed: Blank is a set of tasks, the bounds are naturals, None is neither a
task nor a stamp.

**`TaskLifecycleGateProofs`**, under the same assumptions, no bound on workers,
tasks, API calls, runs or crashes.  The inductive invariant `GateInv` has, next
to the types, these parts, each under the faults that it needs to be absent:

* `Stamps`, `Owners` — a stamp is dealt out once; whoever names an approval
  (a pausing worker, a checkpoint, a resumed run, a decision) names one of its
  own task.
* `Branch` — which way a worker goes is what it found: a call to resume or none.
* `Held` — an acting worker knows the checkpoint of the row, and what it is about
  to ask for is dated after every other approval of the task.
* `Latest` — the checkpoint names the latest approval, unless a worker is about
  to replace it.  This is why a resumed run executes the call that was approved:
  the code looks the approval up by date and the call by the checkpoint.
* `OneQuestion` — a task has one open question or one answer on its way, and
  neither while a worker is at work on it before its pause.
* `Executed` — a call that ran is approved, ran once, and is not about to run
  again.
* `Answerable` — a waiting task has a pending latest approval or a decision on
  its way.

From it follow `ApprovedCallIsExecuted` (`GrantMatches`), `AtMostOnce`
(`RunOnce`), `DeniedNeverRuns` (`OnlyApprovedRuns`) and `WaitingCanBeAnswered`
(`WaitingIsAnswerable`).  The actions are first summarised by what they do to
these parts (`LocalMoves`, `CommitMoves`, `ClaimMoves`, `AskMoves`, ...), so that
an invariant is proved from five kinds of steps instead of thirty.

`LifecycleKeepsGate` — `Spec => GateKept`, the refinement.  An `Ask` is the
gate's because of `OneQuestion`, an `ExecuteTool` because of `Executed` and
`OneQuestion`, a decision because a second one is recorded as `double`; any step
that records a race exposes one task.

`OneWorkerAtATime` — `Spec => []Exclusive`.  That a worker's task is not
claimable in its hands is not inductive: before RUNNING is committed only the
lease guards it, afterwards only the status, and the status is what a decision
overwrites.  `Guarded` says, of a task without `late`, `early` and `double`, that
it was never overlapped, that no worker is busy with it while an answer is on
its way to the queue, and that its row does not say queued once a worker has
written it (`Recorded`); `OneQuestion` gives that no second answer follows.  So
`overlap` has no other cause than these three.

**`AgentLoopProofs`**, for every set of calls, every risk of a call, every set
of rules, and every number of steps, calls in a response and fallbacks.  All
rest on `TypeCorrect` and on `Linked`: a response with calls is never the last
step's, and a task that waits waits for the call its run stopped at.

* `StepsAreLimited`, `UsageIsComplete` — from `Counted`: usage and responses
  advance together and keep in step with the loop, over every pause.
* `CallsRunOnce` — from `Fresh`: nothing `Ahead` of the run's position has been
  executed.  That no call ran twice is not inductive without it.
* `OnlyPermittedRuns`, `DenialStands` — from `Consented`: what was put to the
  user is what the engine wants asked, what ran without consent is what it
  allows, and what was asked before does not change.  The lemmas `EvaluateAllow`
  and `EvaluateAsk` say what the two decisions mean for the rules that match.
* `ModelsInOrder` — from `Routed`: the candidates before the current one were
  found unavailable at this step.
* `CallsAreAnswered` — from `Answering`: a response's calls are at its first
  positions, and those before the run's position have a result, but for the ones
  behind a call that paused.
* `FilesAreRecorded` (`LastRunRecorded`) — from `Recording`: the list of
  executed calls names those of this run, once each, and at the delivery each
  file goes once from the list to the artifacts.  It needs `Fresh` (a call that
  is about to run is not yet in the list) and `Answering` (what ran before a
  resume is in the checkpoint, so that it is not this run's).
* `RunsMoveOn` — the safety half of `RunEnds`: every step of a task, over all its
  pauses, is `Forward` in the lexicographic order of step, stage of the step and
  part of the stage, and each of the three is limited.  With the fairness that
  `RunEnds` assumes, all that is left to TLC is that a run that has not ended can
  take a step.

Assumed: the bounds are naturals and the step limit positive, the calls that do
not parse and the ones that write are calls, each call has a risk, None is not a
call, a rule is a record with one of the three effects, and a chain is a
non-empty sequence of model names.

**`AgentDeliveryProofs`**: `DeliveryIsLoop` — `DeliverySpec => Spec`, so every
theorem about the loop holds with the files behind it, and the proofs here use
the loop's invariants.  `DeliveredIsStored` — `ArtifactsAreStored`, for every
workspace and whatever other tasks do: the invariant says that an untouched file
holds what was written last (`Filed`, from `Fresh`: a tool runs after all that
ran before), what the store holds at each step of the delivery (`Stored`), and
how far rows and events are apart (`Phase`).

**`EventStreamProofs`**, for every number of events, cancels, pauses, failures,
deaths and broken connections.  The inductive invariant `IInv`, from which
`EventTypes` (`TypeOK`), `EventsInOrder` (`SeenInOrder`) and `OnlyLateIsSkipped`
(`NoneSkipped`) follow, has these parts:

* `Opens` — an id that a session took is not in the log, and no other has it.
* `Cursors` — both cursors are committed ids or 0, the server's not behind the
  client's, and a broken connection has nothing on its way.
* `Frames` — what is on its way increases and lies between the two cursors.
* `Sent` — every committed id up to the server's cursor was received, is on its
  way or was committed late.  `NoneSkipped` speaks of the client's cursor only
  and is not inductive without it: a reconnect starts the server where the
  client is, and a break loses what was on its way.

The lemmas before it are about `Sorted`: the ids of a finite set, put in order by
their `Rank`, form an increasing sequence with exactly these members.  `late` is
the exception that the code needs, not one that the proof does: the run
`event_skipped` shows the skipped event.

`ScreenIsRight` (`ScreenAgrees`) is the safety half of `ScreenSettles`: a client
that has received every event of a finished task shows its row's status, with the
property's exceptions but for a stream that was given up; with `CatchesUp` this
is `ScreenSettles`.
`Showing` says that the screen shows what the last event received tells;
`Agreeing` that the row's status is what the last committed event tells, or that
its event is still to be appended: a commit that is not late is the last one, a
cancel cannot come between status and event without crossing, and a row that was
cancelled and then queued by a decision becomes cancelled again.  It speaks of
the faults since the last announced status only, so each `Announcing` step has to
establish it anew.  `Idle` and `Appending` say who may be about to append what; a
worker that has loaded a queued task runs nothing yet.

**`SubmissionProofs`**, for every set of submissions, routines and schedulers and
every number of attempts, instants and deaths: `SubmissionTypes` (`TypeOK`),
`OneKeyOneTask` (`AnswersAgree`), `NothingLeftOver` (`NoLeftovers`) and
`NoOccurrenceSkipped` (`EveryOccurrence`).

* `OneTask` — a key has one task (the unique constraint); `OwnTask` — the task a
  handler holds is of its own submission, without a key the one it inserted.
* `Alone` — unless two handlers of one submission were in each other's way
  (`overlapped`), a handler that has not inserted its task is the only such one,
  and under a key there is no task yet.
* `Counted` — then the events of a task are written by the handler that inserted
  it, each once; `Messages` — unless a handler died (`broken`), a message without
  a task belongs to a handler that is about to insert it.
* `Locks` — the routines that the schedulers hold are due, and no two hold the
  same; `Occurrences` — the occurrences with a task are those before the next.
* `AnsweredHasEvents` — the safety half of `AnsweredIsRecorded`: a client that was
  told of a task finds its events, or the handler that inserted it is at the step
  that writes them, unless a handler died.  `Owed` says this of every task, told
  or not: a retry may be answered by a handler that found the task of another one
  before its events.

Assumed: MaxAttempts is positive, the bounds are naturals, None is not a request.

**`BrowserSessionsProofs`**, for every number of calls, drivers and failures:
`ClosedSessionsAreDead`.  The difficulty is the order of a close, which removes
the registry's entry after an await, while another close, an action, a restart
or a connector that closes the browser under it goes on.  The invariant
`Closing` says what each step of a close has achieved, from the lookup of the
session to the closed row, and that the create handler which could still
register the session is past that point.  A step is `Harmless` if it takes none
of this back; `HarmlessKeeps` reduces each action to that and to what its close
handler now claims.  `Stages` ties a handler's step to its operation.

**`BrowserSessionsLifeProofs`** goes on from it, for the same constants, to
`BrowserTypes` (`TypeOK`), `ConnectorHoldsDrivers` (`DriversAreHeld`),
`ContextsAreOwned` (`NothingLeaks`), `ActiveSessionsLive` (`ActiveIsLive`) and
`ActionsAreListed` (`AuditIsTrue`).  Its invariant `LInv` adds:

* `Starts`, `Held` — a driver that is being started is one handler's own; unless
  two connects overlapped or one followed a lost connection, one handler is at
  work in the connector at a time, and what runs is what it or the connector's
  fields hold.  So `DriversAreHeld`.
* `Kinds`, `Reached` — a call takes the steps of its kind only; a row is inserted
  after the gateway created the session, and a creation is undone when no row
  can come any more.
* `Waits` — a call is at the step that its running handler works for, unless it
  gave up or died.  This is what a fault ends: most of the following is
  conditional on it.
* `Contexts`, `Registered`, `Ended`, `Kept` — an open context is in the registry
  or in its create handler's hands; a create that failed, and a close that ended
  without an error, leave none; one without a row belongs to a call that is not
  over.  So `NothingLeaks`.
* `Lives` — while the row says active, whoever took the session from the registry
  or closed its context is still to mark the row.  So `ActiveIsLive`.
* `Audited` — what is listed, or about to be, was done, and what was done is
  listed or a call is on its way to list it.  So `AuditIsTrue`.

Assumed: the bounds are naturals and None is not a call.

**Model-checked only**: the liveness properties `QueuedIsServed`,
`DecisionTakesEffect`, `CancelPrevails`, `RunEnds`, `CatchesUp`, `ScreenSettles`,
`AnsweredIsRecorded`, `SubmissionEnds` and `DueIsDispatched`, which TLAPS cannot
prove under fairness.  Of `RunEnds`, `ScreenSettles` and `AnsweredIsRecorded` the
safety half is proved (`RunsMoveOn`, `ScreenIsRight`, `AnsweredHasEvents`).  Every
invariant, action property and refinement of a passing run is a theorem.

## 9. Plan

1. Done: every module of section 2, checked; every invariant and action property
   of a passing run and both refinements (`ApprovalGate`, `AgentLoop`), proved.
2. Next: the safety half of the liveness properties of `TaskLifecycle`: for
   `CancelPrevails`, what stands between a cancel request and its effect; for
   `DecisionTakesEffect`, that a decided task is queued, or its requeue is under
   way, or a race or a crash is on record.

## 10. Not modelled

* *Worker service and queues* (W `service.py` WorkerService, `queue.py`): not part
  of the running system.  The database worker reads the tasks table; the
  in-memory queue serves tests and the Redis queue has a producer only.
* *Worker heartbeats*: one timestamp row per worker that nothing decides on.  It
  is written once per round of the worker's loop, so that a worker busy with a
  long run is listed as offline.
* *Browser target policy* (W `browser.py`): predicates over one URL.
* *HTTP and MCP tools, sandbox, skills, path checks*: validation of one call's
  input and I/O; their failing is a call that raises in `AgentLoop`.
* *Bots, models, skills and capabilities endpoints*: single-row reads and writes.
* *Domain state machine* (API `domain/task_state.py`): called by its tests only;
  what it says of terminal tasks is `TerminalIsFinal`.
* *Model requests and responses*: data conversion.  Usage is a count of
  responses; the code records it under the task's own model whoever answered.
* *create_routine, cron arithmetic, migrations, rendering*: no state that another
  operation could find half-done.
