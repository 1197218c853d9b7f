--------------------------- MODULE TaskLifecycle ---------------------------
(***************************************************************************)
(* The life of a task in the database that the API server and the worker   *)
(* processes share: claiming under a lease, execution, the pause for an    *)
(* approval, the user's decision, cancellation.                            *)
(*                                                                         *)
(* A step is one database transaction, or one external effect (a tool      *)
(* call) between two transactions.  The ORM session of a worker or of an   *)
(* API request keeps a cached copy of the task's row: it decides on that   *)
(* copy, and a commit writes only the columns whose new value differs from *)
(* the copy (Flush), whatever the stored row has become meanwhile.         *)
(*                                                                         *)
(* Abstractions: nothing in the code reads lease_owner, so the two lease   *)
(* columns are one value that tells whether the lease is free, held or     *)
(* lapsed; version, current_step and the budget columns, which no decision *)
(* reads, are left out; the checkpoint is named by the approval that was   *)
(* created together with it; SELECT ... SKIP LOCKED may pass over a locked *)
(* older task, so a claim takes any claimable task.                        *)
(***************************************************************************)
EXTENDS Naturals

CONSTANTS
  Worker,   \* worker processes (service.py run_database_worker)
  Task,     \* tasks already created, all queued
  Request,  \* concurrent API calls that cancel a task or decide an approval
  Blank,    \* tasks whose message text is only white space
  MaxRun,   \* bound: agent runs in one behaviour
  MaxCrash, \* bound: process deaths and database errors in one behaviour
  None

ASSUME TaskAssumption == Blank \subseteq Task
ASSUME BoundAssumption == MaxRun \in Nat /\ MaxCrash \in Nat
ASSUME NoneAssumption == None \notin Task /\ None \notin 1..MaxRun

VARIABLES
  row,        \* tasks table: [status, lease, cancel, checkpoint] of each task
  approvals,  \* approvals table, by the stamp that orders created_at
  clock,      \* next stamp
  log,        \* task_events table: types of the events of each task
  pc,         \* each worker's next step
  cur,        \* the task each worker has claimed
  mem,        \* locals of ExecutionCoordinator.execute and its session's cached row
  rpc,        \* each API call's next step
  req,        \* locals of the API call and its session's cached row
  ran,        \* history: how often the tool call of each approval was executed
  faults,     \* history: the races and failures each task was exposed to
  stopped,    \* history: tasks cancelled while no worker was past Load on them
  crashes     \* history: deaths and database errors so far

workerVars == <<pc, cur, mem>>
requestVars == <<rpc, req>>
historyVars == <<ran, faults, stopped, crashes>>
vars == <<row, approvals, clock, log, workerVars, requestVars, historyVars>>

----------------------------------------------------------------------------
(* The tables.                                                             *)

Stamp == 1..MaxRun

Terminal == {"succeeded", "failed", "cancelled"}
Status == Terminal \cup {"queued", "running", "waiting_approval"}
Lease == {"free", "held", "lapsed"}
Row == [status : Status, lease : Lease, cancel : BOOLEAN, checkpoint : Stamp \cup {None}]

NewRow == [status |-> "queued", lease |-> "free", cancel |-> FALSE, checkpoint |-> None]

Approval == [task : Task \cup {None}, status : {"pending", "approved", "denied"}]
NoApproval == [task |-> None, status |-> "pending"]

FaultKind == {"late", "early", "overlap", "torn", "double", "abandoned"}

EventType == {"started", "approval_requested", "approved", "denied", "tool_started",
              "tool_completed", "model_response", "completed", "failed", "cancelled"}

\* Columns of the cached copy that were not changed keep their stored value.
Keep(stored, cached, new) == IF new = cached THEN stored ELSE new

Flush(stored, cached, new) ==
  [status     |-> Keep(stored.status, cached.status, new.status),
   lease      |-> Keep(stored.lease, cached.lease, new.lease),
   cancel     |-> Keep(stored.cancel, cached.cancel, new.cancel),
   checkpoint |-> Keep(stored.checkpoint, cached.checkpoint, new.checkpoint)]

\* TaskRepository.update_execution on the cached copy.
Updated(cached, status, checkpoint) ==
  [cached EXCEPT !.status = status,
                 !.checkpoint = checkpoint,
                 !.lease = IF status = "running" THEN @ ELSE "free"]

\* Mutant: the query sorts in ascending order.
IsOldest(s, t) ==
  /\ approvals[s].task = t
  /\ \A u \in Stamp : approvals[u].task = t => u >= s

\* ApprovalRepository.latest_for_task: created_at is the start of the creating
\* transaction, which began at the refresh before the agent ran: the stamp.
IsLatest(s, t) ==
  /\ approvals[s].task = t
  /\ \A u \in Stamp : approvals[u].task = t => u <= s

\* Mutant: the query does not look at the lease.
ClaimableAnyLease(r) == r.status = "queued"

\* Mutant: the query knows no expiry.
ClaimableFreeOnly(r) == r.status = "queued" /\ r.lease = "free"

Claimable(r) == r.status = "queued" /\ r.lease # "held"

----------------------------------------------------------------------------
(* Worker and API call locals.                                             *)

\* After these steps' commit an event of the step's own name has been appended.
After == [denied             |-> "fail",
          approved           |-> "tool_started",
          tool_started       |-> "resume",
          approval_requested |-> "idle",
          failed             |-> "idle",
          tool_completed     |-> "model_response",
          model_response     |-> "deliver",
          completed          |-> "idle"]

\* The worker has written the row for the last time and only appends an event.
Tail == {"approval_requested", "failed", "completed"}
\* The worker has not yet read the row it will act on.
Unread == {"claimed", "load"}
\* The worker acts on a row it has read: it will write it or run tools.
Acting == {"check", "start", "resume", "refresh", "started", "denied", "approved",
           "tool_started", "tool", "run", "pause", "fail", "tool_completed",
           "model_response", "deliver", "succeed"}
WorkerPc == {"idle", "cancel"} \cup Tail \cup Unread \cup Acting
\* The worker has not yet committed RUNNING; a denied task fails without it.
Preparing == Unread \cup {"cancel", "check", "start", "resume", "denied", "approved", "tool_started"}

Mem == [text : BOOLEAN, cache : Row, call : Stamp \cup {None},
        grant : Stamp \cup {None}, stamp : Stamp \cup {None}]
NoMem == [text |-> FALSE, cache |-> NewRow, call |-> None, grant |-> None, stamp |-> None]

Req == [task : Task \cup {None}, approval : Stamp \cup {None},
        decision : {"approved", "denied"}, cache : Row]
NoReq == [task |-> None, approval |-> None, decision |-> "denied", cache |-> NewRow]

RequestPc == {"idle", "cancel", "decide", "decided", "requeue"}

\* Busy workers still have the task in their hands.
Busy(w, t) == cur[w] = t /\ pc[w] \notin Tail

\* The row of a busy worker's task may still say QUEUED: only the lease guards it.
Unrecorded(w, t) ==
  /\ cur[w] = t
  /\ pc[w] \in Preparing \/ (pc[w] = "fail" /\ mem[w].stamp = None)

Init ==
  /\ row = [t \in Task |-> NewRow]
  /\ approvals = [s \in Stamp |-> NoApproval]
  /\ clock = 1
  /\ log = [t \in Task |-> {}]
  /\ pc = [w \in Worker |-> "idle"]
  /\ cur = [w \in Worker |-> None]
  /\ mem = [w \in Worker |-> NoMem]
  /\ rpc = [r \in Request |-> "idle"]
  /\ req = [r \in Request |-> NoReq]
  /\ ran = [s \in Stamp |-> 0]
  /\ faults = [t \in Task |-> {}]
  /\ stopped = {}
  /\ crashes = 0

----------------------------------------------------------------------------
(* Worker steps.                                                           *)

\* Worker w moves on to step to with locals m; when the call returns or
\* raises, its session and locals are gone.
Step(w, to, m) ==
  /\ pc' = [pc EXCEPT ![w] = to]
  /\ cur' = [cur EXCEPT ![w] = IF to = "idle" THEN None ELSE @]
  /\ mem' = [mem EXCEPT ![w] = IF to = "idle" THEN NoMem ELSE m]

Goto(w, to) == Step(w, to, mem[w])

\* Commit of TaskRepository.update_execution in w's session.
Update(w, status, checkpoint) ==
  row' = [row EXCEPT ![cur[w]] =
            Flush(@, mem[w].cache, Updated(mem[w].cache, status, checkpoint))]

\* TaskRepository.claim_next: select and lease in one transaction.
Claim(w, t) ==
  /\ pc[w] = "idle"
  /\ Claimable(row[t])
  /\ row' = [row EXCEPT ![t].lease = "held"]
  /\ pc' = [pc EXCEPT ![w] = "claimed"]
  /\ cur' = [cur EXCEPT ![w] = t]
  /\ UNCHANGED <<mem, approvals, clock, log, requestVars, historyVars>>

\* The message text is read only for a task without a checkpoint.
ReadText(w) ==
  /\ pc[w] = "claimed"
  /\ Step(w, "load", [mem[w] EXCEPT !.text = row[cur[w]].checkpoint = None /\ cur[w] \notin Blank])
  /\ UNCHANGED <<row, approvals, clock, log, requestVars, historyVars>>

\* Mutant: cancel_requested is not looked at.
LoadToIgnoringCancel(w) ==
  LET seen == row[cur[w]] IN
    IF seen.status \in Terminal THEN "idle"
    ELSE IF seen.checkpoint # None THEN "check"
    ELSE IF mem[w].text THEN "start"
    ELSE "idle"

\* execute loads the row and decides on what it saw.
LoadTo(w) ==
  LET seen == row[cur[w]] IN
    IF seen.status \in Terminal THEN "idle"
    ELSE IF seen.cancel THEN "cancel"
    ELSE IF seen.checkpoint # None THEN "check"
    ELSE IF mem[w].text THEN "start"
    ELSE "idle"                            \* ValueError: user_text is required

Load(w) ==
  /\ pc[w] = "load"
  /\ LET seen == row[cur[w]] IN
       Step(w, LoadTo(w), [mem[w] EXCEPT !.cache = seen, !.call = seen.checkpoint])
  /\ UNCHANGED <<row, approvals, clock, log, requestVars, historyVars>>

Cancel(w) ==
  /\ pc[w] = "cancel"
  /\ Update(w, "cancelled", None)
  /\ Goto(w, "idle")
  /\ UNCHANGED <<approvals, clock, log, requestVars, historyVars>>

\* The task has a checkpoint: the latest approval says how to go on.
CheckUnanswered(w) ==
  /\ pc[w] = "check"
  /\ \A s \in Stamp : IsLatest(s, cur[w]) => approvals[s].status = "pending"
  /\ Goto(w, "idle")
  /\ UNCHANGED <<row, approvals, clock, log, requestVars, historyVars>>

\* Mutant: an approval that is still pending is not sent away.
CheckAnsweredOrNot(w, s) ==
  /\ pc[w] = "check"
  /\ IsLatest(s, cur[w])
  /\ Step(w, approvals[s].status, [mem[w] EXCEPT !.grant = s])
  /\ UNCHANGED <<row, approvals, clock, log, requestVars, historyVars>>

\* Mutant: whatever was decided counts as approved.
CheckDecided(w, s) ==
  /\ pc[w] = "check"
  /\ IsLatest(s, cur[w])
  /\ approvals[s].status # "pending"
  /\ Step(w, "approved", [mem[w] EXCEPT !.grant = s])
  /\ UNCHANGED <<row, approvals, clock, log, requestVars, historyVars>>

CheckAnswered(w, s) ==
  /\ pc[w] = "check"
  /\ IsLatest(s, cur[w])
  /\ approvals[s].status # "pending"
  /\ Step(w, approvals[s].status, [mem[w] EXCEPT !.grant = s])
  /\ UNCHANGED <<row, approvals, clock, log, requestVars, historyVars>>

\* Mutant: a fresh run does not commit RUNNING.
StartUnrecorded(w) ==
  /\ pc[w] = "start"
  /\ Goto(w, "refresh")
  /\ UNCHANGED <<row, approvals, clock, log, requestVars, historyVars>>

Start(w) ==
  /\ pc[w] = "start"
  /\ Update(w, "running", None)
  /\ Goto(w, "refresh")
  /\ UNCHANGED <<approvals, clock, log, requestVars, historyVars>>

\* Mutant: a resumed run does not commit RUNNING before it calls the tool.
ResumeUnrecorded(w) ==
  /\ pc[w] = "resume"
  /\ Goto(w, "refresh")
  /\ UNCHANGED <<row, approvals, clock, log, requestVars, historyVars>>

Resume(w) ==
  /\ pc[w] = "resume"
  /\ Update(w, "running", mem[w].call)
  /\ Goto(w, "refresh")
  /\ UNCHANGED <<approvals, clock, log, requestVars, historyVars>>

\* A transaction that stays open until the agent pauses: an approval created
\* in it is dated here.
TakeStamp == clock <= MaxRun /\ clock' = clock + 1

\* session.refresh after the RUNNING commit.
RefreshFresh(w) ==
  /\ pc[w] = "refresh" /\ mem[w].call = None
  /\ Step(w, "started", [mem[w] EXCEPT !.cache = row[cur[w]]])
  /\ UNCHANGED <<row, approvals, clock, log, requestVars, historyVars>>

RefreshResumed(w) ==
  /\ pc[w] = "refresh" /\ mem[w].call # None
  /\ TakeStamp
  /\ Step(w, "tool", [mem[w] EXCEPT !.cache = row[cur[w]], !.stamp = clock])
  /\ UNCHANGED <<row, approvals, log, requestVars, historyVars>>

\* ValueError when neither the task nor its bot names a model: the row stays RUNNING.
AppendStarted(w) ==
  /\ pc[w] = "started"
  /\ log' = [log EXCEPT ![cur[w]] = @ \cup {"started"}]
  /\ TakeStamp
  /\ \E to \in {"run", "idle"} : Step(w, to, [mem[w] EXCEPT !.stamp = clock])
  /\ UNCHANGED <<row, approvals, requestVars, historyVars>>

\* Mutant: the agent goes on with the model and forgets the approved call.
SkipTool(w) ==
  /\ pc[w] = "tool"
  /\ Goto(w, "run")
  /\ UNCHANGED <<row, approvals, clock, log, requestVars, historyVars>>

\* The agent first executes the approved call, then goes on with the model.
ExecuteTool(w) ==
  /\ pc[w] = "tool"
  /\ ran' = [ran EXCEPT ![mem[w].call] = @ + 1]
  /\ \E to \in {"run", "fail"} : Goto(w, to)
  /\ UNCHANGED <<row, approvals, clock, log, requestVars, faults, stopped, crashes>>

\* AgentRuntime.run ends: with an answer, ...
Answer(w) ==
  /\ pc[w] = "run"
  /\ Goto(w, IF mem[w].call = None THEN "model_response" ELSE "tool_completed")
  /\ UNCHANGED <<row, approvals, clock, log, requestVars, historyVars>>

\* ... with an exception, ...
RunRaises(w) ==
  /\ pc[w] = "run"
  /\ Goto(w, "fail")
  /\ UNCHANGED <<row, approvals, clock, log, requestVars, historyVars>>

\* ... or at a call that needs an approval, which is created and committed
\* before the row says WAITING_APPROVAL.  The last run of a behaviour does not
\* ask, so that the run after an approval is never cut off by the bound MaxRun.
Ask(w) ==
  /\ pc[w] = "run"
  /\ mem[w].stamp < MaxRun
  /\ approvals' = [approvals EXCEPT ![mem[w].stamp] = [task |-> cur[w], status |-> "pending"]]
  /\ Goto(w, "pause")
  /\ UNCHANGED <<row, clock, log, requestVars, historyVars>>

Pause(w) ==
  /\ pc[w] = "pause"
  /\ Update(w, "waiting_approval", mem[w].stamp)
  /\ Goto(w, "approval_requested")
  /\ UNCHANGED <<approvals, clock, log, requestVars, historyVars>>

Fail(w) ==
  /\ pc[w] = "fail"
  /\ Update(w, "failed", None)
  /\ Goto(w, "failed")
  /\ UNCHANGED <<approvals, clock, log, requestVars, historyVars>>

\* TaskRepository.append_event, a transaction of its own.
AppendEvent(w) ==
  /\ pc[w] \in DOMAIN After
  /\ log' = [log EXCEPT ![cur[w]] = @ \cup {pc[w]}]
  /\ Goto(w, After[pc[w]])
  /\ UNCHANGED <<row, approvals, clock, requestVars, historyVars>>

\* Artifacts and usage are stored outside the try block: a failure of the
\* artifact store leaves the row RUNNING.
Deliver(w) ==
  /\ pc[w] = "deliver"
  /\ \E to \in {"succeed", "idle"} : Goto(w, to)
  /\ UNCHANGED <<row, approvals, clock, log, requestVars, historyVars>>

Succeed(w) ==
  /\ pc[w] = "succeed"
  /\ Update(w, "succeeded", None)
  /\ Goto(w, "completed")
  /\ UNCHANGED <<approvals, clock, log, requestVars, historyVars>>

\* Faults are kept in the history of the task they happened to.
Fault(t, kinds) == faults' = [faults EXCEPT ![t] = @ \cup kinds]

\* The fault of this kind, if the condition holds.
Kind(kind, condition) == IF condition THEN {kind} ELSE {}

\* The process dies, or a transaction fails: locals are lost, the row stays.
\* "torn": the approval of a resumed run was created, its checkpoint was not.
Crash(w) ==
  /\ pc[w] # "idle"
  /\ crashes < MaxCrash
  /\ crashes' = crashes + 1
  /\ Goto(w, "idle")
  /\ Fault(cur[w], Kind("torn", pc[w] = "pause" /\ mem[w].call # None))
  /\ UNCHANGED <<row, approvals, clock, log, requestVars, ran, stopped>>

\* The lease runs out, nobody renews it.
\* "late": the task becomes claimable before its worker has committed RUNNING.
\* "overlap": a busy worker's task becomes claimable.
LeaseLapse(t) ==
  /\ row[t].lease = "held"
  /\ row' = [row EXCEPT ![t].lease = "lapsed"]
  /\ Fault(t, Kind("late", Claimable(row'[t]) /\ \E w \in Worker : Unrecorded(w, t))
              \cup Kind("overlap", Claimable(row'[t]) /\ \E w \in Worker : Busy(w, t)))
  /\ UNCHANGED <<approvals, clock, log, workerVars, requestVars, ran, stopped, crashes>>

----------------------------------------------------------------------------
(* API calls.                                                              *)

Respond(r) ==
  /\ rpc' = [rpc EXCEPT ![r] = "idle"]
  /\ req' = [req EXCEPT ![r] = NoReq]

\* TaskRepository.cancel reads the row; a terminal task is refused or returned.
CancelRead(r, t) ==
  /\ rpc[r] = "idle"
  /\ row[t].status \notin Terminal
  /\ rpc' = [rpc EXCEPT ![r] = "cancel"]
  /\ req' = [req EXCEPT ![r] = [NoReq EXCEPT !.task = t, !.cache = row[t]]]
  /\ UNCHANGED <<row, approvals, clock, log, workerVars, historyVars>>

\* Mutant: the cancellation is recorded in the status alone.
CancelStatusOnly(r) ==
  LET t == req[r].task IN
  /\ rpc[r] = "cancel"
  /\ row' = [row EXCEPT ![t] = Flush(@, req[r].cache,
               [req[r].cache EXCEPT !.status = "cancelled"])]
  /\ log' = [log EXCEPT ![t] = @ \cup {"cancelled"}]
  /\ stopped' = IF \E w \in Worker : cur[w] = t /\ pc[w] \in Acting
                THEN stopped ELSE stopped \cup {t}
  /\ Respond(r)
  /\ UNCHANGED <<approvals, clock, workerVars, ran, faults, crashes>>

\* Row and event in one transaction.
CancelCommit(r) ==
  LET t == req[r].task IN
  /\ rpc[r] = "cancel"
  /\ row' = [row EXCEPT ![t] = Flush(@, req[r].cache,
               [req[r].cache EXCEPT !.status = "cancelled", !.cancel = TRUE])]
  /\ log' = [log EXCEPT ![t] = @ \cup {"cancelled"}]
  /\ stopped' = IF \E w \in Worker : cur[w] = t /\ pc[w] \in Acting
                THEN stopped ELSE stopped \cup {t}
  /\ Respond(r)
  /\ UNCHANGED <<approvals, clock, workerVars, ran, faults, crashes>>

\* ApprovalRepository.decide refuses an approval that is not pending, ...
DecideRead(r, s, decision) ==
  /\ rpc[r] = "idle"
  /\ approvals[s].task # None
  /\ approvals[s].status = "pending"
  /\ rpc' = [rpc EXCEPT ![r] = "decide"]
  /\ req' = [req EXCEPT ![r] = [NoReq EXCEPT !.task = approvals[s].task, !.approval = s,
                                              !.decision = decision]]
  /\ UNCHANGED <<row, approvals, clock, log, workerVars, historyVars>>

\* Mutant: the endpoint forgets to queue the task.
DecideOnly(r) ==
  LET s == req[r].approval IN
  /\ rpc[r] = "decide"
  /\ approvals' = [approvals EXCEPT ![s].status = req[r].decision]
  /\ Fault(req[r].task, Kind("double", approvals[s].status # "pending")
                        \cup Kind("early", \E w \in Worker : Busy(w, req[r].task)))
  /\ Respond(r)
  /\ UNCHANGED <<row, clock, log, workerVars, ran, stopped, crashes>>

\* ... and writes without looking again.
\* "double": another decision was committed in between.
\* "early": the worker that asked has not committed WAITING_APPROVAL yet.
DecideCommit(r) ==
  LET s == req[r].approval IN
  /\ rpc[r] = "decide"
  /\ approvals' = [approvals EXCEPT ![s].status = req[r].decision]
  /\ Fault(req[r].task, Kind("double", approvals[s].status # "pending")
                        \cup Kind("early", \E w \in Worker : Busy(w, req[r].task)))
  /\ rpc' = [rpc EXCEPT ![r] = "decided"]
  /\ UNCHANGED <<row, clock, log, workerVars, req, ran, stopped, crashes>>

\* decide_approval then queues the task again, in a second transaction.
RequeueRead(r) ==
  /\ rpc[r] = "decided"
  /\ rpc' = [rpc EXCEPT ![r] = "requeue"]
  /\ req' = [req EXCEPT ![r].cache = row[req[r].task]]
  /\ UNCHANGED <<row, approvals, clock, log, workerVars, historyVars>>

RequeueCommit(r) ==
  LET t == req[r].task IN
  /\ rpc[r] = "requeue"
  /\ row' = [row EXCEPT ![t] = Flush(@, req[r].cache,
               [req[r].cache EXCEPT !.status = "queued", !.lease = "free"])]
  /\ Fault(t, Kind("overlap", Claimable(row'[t]) /\ \E w \in Worker : Busy(w, t)))
  /\ Respond(r)
  /\ UNCHANGED <<approvals, clock, log, workerVars, ran, stopped, crashes>>

\* The API process dies or its database call fails.
\* "abandoned": a committed decision whose task is never queued.
RequestDies(r) ==
  /\ rpc[r] # "idle"
  /\ crashes < MaxCrash
  /\ crashes' = crashes + 1
  /\ Fault(req[r].task, Kind("abandoned", rpc[r] \in {"decided", "requeue"}))
  /\ Respond(r)
  /\ UNCHANGED <<row, approvals, clock, log, workerVars, ran, stopped>>

----------------------------------------------------------------------------
WorkerStep(w) ==
  \/ \E t \in Task : Claim(w, t)
  \/ ReadText(w) \/ Load(w) \/ Cancel(w)
  \/ CheckUnanswered(w) \/ \E s \in Stamp : CheckAnswered(w, s)
  \/ Start(w) \/ Resume(w) \/ RefreshFresh(w) \/ RefreshResumed(w) \/ AppendStarted(w)
  \/ ExecuteTool(w) \/ Answer(w) \/ RunRaises(w) \/ Ask(w) \/ Pause(w) \/ Fail(w)
  \/ AppendEvent(w) \/ Deliver(w) \/ Succeed(w)

UserCalls(r) ==
  \/ \E t \in Task : CancelRead(r, t)
  \/ \E s \in Stamp, d \in {"approved", "denied"} : DecideRead(r, s, d)

RequestStep(r) == CancelCommit(r) \/ DecideCommit(r) \/ RequeueRead(r) \/ RequeueCommit(r)

Next ==
  \/ \E w \in Worker : WorkerStep(w) \/ Crash(w)
  \/ \E t \in Task : LeaseLapse(t)
  \/ \E r \in Request : UserCalls(r) \/ RequestStep(r) \/ RequestDies(r)

Spec == Init /\ [][Next]_vars

\* Time passes, the worker loops and the started API calls go on; users need
\* not call, and nothing fails because it could.  A claimable task is not passed
\* over for ever: the query takes the oldest, and a task that was given back
\* keeps its lease for a minute (strong fairness of Claim).
Fairness ==
  /\ \A w \in Worker : WF_vars(WorkerStep(w))
  /\ \A t \in Task : SF_vars(\E w \in Worker : Claim(w, t))
  /\ \A t \in Task : WF_vars(LeaseLapse(t))
  /\ \A r \in Request : WF_vars(RequestStep(r))

FairSpec == Spec /\ Fairness

----------------------------------------------------------------------------
(* Properties.                                                             *)

TypeOK ==
  /\ row \in [Task -> Row]
  /\ approvals \in [Stamp -> Approval]
  /\ clock \in 1..(MaxRun + 1)
  /\ log \in [Task -> SUBSET EventType]
  /\ pc \in [Worker -> WorkerPc]
  /\ cur \in [Worker -> Task \cup {None}]
  /\ mem \in [Worker -> Mem]
  /\ rpc \in [Request -> RequestPc]
  /\ req \in [Request -> Req]
  /\ ran \in [Stamp -> Nat]
  /\ faults \in [Task -> SUBSET FaultKind]
  /\ stopped \in SUBSET Task
  /\ crashes \in 0..MaxCrash

\* At most one worker has a task in its hands, whatever leases lapse during a run,
\* users cancel and decide, and processes die: the RUNNING commit protects a run that
\* outlasts its lease, and a decision queues a task only after its worker has gone.
\* Excepted are a lease that lapses before RUNNING is committed, a decision made
\* before WAITING_APPROVAL is, and two decisions of one approval.
Exclusive ==
  \A t \in Task : faults[t] \cap {"late", "early", "double"} = {} =>
    \A v, w \in Worker : Busy(v, t) /\ Busy(w, t) => v = w

\* The tool call a resumed run executes is the one whose approval it read, unless
\* two workers overlapped or a worker died between approval and checkpoint.
GrantMatches ==
  \A w \in Worker :
    pc[w] = "tool" /\ faults[cur[w]] \cap {"overlap", "torn"} = {} => mem[w].call = mem[w].grant

\* An approved call is executed at most once, across crashes, lapses and cancels:
\* RUNNING is committed before the call is made.
RunOnce ==
  \A s \in Stamp :
    approvals[s].task # None /\ faults[approvals[s].task] \cap {"overlap", "torn", "double"} = {}
      => ran[s] <= 1

\* What was executed had been approved, and a denied call was not: under the same
\* conditions no decision, however late, meets an execution of the other kind.
OnlyApprovedRuns ==
  \A s \in Stamp :
    ran[s] > 0 /\ faults[approvals[s].task] \cap {"overlap", "torn", "double"} = {}
      => approvals[s].status = "approved"

\* A cancel accepted while nobody works on the task is final: no worker acts on the
\* task again and it never succeeds, whatever decisions queue it again.
CancelFinal ==
  \A t \in stopped :
    /\ row[t].status \in {"cancelled", "queued"}
    /\ \A w \in Worker : cur[w] = t => pc[w] \notin Acting

\* A task that waits has an approval the user can still decide, or a decision that
\* is on its way to the queue.
WaitingIsAnswerable ==
  \A t \in Task :
    row[t].status = "waiting_approval" /\ faults[t] \cap {"overlap", "double", "abandoned"} = {} =>
      \/ \E s \in Stamp : IsLatest(s, t) /\ approvals[s].status = "pending"
      \/ \E r \in Request : req[r].task = t /\ rpc[r] \in {"decided", "requeue"}

----------------------------------------------------------------------------
(* The promise that the lifecycle implements.                              *)

Exposed(s) == faults[approvals[s].task] \cap {"overlap", "torn", "double"} # {}

Gate == INSTANCE ApprovalGate WITH
  Call <- Stamp,
  owner <- [s \in Stamp |-> approvals[s].task],
  state <- [s \in Stamp |-> IF approvals[s].task = None THEN "unasked"
                            ELSE IF Exposed(s) THEN "exposed" ELSE approvals[s].status],
  runs <- [s \in Stamp |-> IF approvals[s].task # None /\ ~Exposed(s) THEN ran[s] ELSE 0]

\* Whatever workers, users, lapses and crashes do, the tables show what ApprovalGate
\* allows: one open question per task, one answer that stands, at most one execution,
\* of an approved call.
GateKept == Gate!Spec

----------------------------------------------------------------------------
\* A queued task with a message is served: it leaves the queue or waits for a user.
QueuedIsServed ==
  \A t \in Task \ Blank :
    row[t].status = "queued" ~>
      \/ row[t].status # "queued"
      \/ \E s \in Stamp : approvals[s].task = t /\ approvals[s].status = "pending"

\* A decision takes effect: an approved call is executed, a denial is logged,
\* unless the task is cancelled or a race or a failure intervenes.
DecisionTakesEffect ==
  \A s \in Stamp, t \in Task :
    approvals[s].task = t /\ approvals[s].status # "pending" ~>
      \/ approvals[s].status = "approved" /\ ran[s] > 0
      \/ approvals[s].status = "denied" /\ "denied" \in log[t]
      \/ row[t].cancel \/ faults[t] # {} \/ crashes > 0

\* A final cancel prevails over every later decision.
CancelPrevails == \A t \in Task : <>[](t \in stopped => row[t].status = "cancelled")

=============================================================================
