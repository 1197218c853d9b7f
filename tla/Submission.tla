----------------------------- MODULE Submission -----------------------------
(***************************************************************************)
(* How tasks come into being.  A client submits a prompt with an           *)
(* idempotency key, by send_message or delegate_task, and repeats the      *)
(* request with the same key while the network fails; a request whose      *)
(* connection broke goes on in the API.  Schedulers turn the due           *)
(* occurrences of routines into tasks.                                     *)
(*                                                                         *)
(* The nth request of submission s is <<s, n>>; a message and a task are   *)
(* named by the request that inserted them, the task of an occurrence by   *)
(* its routine and number.  Occurrences fall on the instants 1, 2, ...     *)
(***************************************************************************)
EXTENDS Naturals, FiniteSets

CONSTANTS
  Sub,          \* submissions
  MaxAttempts,  \* requests of a submission: 1 + the client's retries
  Routine,
  Scheduler,    \* scheduler processes
  MaxTime,      \* bound: the clock
  MaxDeaths,    \* bound: processes that die
  None

Request == Sub \X (1..MaxAttempts)

ASSUME SubmissionAssumption ==
  MaxAttempts \in Nat \ {0} /\ MaxTime \in Nat /\ MaxDeaths \in Nat /\ None \notin Request

VARIABLES
  keyed,       \* submissions with an Idempotency-Key
  delegations, \* submissions by delegate_task
  client,      \* state of each submission at its client
  attempt,     \* requests sent so far
  pc,          \* next step of each request's handler
  task,        \* the task each handler holds
  messages,    \* conversations with their message
  tasks,       \* tasks rows
  created,     \* created events of each task
  delegated,   \* delegated events of the parent that name the task
  now,         \* the clock
  next,        \* next_run_at of each routine
  enabled,     \* enabled of each routine
  archived,    \* routines whose bot is archived
  locked,      \* rows each scheduler's transaction holds
  runs,        \* tasks of occurrences
  deaths,      \* processes that died
  overlapped,  \* history: submissions with two handlers that both found no task
  broken       \* history: submissions with a handler that died

submitted == <<client, attempt>>
handlers == <<pc, task>>
tables == <<messages, tasks, created, delegated>>
routines == <<now, next, enabled, archived, locked, runs>>
history == <<deaths, overlapped, broken>>
kinds == <<keyed, delegations>>
vars == <<kinds, submitted, handlers, tables, routines, history>>

Init ==
  /\ keyed \in SUBSET Sub
  /\ delegations \in SUBSET Sub
  /\ client = [s \in Sub |-> "new"]
  /\ attempt = [s \in Sub |-> 0]
  /\ pc = [r \in Request |-> "unsent"]
  /\ task = [r \in Request |-> None]
  /\ messages = {}
  /\ tasks = {}
  /\ created = [r \in Request |-> 0]
  /\ delegated = [r \in Request |-> 0]
  /\ now = 0
  /\ next = [r \in Routine |-> 1]
  /\ enabled = [r \in Routine |-> TRUE]
  /\ archived = {}
  /\ locked = [x \in Scheduler |-> {}]
  /\ runs = {}
  /\ deaths = 0
  /\ overlapped = {}
  /\ broken = {}

----------------------------------------------------------------------------
(* The client.                                                             *)

\* A first request, or a retry after the delay.
Send(s) ==
  /\ client[s] \in {"new", "backoff"} /\ attempt[s] < MaxAttempts
  /\ client' = [client EXCEPT ![s] = "sent"]
  /\ attempt' = [attempt EXCEPT ![s] = @ + 1]
  /\ pc' = [pc EXCEPT ![<<s, attempt[s] + 1>>] = "find"]
  /\ UNCHANGED <<kinds, task, tables, routines, history>>

Sent(s) == <<s, attempt[s]>>

\* Mutant: the number of attempts is not looked at before the delay.
LoseAndRetry(s) ==
  /\ client[s] = "sent"
  /\ client' = [client EXCEPT ![s] = IF s \in keyed THEN "backoff" ELSE "failed"]
  /\ UNCHANGED <<kinds, attempt, handlers, tables, routines, history>>

\* The connection breaks or a proxy answers 502 to 504: a request with a key is
\* repeated.  The handler does not notice.
Lose(s) ==
  /\ client[s] = "sent"
  /\ client' = [client EXCEPT ![s] = IF s \in keyed /\ attempt[s] < MaxAttempts
                                       THEN "backoff" ELSE "failed"]
  /\ UNCHANGED <<kinds, attempt, handlers, tables, routines, history>>

\* The client's timeout is not retried.
TimeOut(s) ==
  /\ client[s] = "sent"
  /\ client' = [client EXCEPT ![s] = "failed"]
  /\ UNCHANGED <<kinds, attempt, handlers, tables, routines, history>>

\* An answer arrives: a task, or a 500 that is not retried.
Receive(s) ==
  /\ client[s] = "sent" /\ pc[Sent(s)] \in {"answered", "error"}
  /\ client' = [client EXCEPT ![s] = IF pc[Sent(s)] = "answered" THEN "done" ELSE "failed"]
  /\ UNCHANGED <<kinds, attempt, handlers, tables, routines, history>>

----------------------------------------------------------------------------
(* The handler: send_message and delegate_task.                            *)

TasksOf(s) == {r \in tasks : r[1] = s}

Goto(r, to) == pc' = [pc EXCEPT ![r] = to]

\* The handlers of a submission that found no task and have inserted none yet.
Before(s) == {r \in Request : r[1] = s /\ pc[r] \in {"converse", "lookup", "insert"}}

\* Mutant: the key is looked up in create only.
FindNothing(r) ==
  /\ pc[r] = "find"
  /\ Goto(r, "converse")
  /\ overlapped' = IF Before(r[1]) # {} THEN overlapped \cup {r[1]} ELSE overlapped
  /\ UNCHANGED <<kinds, submitted, task, tables, routines, deaths, broken>>

\* find_by_idempotency_key: a task that exists already is the answer.
Find(r) ==
  /\ pc[r] = "find"
  /\ \/ /\ r[1] \in keyed /\ TasksOf(r[1]) # {}
        /\ \E t \in TasksOf(r[1]) : task' = [task EXCEPT ![r] = t]
        /\ Goto(r, "answered")
        /\ UNCHANGED overlapped
     \/ /\ r[1] \notin keyed \/ TasksOf(r[1]) = {}
        /\ Goto(r, "converse")
        /\ overlapped' = IF Before(r[1]) # {} THEN overlapped \cup {r[1]} ELSE overlapped
        /\ UNCHANGED task
  /\ UNCHANGED <<kinds, submitted, tables, routines, deaths, broken>>

\* create_with_message
Converse(r) ==
  /\ pc[r] = "converse"
  /\ messages' = messages \cup {r}
  /\ Goto(r, "lookup")
  /\ UNCHANGED <<kinds, submitted, task, tasks, created, delegated, routines, history>>

\* Mutant: create finds a task and does not return it.
LookupForgotten(r) ==
  /\ pc[r] = "lookup"
  /\ Goto(r, IF r[1] \in keyed /\ TasksOf(r[1]) # {} THEN "created" ELSE "insert")
  /\ UNCHANGED <<kinds, submitted, task, tables, routines, history>>

\* TaskRepository.create looks the key up again: the handler cannot tell a task it
\* found from one it made.
Lookup(r) ==
  /\ pc[r] = "lookup"
  /\ \/ /\ r[1] \in keyed /\ TasksOf(r[1]) # {}
        /\ \E t \in TasksOf(r[1]) : task' = [task EXCEPT ![r] = t]
        /\ Goto(r, "created")
     \/ /\ r[1] \notin keyed \/ TasksOf(r[1]) = {}
        /\ Goto(r, "insert")
        /\ UNCHANGED task
  /\ UNCHANGED <<kinds, submitted, tables, routines, history>>

\* Mutant: no unique constraint.
InsertAnyway(r) ==
  /\ pc[r] = "insert"
  /\ tasks' = tasks \cup {r}
  /\ task' = [task EXCEPT ![r] = r]
  /\ Goto(r, "created")
  /\ UNCHANGED <<kinds, submitted, messages, created, delegated, routines, history>>

\* The unique constraint on bot and key makes a second insert an error.
Insert(r) ==
  /\ pc[r] = "insert"
  /\ \/ /\ r[1] \in keyed /\ TasksOf(r[1]) # {}
        /\ Goto(r, "error")
        /\ UNCHANGED <<tasks, task>>
     \/ /\ r[1] \notin keyed \/ TasksOf(r[1]) = {}
        /\ tasks' = tasks \cup {r}
        /\ task' = [task EXCEPT ![r] = r]
        /\ Goto(r, "created")
  /\ UNCHANGED <<kinds, submitted, messages, created, delegated, routines, history>>

\* Mutant: a delegation is not recorded at its parent.
AppendCreatedOnly(r) ==
  /\ pc[r] = "created"
  /\ created' = [created EXCEPT ![task[r]] = @ + 1]
  /\ Goto(r, "answered")
  /\ UNCHANGED <<kinds, submitted, task, messages, tasks, delegated, routines, history>>

AppendCreated(r) ==
  /\ pc[r] = "created"
  /\ created' = [created EXCEPT ![task[r]] = @ + 1]
  /\ Goto(r, IF r[1] \in delegations THEN "delegated" ELSE "answered")
  /\ UNCHANGED <<kinds, submitted, task, messages, tasks, delegated, routines, history>>

AppendDelegated(r) ==
  /\ pc[r] = "delegated"
  /\ delegated' = [delegated EXCEPT ![task[r]] = @ + 1]
  /\ Goto(r, "answered")
  /\ UNCHANGED <<kinds, submitted, task, messages, tasks, created, routines, history>>

Running == {"find", "converse", "lookup", "insert", "created", "delegated"}

\* The API dies between two transactions of a request.
Die(r) ==
  /\ deaths < MaxDeaths /\ pc[r] \in Running
  /\ deaths' = deaths + 1
  /\ Goto(r, "dead")
  /\ broken' = broken \cup {r[1]}
  /\ UNCHANGED <<kinds, submitted, task, tables, routines, overlapped>>

----------------------------------------------------------------------------
(* Routines.                                                               *)

Tick ==
  /\ now < MaxTime
  /\ now' = now + 1
  /\ UNCHANGED <<kinds, submitted, handlers, tables, next, enabled, archived, locked, runs,
                 history>>

ArchiveBot(r) ==
  /\ archived' = archived \cup {r}
  /\ UNCHANGED <<kinds, submitted, handlers, tables, now, next, enabled, locked, runs, history>>

\* The due routines, as far as no other transaction holds them (SKIP LOCKED).
Select(x) ==
  LET held == UNION {locked[y] : y \in Scheduler}
      due == {r \in Routine \ held : enabled[r] /\ next[r] <= now} IN
    /\ locked[x] = {} /\ due # {}
    /\ locked' = [locked EXCEPT ![x] = due]
    /\ UNCHANGED <<kinds, submitted, handlers, tables, now, next, enabled, archived, runs, history>>

\* Mutant: the next occurrence is the one after the present instant.
DispatchAfterNow(x) ==
  /\ locked[x] # {}
  /\ next' = [r \in Routine |-> IF r \in locked[x] THEN now + 1 ELSE next[r]]
  /\ enabled' = [r \in Routine |-> enabled[r] /\ r \notin locked[x] \cap archived]
  /\ runs' = runs \cup {<<r, next[r]>> : r \in locked[x] \ archived}
  /\ locked' = [locked EXCEPT ![x] = {}]
  /\ UNCHANGED <<kinds, submitted, handlers, tables, now, archived, history>>

\* Mutant: a transaction with the routine of an archived bot is rolled back.
DispatchAll(x) ==
  /\ locked[x] # {} /\ locked[x] \cap archived = {}
  /\ next' = [r \in Routine |-> IF r \in locked[x] THEN next[r] + 1 ELSE next[r]]
  /\ runs' = runs \cup {<<r, next[r]>> : r \in locked[x]}
  /\ locked' = [locked EXCEPT ![x] = {}]
  /\ UNCHANGED <<kinds, submitted, handlers, tables, now, enabled, archived, history>>

\* One transaction: each routine moves to its next occurrence and its task is inserted
\* with the key of the occurrence; the routine of an archived bot is disabled.
Dispatch(x) ==
  /\ locked[x] # {}
  /\ \A r \in locked[x] \ archived : <<r, next[r]>> \notin runs
  /\ next' = [r \in Routine |-> IF r \in locked[x] THEN next[r] + 1 ELSE next[r]]
  /\ enabled' = [r \in Routine |-> enabled[r] /\ r \notin locked[x] \cap archived]
  /\ runs' = runs \cup {<<r, next[r]>> : r \in locked[x] \ archived}
  /\ locked' = [locked EXCEPT ![x] = {}]
  /\ UNCHANGED <<kinds, submitted, handlers, tables, now, archived, history>>

\* A scheduler dies: its transaction is rolled back.
SchedulerDies(x) ==
  /\ locked[x] # {} /\ deaths < MaxDeaths
  /\ deaths' = deaths + 1
  /\ locked' = [locked EXCEPT ![x] = {}]
  /\ UNCHANGED <<kinds, submitted, handlers, tables, now, next, enabled, archived, runs,
                 overlapped, broken>>

----------------------------------------------------------------------------
HandlerStep(r) ==
  \/ Find(r) \/ Converse(r) \/ Lookup(r) \/ Insert(r) \/ AppendCreated(r) \/ AppendDelegated(r)
SchedulerStep(x) == Select(x) \/ Dispatch(x)

\* What the client does on its own: a retry, an answer, or the end of a dead connection.
ClientStep(s) ==
  \/ client[s] = "backoff" /\ Send(s)
  \/ Receive(s)
  \/ client[s] = "sent" /\ pc[Sent(s)] = "dead" /\ Lose(s)

Next ==
  \/ \E s \in Sub : Send(s) \/ Lose(s) \/ TimeOut(s) \/ Receive(s)
  \/ \E r \in Request : HandlerStep(r) \/ Die(r)
  \/ Tick
  \/ \E r \in Routine : ArchiveBot(r)
  \/ \E x \in Scheduler : SchedulerStep(x) \/ SchedulerDies(x)

Spec == Init /\ [][Next]_vars

\* Handlers, clients and schedulers go on.  A handler has finitely many steps, and a
\* scheduler holds its rows for one, so fairness for all of a kind together is enough.
FairSpec ==
  /\ Spec
  /\ WF_vars(\E r \in Request : HandlerStep(r))
  /\ WF_vars(\E s \in Sub : ClientStep(s))
  /\ WF_vars(\E x \in Scheduler : SchedulerStep(x))

----------------------------------------------------------------------------
(* Properties.                                                             *)

HasTask == {"created", "delegated", "answered"}

TypeOK ==
  /\ keyed \subseteq Sub /\ delegations \subseteq Sub
  /\ client \in [Sub -> {"new", "sent", "backoff", "done", "failed"}]
  /\ attempt \in [Sub -> 0..MaxAttempts]
  /\ pc \in [Request -> Running \cup {"unsent", "answered", "error", "dead"}]
  /\ task \in [Request -> tasks \cup {None}]
  /\ \A r \in Request : pc[r] \in HasTask => task[r] # None
  /\ messages \subseteq Request /\ tasks \subseteq Request
  /\ created \in [Request -> Nat] /\ delegated \in [Request -> Nat]
  /\ now \in Nat
  /\ next \in [Routine -> Nat \ {0}]
  /\ enabled \in [Routine -> BOOLEAN]
  /\ archived \subseteq Routine
  /\ locked \in [Scheduler -> SUBSET Routine]
  /\ runs \subseteq Routine \X (Nat \ {0})
  /\ deaths \in Nat
  /\ overlapped \subseteq Sub /\ broken \subseteq Sub

\* All answers to a submission with a key name one task, and there is no other.
AnswersAgree ==
  \A s \in keyed :
    /\ \A t, u \in TasksOf(s) : t = u
    /\ \A r \in Request : r[1] = s /\ pc[r] = "answered" => TasksOf(s) = {task[r]}

\* A request that is over leaves no message without a task and, answered, no task with
\* two created events, unless two handlers of the submission were in each other's way or
\* one died.
NoLeftovers ==
  \A r \in Request : r[1] \notin overlapped \cup broken =>
    /\ r \in messages /\ pc[r] \notin Running => r \in tasks
    /\ created[r] <= 1 /\ delegated[r] <= 1

\* The client that was told of a task finds its created event in the end, and the
\* delegated event at the parent, unless a handler of its submission died.
Recorded(s) ==
  \E t \in tasks :
    /\ client[s] = "done" /\ task[Sent(s)] = t
    /\ created[t] > 0
    /\ s \in delegations => delegated[t] > 0
AnsweredIsRecorded == \A s \in Sub : client[s] = "done" ~> Recorded(s) \/ s \in broken

\* A client hears of its submission in the end: a task, or an error.
SubmissionEnds == \A s \in Sub : client[s] = "sent" ~> client[s] \in {"done", "failed"}

\* The occurrences that became tasks are all up to the routine's next one, none skipped,
\* except the one at which it was disabled; and none ahead of its time.
EveryOccurrence ==
  \A r \in Routine :
    LET dispatched == {o \in 1..now : <<r, o>> \in runs} IN
      /\ dispatched = 1..(IF enabled[r] THEN next[r] - 1 ELSE next[r] - 2)
      /\ \A run \in runs : run[1] = r => run[2] <= now

\* An occurrence that is due is dispatched, or the routine disabled, whoever dies.
DueIsDispatched ==
  \A r \in Routine, o \in 1..MaxTime :
    enabled[r] /\ o <= now ~> <<r, o>> \in runs \/ ~enabled[r]
=============================================================================
