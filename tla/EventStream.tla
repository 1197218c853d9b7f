---------------------------- MODULE EventStream ----------------------------
(***************************************************************************)
(* The event log of one task, the stream that serves it and the screen     *)
(* that follows it.  Three sessions append to the log: the API call that   *)
(* created the task, the worker, and a user's cancel.  An event's id is    *)
(* taken by its INSERT and the event is visible from its COMMIT on, so     *)
(* sessions can commit in another order than their ids.  The server polls  *)
(* for ids above the last one it sent; the desktop keeps the last id it    *)
(* received, reconnects with it and derives the status it shows.           *)
(*                                                                         *)
(* What makes the worker and the user act is TaskLifecycle's; here they    *)
(* are kept as far as they decide which event follows which status.        *)
(***************************************************************************)
EXTENDS Naturals, Sequences, FiniteSetsExt, SequencesExt

CONSTANTS
  MaxNotes,    \* bound: events that change no status
  MaxCancels,  \* bound: cancels that are not refused
  MaxPauses,   \* bound: pauses for an approval
  MaxFailures  \* bound: broken and refused connections, sessions that die

ASSUME BoundsAssumption ==
  MaxNotes \in Nat /\ MaxCancels \in Nat /\ MaxPauses \in Nat /\ MaxFailures \in Nat

VARIABLES
  status,      \* tasks.status
  requested,   \* tasks.cancel_requested
  approvals,   \* approvals of the task, in order: "pending", "approved", "denied"
  about,       \* what the worker will do with the row it loaded, or "none"
  working,     \* the worker runs the agent
  todo,        \* the event each session is about to append, or "none"
  open,        \* the id a session's uncommitted INSERT took, or 0
  types,       \* the type of the event at each id taken so far
  log,         \* ids of the committed events
  connected,   \* a stream is open
  over,        \* the client has given the stream up
  after,       \* the server's after_id
  net,         \* ids sent and not received
  cursor,      \* the client's last id
  received,    \* ids handed to onEvent, in order
  shown,       \* the status on the screen
  notes, cancels, failures,  \* counters for the bounds
  late,        \* history: ids committed when a larger id was already visible
  faults       \* history: why the last status may have no event behind it

tables == <<status, requested, approvals, types, log>>
sessions == <<about, working, todo, open>>
stream == <<connected, over, after, net, cursor, received, shown>>
history == <<notes, cancels, failures, late, faults>>
vars == <<tables, sessions, stream, history>>

Session == {"creator", "worker", "canceller"}
Status == {"queued", "running", "waiting_approval", "succeeded", "failed", "cancelled"}
Terminal == {"succeeded", "failed", "cancelled"}
Plan == {"start", "resume", "deny"}
EventType == {"created", "started", "note", "approval_requested", "completed", "failed", "cancelled"}

\* EVENT_STATUS of the desktop, with the events it does not list.
StatusOf(type, current) ==
  CASE type = "started" -> "running"
    [] type = "approval_requested" -> "waiting_approval"
    [] type = "completed" -> "succeeded"
    [] type = "failed" -> "failed"
    [] type = "cancelled" -> "cancelled"
    [] OTHER -> current

\* The event that follows the commit of a status.
Announces(s) ==
  CASE s = "running" -> "started"
    [] s = "waiting_approval" -> "approval_requested"
    [] s = "succeeded" -> "completed"
    [] s = "failed" -> "failed"

Init ==
  /\ status = "queued"
  /\ requested = FALSE
  /\ approvals = <<>>
  /\ about = "none"
  /\ working = FALSE
  /\ todo = [s \in Session |-> IF s = "creator" THEN "created" ELSE "none"]
  /\ open = [s \in Session |-> 0]
  /\ types = <<>>
  /\ log = {}
  /\ connected = FALSE
  /\ over = FALSE
  /\ after = 0
  /\ net = <<>>
  /\ cursor = 0
  /\ received = <<>>
  /\ shown = "queued"
  /\ notes = 0 /\ cancels = 0 /\ failures = 0
  /\ late = {}
  /\ faults = {}

----------------------------------------------------------------------------
(* Appending an event.                                                     *)

\* The INSERT takes the next id.
Insert(s) ==
  /\ todo[s] # "none" /\ open[s] = 0
  /\ types' = Append(types, todo[s])
  /\ open' = [open EXCEPT ![s] = Len(types) + 1]
  /\ UNCHANGED <<status, requested, approvals, log, about, working, todo, stream, history>>

Larger(id) == {i \in log : i > id}

\* The COMMIT makes the event visible.  The cancel's transaction also updates the row.
Commit(s) ==
  /\ open[s] # 0
  /\ log' = log \cup {open[s]}
  /\ late' = IF Larger(open[s]) = {} THEN late ELSE late \cup {open[s]}
  /\ open' = [open EXCEPT ![s] = 0]
  /\ todo' = [todo EXCEPT ![s] = "none"]
  /\ IF s = "canceller"
       THEN /\ status' = "cancelled"
            /\ requested' = TRUE
            /\ faults' = IF todo["worker"] \in {"none", "note"} THEN {} ELSE {"crossed"}
       ELSE UNCHANGED <<status, requested, faults>>
  /\ UNCHANGED <<approvals, types, about, working, stream, notes, cancels, failures>>

\* The process of a session dies: its transaction is rolled back, its id is a gap.
Die(s) ==
  /\ failures < MaxFailures
  /\ todo[s] # "none" \/ (s = "worker" /\ (working \/ about # "none"))
  /\ failures' = failures + 1
  /\ open' = [open EXCEPT ![s] = 0]
  /\ todo' = [todo EXCEPT ![s] = "none"]
  /\ working' = (working /\ s # "worker")
  /\ about' = IF s = "worker" THEN "none" ELSE about
  /\ faults' = IF s = "worker" /\ todo[s] \notin {"none", "note"} THEN faults \cup {"lost"}
                                                                  ELSE faults
  /\ UNCHANGED <<tables, stream, notes, cancels, late>>

----------------------------------------------------------------------------
(* What the sessions append.                                               *)

\* The cancel's transaction holds the row from its UPDATE to its COMMIT.
RowFree == open["canceller"] = 0

\* update_execution(status) and the event that follows it.
Change(s, event) ==
  /\ status' = s
  /\ todo' = [todo EXCEPT !["worker"] = event]
  /\ faults' = {}

WorkerFree == about = "none" /\ ~working /\ todo["worker"] = "none"

\* The worker claims the queued task and loads its row: what it does next it decides from
\* this copy, in which no cancel was requested.
Load ==
  /\ WorkerFree /\ status = "queued" /\ ~requested
  /\ approvals # <<>> => Last(approvals) # "pending"
  /\ about' = IF approvals = <<>> THEN "start"
              ELSE IF Last(approvals) = "approved" THEN "resume" ELSE "deny"
  /\ UNCHANGED <<tables, working, todo, open, stream, history>>

\* A fresh run.
Start ==
  /\ about = "start" /\ RowFree
  /\ Change("running", "started")
  /\ about' = "none" /\ working' = TRUE
  /\ UNCHANGED <<requested, approvals, types, log, open, stream, notes, cancels, failures, late>>

\* A resumed run: no started event.
Resume ==
  /\ about = "resume" /\ todo["worker"] = "none" /\ RowFree
  /\ status' = "running"
  /\ about' = "none" /\ working' = TRUE
  /\ UNCHANGED <<requested, approvals, types, log, todo, open, stream, history>>

FailDenied ==
  /\ about = "deny" /\ todo["worker"] = "none" /\ RowFree
  /\ Change("failed", "failed")
  /\ about' = "none"
  /\ UNCHANGED <<requested, approvals, types, log, working, open, stream,
                 notes, cancels, failures, late>>

\* The worker finds that a cancel was requested: no event.
FindCancelled ==
  /\ WorkerFree /\ status = "queued" /\ requested /\ RowFree
  /\ status' = "cancelled"
  /\ UNCHANGED <<requested, approvals, types, log, sessions, stream, history>>

WorkerMay == working /\ todo["worker"] = "none"

\* approved, denied, tool_started, tool_completed, model_response, artifact_created: the
\* first three also before a decided task's status is written.
Note ==
  /\ WorkerMay \/ (about \in {"resume", "deny"} /\ todo["worker"] = "none")
  /\ notes < MaxNotes
  /\ notes' = notes + 1
  /\ todo' = [todo EXCEPT !["worker"] = "note"]
  /\ UNCHANGED <<tables, about, working, open, stream, cancels, failures, late, faults>>

Finish(s) ==
  /\ WorkerMay /\ RowFree
  /\ Change(s, Announces(s))
  /\ working' = FALSE
  /\ UNCHANGED <<requested, approvals, types, log, about, open, stream,
                 notes, cancels, failures, late>>

\* ApprovalRequired.  A run that did not notice a cancel asks like any other; the task then
\* ends as cancelled without an event (FindCancelled).
Pause ==
  /\ WorkerMay /\ RowFree /\ Len(approvals) < MaxPauses
  /\ status' = "waiting_approval"
  /\ todo' = [todo EXCEPT !["worker"] = "approval_requested"]
  /\ approvals' = Append(approvals, "pending")
  /\ working' = FALSE
  /\ faults' = IF requested THEN {"unheeded"} ELSE {}
  /\ UNCHANGED <<requested, types, log, about, open, stream, notes, cancels, failures, late>>

\* decide_approval queues the task whatever its status is; no event.
Decide(decision) ==
  /\ RowFree /\ approvals # <<>> /\ Last(approvals) = "pending"
  /\ approvals' = Append(Front(approvals), decision)
  /\ status' = "queued"
  /\ UNCHANGED <<requested, types, log, sessions, stream, history>>

\* Mutant: the cancel's transaction writes the row only.
AskCancelSilently ==
  /\ todo["canceller"] = "none" /\ status \notin Terminal
  /\ status' = "cancelled" /\ requested' = TRUE
  /\ UNCHANGED <<approvals, types, log, sessions, stream, history>>

\* cancel reads the row: a terminal task is refused.
AskCancel ==
  /\ todo["canceller"] = "none" /\ status \notin Terminal /\ cancels < MaxCancels
  /\ cancels' = cancels + 1
  /\ todo' = [todo EXCEPT !["canceller"] = "cancelled"]
  /\ UNCHANGED <<tables, about, working, open, stream, notes, failures, late, faults>>

----------------------------------------------------------------------------
(* The server and the client.                                              *)

\* Mutant: the client asks for everything again.
ConnectAfresh ==
  /\ ~connected /\ ~over
  /\ connected' = TRUE
  /\ after' = 0
  /\ UNCHANGED <<tables, sessions, over, net, cursor, received, shown, history>>

\* Mutant: a broken stream is not opened again.
ConnectOnce ==
  /\ ~connected /\ ~over /\ failures = 0
  /\ connected' = TRUE
  /\ after' = cursor
  /\ UNCHANGED <<tables, sessions, over, net, cursor, received, shown, history>>

\* A GET with Last-Event-ID: the stream starts behind the cursor.
Connect ==
  /\ ~connected /\ ~over
  /\ connected' = TRUE
  /\ after' = cursor
  /\ UNCHANGED <<tables, sessions, over, net, cursor, received, shown, history>>

Unsent == {id \in log : id > after}

\* A set of ids in increasing order: the kth is the one up to which there are k.
Sorted(ids) ==
  [k \in 1..Cardinality(ids) |-> CHOOSE id \in ids : Cardinality({i \in ids : i <= id}) = k]

\* Mutant: the newest event is sent first.
PollNewest ==
  /\ connected /\ Unsent # {}
  /\ after' = Max(Unsent)
  /\ net' = net \o SetToSortSeq(Unsent, >)
  /\ UNCHANGED <<tables, sessions, connected, over, cursor, received, shown, history>>

\* Mutant: uncommitted rows are read.
PollUncommitted ==
  /\ connected /\ after < Len(types)
  /\ after' = Len(types)
  /\ net' = net \o SetToSortSeq(after + 1 .. Len(types), <)
  /\ UNCHANGED <<tables, sessions, connected, over, cursor, received, shown, history>>

\* list_events(after_id), sent in the order of the ids.  An empty answer is a heartbeat.
Poll ==
  /\ connected /\ Unsent # {}
  /\ after' = Max(Unsent)
  /\ net' = net \o Sorted(Unsent)
  /\ UNCHANGED <<tables, sessions, connected, over, cursor, received, shown, history>>

\* A frame arrives: the cursor moves and the screen follows.
Receive ==
  /\ net # <<>>
  /\ net' = Tail(net)
  /\ cursor' = Head(net)
  /\ received' = Append(received, Head(net))
  /\ shown' = StatusOf(types[Head(net)], shown)
  /\ UNCHANGED <<tables, sessions, connected, over, after, history>>

\* The connection breaks, or the API restarts: what was not received is lost.
Break ==
  /\ connected /\ failures < MaxFailures
  /\ failures' = failures + 1
  /\ connected' = FALSE
  /\ net' = <<>>
  /\ UNCHANGED <<tables, sessions, over, after, cursor, received, shown, notes, cancels, late, faults>>

\* A connection is answered with a status that the client does not try again (the API's
\* database fails, for one): stream() throws, and nothing opens the stream anew.
Refuse ==
  /\ ~connected /\ ~over /\ failures < MaxFailures
  /\ failures' = failures + 1
  /\ over' = TRUE
  /\ UNCHANGED <<tables, sessions, connected, after, net, cursor, received, shown,
                 notes, cancels, late, faults>>

----------------------------------------------------------------------------
WorkerStep ==
  \/ Load \/ Start \/ Resume \/ FailDenied \/ FindCancelled \/ Note \/ Pause
  \/ Finish("succeeded") \/ Finish("failed")
StreamStep == Connect \/ Poll \/ Receive

Next ==
  \/ \E s \in Session : Insert(s) \/ Commit(s) \/ Die(s)
  \/ WorkerStep
  \/ \E decision \in {"approved", "denied"} : Decide(decision)
  \/ AskCancel
  \/ StreamStep \/ Break \/ Refuse

Spec == Init /\ [][Next]_vars

\* A session that has an event to append goes on; the server polls and the client
\* reads and reconnects.  Worker and users need not act.
FairSpec ==
  /\ Spec
  /\ \A s \in Session : WF_vars(Insert(s)) /\ WF_vars(Commit(s))
  /\ WF_vars(StreamStep)

----------------------------------------------------------------------------
(* Properties.                                                             *)

Ids == 1..Len(types)

TypeOK ==
  /\ status \in Status /\ shown \in Status
  /\ requested \in BOOLEAN /\ working \in BOOLEAN /\ connected \in BOOLEAN /\ over \in BOOLEAN
  /\ about \in Plan \cup {"none"}
  /\ approvals \in Seq({"pending", "approved", "denied"})
  /\ todo \in [Session -> EventType \cup {"none"}]
  /\ types \in Seq(EventType)
  /\ open \in [Session -> {0} \cup Ids]
  /\ log \subseteq Ids /\ late \subseteq log
  /\ after \in Nat /\ cursor \in Nat
  /\ net \in Seq(log) /\ received \in Seq(log)
  /\ notes \in Nat /\ cancels \in Nat /\ failures \in Nat
  /\ faults \subseteq {"crossed", "lost", "unheeded"}

Increasing(s) == \A i, j \in DOMAIN s : i < j => s[i] < s[j]

\* Over all connections, the client sees ids in increasing order, so none twice.
SeenInOrder == Increasing(received)

\* An event behind the cursor was seen, unless it was committed after an event with a
\* larger id.
NoneSkipped == \A id \in log : id <= cursor => id \in Range(received) \cup late

\* Unless it has given the stream up, the client catches up again and again: whatever
\* connections broke, every event that was not committed late is seen.
CatchesUp == []<>(over \/ log \ late \subseteq Range(received))

Settled ==
  /\ status \in Terminal /\ ~working /\ about = "none"
  /\ \A s \in Session : todo[s] = "none"
  /\ late = {} /\ faults = {}

\* Once a task is finished and its events are appended, the screen comes to show the status
\* of the row.  Excepted are a stream that the client gave up (over), an event committed
\* late, and a last status whose event is missing or not the last: a cancel was committed
\* between the worker's status and its event (crossed), the worker died between the two
\* (lost), or the run paused over a cancel it had not noticed (unheeded).
ScreenSettles == Settled ~> (shown = status \/ ~Settled \/ over)
=============================================================================
