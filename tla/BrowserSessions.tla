-------------------------- MODULE BrowserSessions --------------------------
(***************************************************************************)
(* Remote browser sessions.  API calls create, use and close a session:    *)
(* each keeps a row in the database and a session in the registry of the   *)
(* browser gateway, which holds a Playwright context in a remote browser.  *)
(* A call reaches the gateway by HTTP and gives up after 30 seconds; the   *)
(* gateway's handler goes on.  Handlers interleave at their awaits and     *)
(* share one connector.                                                    *)
(*                                                                         *)
(* A session is named by the call that creates it (its id is a fresh       *)
(* uuid).  A call has at most one handler for each operation.  Driver d is *)
(* the dth Playwright driver that was started, and browser d the one it    *)
(* connects to.  capture and list change nothing and are left out; URLs,   *)
(* snapshots and domain policies appear as a refusal of an action.         *)
(***************************************************************************)
EXTENDS Naturals

CONSTANTS
  Call,        \* calls: API requests and health probes of the gateway
  MaxDrivers,  \* bound: drivers started
  MaxFailures, \* bound: timeouts, crashes, database errors, Playwright errors
  None

ASSUME BrowserAssumption == MaxDrivers \in Nat /\ MaxFailures \in Nat /\ None \notin Call

VARIABLES
  row,         \* status of each session's row
  recorded,    \* calls with a row in browser_actions
  pc,          \* next step of each call
  kind,        \* what each call does
  target,      \* the session it does it to
  hpc,         \* next step of each handler
  sessions,    \* registry.sessions
  context,     \* the Playwright context of each session
  on,          \* the browser that each context is in
  browser,     \* connector._browser, or 0
  driver,      \* connector._playwright, or 0
  drivers,     \* running drivers
  browsers,    \* connected browsers
  mine,        \* the driver or browser each handler works with
  made,        \* drivers started so far
  performed,   \* history: calls whose action had its effect
  faults,      \* history: what went wrong with each session
  raced,       \* history: connects overlapped, or a browser was lost
  failures     \* failures so far

database == <<row, recorded>>
calls == <<pc, kind, target>>
connector == <<browser, driver, drivers, browsers, mine, made>>
registry == <<sessions, context, on>>
history == <<performed, faults, raced, failures>>
vars == <<database, calls, hpc, connector, registry, history>>

Op == {"create", "perform", "close", "probe"}
Handler == Call \X Op
Reply == {"ok", "denied", "error", "lost"}
Over == {"done", "failed", "dead"}

Init ==
  /\ row = [s \in Call |-> "none"]
  /\ recorded = {}
  /\ pc = [c \in Call |-> "new"]
  /\ kind = [c \in Call |-> "none"]
  /\ target = [c \in Call |-> None]
  /\ hpc = [h \in Handler |-> "none"]
  /\ sessions = {}
  /\ context = [s \in Call |-> "none"]
  /\ on = [s \in Call |-> 0]
  /\ browser = 0 /\ driver = 0
  /\ drivers = {} /\ browsers = {}
  /\ mine = [c \in Call |-> 0]
  /\ made = 0
  /\ performed = {}
  /\ faults = [s \in Call |-> {}]
  /\ raced = FALSE
  /\ failures = 0

\* A failure out of the bound's allowance.
Fail == failures < MaxFailures /\ failures' = failures + 1

\* One that harms the sessions of S.
Fault(S, what) ==
  /\ Fail
  /\ faults' = [s \in Call |-> IF s \in S THEN faults[s] \cup {what} ELSE faults[s]]

----------------------------------------------------------------------------
(* API calls.                                                              *)

Goto(c, to) == pc' = [pc EXCEPT ![c] = to]

\* The call goes on to a step that sends a request to the gateway.
Request(c, to, op) ==
  /\ Goto(c, to)
  /\ hpc' = [hpc EXCEPT ![<<c, op>>] =
       IF op \in {"create", "probe"} THEN "connect" ELSE "get"]

Begin(c, what, s, to, op) ==
  /\ pc[c] = "new"
  /\ kind' = [kind EXCEPT ![c] = what]
  /\ target' = [target EXCEPT ![c] = s]
  /\ Request(c, to, op)
  /\ UNCHANGED <<database, connector, registry, history>>

Create(c) == Begin(c, "create", c, "create", "create")

\* The row must exist; its status is not looked at.
Perform(c, s) == row[s] # "none" /\ Begin(c, "act", s, "perform", "perform")
Close(c, s) == row[s] # "none" /\ Begin(c, "close", s, "close", "close")
Probe(c) == Begin(c, "probe", None, "probe", "probe")

\* The operation whose reply a call waits for.
Awaits(c) ==
  CASE pc[c] \in {"perform", "navigate"} -> "perform"
    [] pc[c] \in {"close", "undo"} -> "close"
    [] OTHER -> pc[c]

Waiting(c) == pc[c] \in {"create", "navigate", "perform", "close", "undo", "probe"}

\* Mutant: the call that created the session does not clean up.
RaiseOnly(c) == Goto(c, "failed") /\ UNCHANGED hpc

\* What an exception leads to: after the remote creation, the remote session is closed.
Raise(c) ==
  IF pc[c] \in {"navigate", "insert"} \/ (pc[c] = "record" /\ kind[c] = "create")
    THEN Request(c, "undo", "close")
    ELSE Goto(c, "failed") /\ UNCHANGED hpc

\* A reply that is not an error.  A session is created with or without a start URL.
Proceed(c) ==
  /\ Waiting(c) /\ hpc[<<c, Awaits(c)>>] = "ok"
  /\ CASE pc[c] = "create" -> Request(c, "navigate", "perform")
                              \/ (Goto(c, "insert") /\ UNCHANGED hpc)
       [] pc[c] = "navigate" -> Goto(c, "insert") /\ UNCHANGED hpc
       [] pc[c] = "perform" -> Goto(c, "record") /\ UNCHANGED hpc
       [] pc[c] = "close" -> Goto(c, "mark") /\ UNCHANGED hpc
       [] pc[c] = "undo" -> Goto(c, "failed") /\ UNCHANGED hpc
       [] pc[c] = "probe" -> Goto(c, "done") /\ UNCHANGED hpc
  /\ UNCHANGED <<database, kind, target, connector, registry, history>>

\* Mutant: the action is listed although the gateway refused it.
RecordRefused(c) ==
  /\ Waiting(c) /\ hpc[<<c, Awaits(c)>>] \in Reply \ {"ok"}
  /\ IF pc[c] = "perform" THEN Goto(c, "record") /\ UNCHANGED hpc ELSE Raise(c)
  /\ UNCHANGED <<database, kind, target, connector, registry, history>>

Refused(c) ==
  /\ Waiting(c) /\ hpc[<<c, Awaits(c)>>] \in Reply \ {"ok"}
  /\ Raise(c)
  /\ UNCHANGED <<database, kind, target, connector, registry, history>>

\* The HTTP client's timeout.
TimeOut(c) ==
  /\ Waiting(c) /\ kind[c] # "probe" /\ hpc[<<c, Awaits(c)>>] \notin Reply
  /\ Fault({target[c]}, "timeout")
  /\ Raise(c)
  /\ UNCHANGED <<database, kind, target, connector, registry, performed, raced>>

\* BrowserSessionRepository.create
InsertRow(c) ==
  /\ pc[c] = "insert"
  /\ row' = [row EXCEPT ![c] = "active"]
  /\ Goto(c, IF hpc[<<c, "perform">>] = "ok" THEN "record" ELSE "done")
  /\ UNCHANGED <<recorded, kind, target, hpc, connector, registry, history>>

\* record_action
Record(c) ==
  /\ pc[c] = "record"
  /\ recorded' = recorded \cup {c}
  /\ Goto(c, "done")
  /\ UNCHANGED <<row, kind, target, hpc, connector, registry, history>>

\* Mutant: the row is not marked.
MarkNothing(c) ==
  /\ pc[c] = "mark"
  /\ Goto(c, "done")
  /\ UNCHANGED <<database, kind, target, hpc, connector, registry, history>>

\* BrowserSessionRepository.close
MarkClosed(c) ==
  /\ pc[c] = "mark"
  /\ row' = [row EXCEPT ![target[c]] = "closed"]
  /\ Goto(c, "done")
  /\ UNCHANGED <<recorded, kind, target, hpc, connector, registry, history>>

\* The row of a new session is read again after its commit: either statement can fail.
DatabaseFails(c) ==
  /\ pc[c] \in {"insert", "record", "mark"}
  /\ Fault({target[c]}, "database")
  /\ \/ UNCHANGED row
     \/ pc[c] = "insert" /\ row' = [row EXCEPT ![c] = "active"]
  /\ Raise(c)
  /\ UNCHANGED <<recorded, kind, target, connector, registry, performed, raced>>

ApiDies(c) ==
  /\ pc[c] \notin Over \cup {"new"} /\ kind[c] # "probe"
  /\ Fault({target[c]}, "died")
  /\ Goto(c, "dead")
  /\ UNCHANGED <<database, kind, target, hpc, connector, registry, performed, raced>>

----------------------------------------------------------------------------
(* The connector.                                                          *)

HGoto(h, to) == hpc' = [hpc EXCEPT ![h] = to]
Connected(h) == HGoto(h, IF h[2] = "create" THEN "context" ELSE "ok")
Connecting == {"starting", "joining", "dropping", "clearing", "forgetting"}

\* Browsers that are lost take their contexts along.
LoseBrowsers(D) ==
  /\ browsers' = browsers \ D
  /\ context' = [s \in Call |-> IF context[s] = "open" /\ on[s] \in D THEN "closed" ELSE context[s]]

\* connect: a live browser is used, or a driver is started.
Connect(h) ==
  /\ hpc[h] = "connect"
  /\ \/ /\ browser \in browsers
        /\ mine' = [mine EXCEPT ![h[1]] = browser]
        /\ Connected(h)
        /\ UNCHANGED <<drivers, made, raced>>
     \/ /\ browser \notin browsers /\ made < MaxDrivers
        /\ made' = made + 1
        /\ drivers' = drivers \cup {made + 1}
        /\ mine' = [mine EXCEPT ![h[1]] = made + 1]
        /\ HGoto(h, "starting")
        /\ raced' = (raced \/ \E g \in Handler : hpc[g] \in Connecting)
  /\ UNCHANGED <<database, calls, browser, driver, browsers, registry, performed, faults, failures>>

Started(h) ==
  /\ hpc[h] = "starting"
  /\ driver' = mine[h[1]]
  /\ HGoto(h, "joining")
  /\ UNCHANGED <<database, calls, browser, drivers, browsers, mine, made, registry, history>>

Join(h) ==
  /\ hpc[h] = "joining" /\ mine[h[1]] \in drivers
  /\ browsers' = browsers \cup {mine[h[1]]}
  /\ browser' = mine[h[1]]
  /\ Connected(h)
  /\ UNCHANGED <<database, calls, driver, drivers, mine, made, registry, history>>

\* async_playwright().start() raises.
StartFails(h) ==
  /\ hpc[h] = "starting"
  /\ Fail
  /\ drivers' = drivers \ {mine[h[1]]}
  /\ HGoto(h, "dropping")
  /\ UNCHANGED <<database, calls, browser, driver, browsers, mine, made, registry, performed,
                 faults, raced>>

\* The server does not answer, or another handler stopped the driver.
JoinFails(h) ==
  /\ hpc[h] = "joining"
  /\ \/ mine[h[1]] \notin drivers /\ UNCHANGED failures
     \/ mine[h[1]] \in drivers /\ Fail
  /\ HGoto(h, "dropping")
  /\ UNCHANGED <<database, calls, connector, registry, performed, faults, raced>>

\* Mutant: the driver is forgotten and goes on running.
StopNothing(h) ==
  /\ HGoto(h, IF driver = 0 THEN "error" ELSE "forgetting")
  /\ UNCHANGED drivers

\* close stops the driver the connector holds, whoever started it.
Stop(h) ==
  /\ drivers' = drivers \ {driver}
  /\ HGoto(h, IF driver = 0 THEN "error" ELSE "forgetting")

\* close closes the browser the connector holds, whoever connected it.
Drop(h) ==
  /\ hpc[h] = "dropping"
  /\ IF browser # 0
       THEN LoseBrowsers({browser}) /\ HGoto(h, "clearing") /\ UNCHANGED drivers
       ELSE LoseBrowsers({driver}) /\ Stop(h)
  /\ faults' = [s \in Call |->
       IF context'[s] # context[s] THEN faults[s] \cup {"collateral"} ELSE faults[s]]
  /\ UNCHANGED <<database, calls, browser, driver, mine, made, sessions, on, performed, raced,
                 failures>>

Clear(h) ==
  /\ hpc[h] = "clearing"
  /\ browser' = 0
  /\ LoseBrowsers({driver}) /\ Stop(h)
  /\ faults' = [s \in Call |->
       IF context'[s] # context[s] THEN faults[s] \cup {"collateral"} ELSE faults[s]]
  /\ UNCHANGED <<database, calls, driver, mine, made, sessions, on, performed, raced, failures>>

Forget(h) ==
  /\ hpc[h] = "forgetting"
  /\ driver' = 0
  /\ HGoto(h, "error")
  /\ UNCHANGED <<database, calls, browser, drivers, browsers, mine, made, registry, history>>

----------------------------------------------------------------------------
(* The handlers of the registry.                                           *)

\* A Playwright error, or a context that is gone: the handler answers 500.
Fails(h) ==
  /\ Fault({target[h[1]]}, "raised")
  /\ HGoto(h, "error")

\* Mutant: the session is registered before its context is there.
RegisterFirst(h) ==
  /\ hpc[h] = "context"
  /\ sessions' = sessions \cup {h[1]}
  /\ IF mine[h[1]] \in browsers
       THEN /\ context' = [context EXCEPT ![h[1]] = "open"]
            /\ on' = [on EXCEPT ![h[1]] = mine[h[1]]]
            /\ HGoto(h, "page")
       ELSE HGoto(h, "error") /\ UNCHANGED <<context, on>>
  /\ UNCHANGED <<database, calls, connector, history>>

NewContext(h) ==
  /\ hpc[h] = "context"
  /\ \/ /\ mine[h[1]] \in browsers
        /\ context' = [context EXCEPT ![h[1]] = "open"]
        /\ on' = [on EXCEPT ![h[1]] = mine[h[1]]]
        /\ HGoto(h, "page")
     \/ /\ mine[h[1]] \notin browsers
        /\ HGoto(h, "error")
        /\ UNCHANGED <<context, on>>
  /\ UNCHANGED <<database, calls, connector, sessions, history>>

\* new_page, after which the session is registered.
NewPage(h) ==
  /\ hpc[h] = "page"
  /\ \/ /\ context[h[1]] = "open"
        /\ sessions' = sessions \cup {h[1]}
        /\ HGoto(h, "snapshot")
        /\ UNCHANGED <<failures, faults>>
     \/ /\ context[h[1]] # "open"
        /\ HGoto(h, "error")
        /\ UNCHANGED <<sessions, failures, faults>>
     \/ Fails(h) /\ UNCHANGED sessions
  /\ UNCHANGED <<database, calls, connector, context, on, performed, raced>>

Get(h) ==
  /\ hpc[h] = "get"
  /\ HGoto(h, IF target[h[1]] \notin sessions THEN "error"
              ELSE IF h[2] = "perform" THEN "act" ELSE "close")
  /\ UNCHANGED <<database, calls, connector, registry, history>>

\* The action, and the check of where it led: a navigation is refused before it is
\* done, any action after it.
Act(h) ==
  /\ hpc[h] = "act"
  /\ \/ /\ context[target[h[1]]] = "open"
        /\ \/ performed' = performed \cup {h[1]} /\ HGoto(h, "snapshot")
           \/ performed' = performed \cup {h[1]} /\ HGoto(h, "denied")
           \/ HGoto(h, "denied") /\ UNCHANGED performed
     \/ /\ context[target[h[1]]] # "open"
        /\ HGoto(h, "error")
        /\ UNCHANGED performed
  /\ UNCHANGED <<database, calls, connector, registry, faults, raced, failures>>

\* snapshot looks the session up again and may find it closed.
Snapshot(h) ==
  /\ hpc[h] = "snapshot"
  /\ \/ /\ target[h[1]] \in sessions /\ context[target[h[1]]] = "open"
        /\ HGoto(h, "ok")
        /\ UNCHANGED <<failures, faults>>
     \/ /\ target[h[1]] \notin sessions \/ context[target[h[1]]] # "open"
        /\ HGoto(h, "error")
        /\ UNCHANGED <<failures, faults>>
     \/ Fails(h)
  /\ UNCHANGED <<database, calls, connector, registry, performed, raced>>

\* Mutant: close forgets the session and not its context.
ForgetSession(h) ==
  /\ hpc[h] = "close"
  /\ HGoto(h, "delete")
  /\ UNCHANGED <<database, calls, connector, registry, history>>

\* context.close: a context that is closed already stays so.  It can raise, as it does when
\* its browser is gone: the entry then stays in the registry.
CloseContext(h) ==
  /\ hpc[h] = "close"
  /\ \/ /\ context' = [context EXCEPT ![target[h[1]]] = "closed"]
        /\ HGoto(h, "delete")
        /\ UNCHANGED <<failures, faults>>
     \/ /\ on[target[h[1]]] \notin browsers
        /\ HGoto(h, "error")
        /\ UNCHANGED <<context, failures, faults>>
     \/ Fails(h) /\ UNCHANGED context
  /\ UNCHANGED <<database, calls, connector, sessions, on, performed, raced>>

\* The entry is removed after the await: the second of two closes finds none.
Delete(h) ==
  /\ hpc[h] = "delete"
  /\ sessions' = sessions \ {target[h[1]]}
  /\ HGoto(h, IF target[h[1]] \in sessions THEN "ok" ELSE "error")
  /\ UNCHANGED <<database, calls, connector, context, on, history>>

----------------------------------------------------------------------------
(* Restarts.                                                               *)

Alive == {s \in Call : context[s] = "open"}

\* The gateway stops: its handlers, sessions and drivers are gone.
GatewayRestarts ==
  /\ Fault(Alive \cup {target[c] : c \in {d \in Call : Waiting(d)}}, "restart")
  /\ hpc' = [h \in Handler |-> IF hpc[h] \in Reply \cup {"none"} THEN hpc[h] ELSE "lost"]
  /\ sessions' = {}
  /\ LoseBrowsers(browsers)
  /\ browser' = 0 /\ driver' = 0 /\ drivers' = {}
  /\ UNCHANGED <<database, calls, on, mine, made, performed, raced>>

\* The Playwright server drops a browser's connection.
BrowserLost(d) ==
  /\ d \in browsers
  /\ Fault({s \in Alive : on[s] = d}, "lost")
  /\ LoseBrowsers({d})
  /\ raced' = TRUE
  /\ UNCHANGED <<database, calls, hpc, browser, driver, drivers, mine, made, sessions, on,
                 performed>>

----------------------------------------------------------------------------
ApiStep(c) == Proceed(c) \/ Refused(c) \/ InsertRow(c) \/ Record(c) \/ MarkClosed(c)

HandlerStep(h) ==
  \/ Connect(h) \/ Started(h) \/ StartFails(h) \/ Join(h) \/ JoinFails(h) \/ Drop(h) \/ Clear(h)
  \/ Forget(h) \/ NewContext(h) \/ NewPage(h) \/ Get(h) \/ Act(h) \/ Snapshot(h)
  \/ CloseContext(h) \/ Delete(h)

Next ==
  \/ \E c \in Call : Create(c) \/ Probe(c) \/ \E s \in Call : Perform(c, s) \/ Close(c, s)
  \/ \E c \in Call : ApiStep(c) \/ TimeOut(c) \/ DatabaseFails(c) \/ ApiDies(c)
  \/ \E h \in Handler : HandlerStep(h)
  \/ GatewayRestarts \/ \E d \in browsers : BrowserLost(d)

Spec == Init /\ [][Next]_vars

----------------------------------------------------------------------------
(* Properties.                                                             *)

FaultKind == {"timeout", "database", "died", "raised", "restart", "lost", "collateral"}

TypeOK ==
  /\ row \in [Call -> {"none", "active", "closed"}]
  /\ recorded \subseteq Call /\ performed \subseteq Call
  /\ pc \in [Call -> Over \cup {"new", "create", "navigate", "perform", "close", "undo", "probe",
                                "insert", "record", "mark"}]
  /\ kind \in [Call -> {"none", "create", "act", "close", "probe"}]
  /\ target \in [Call -> Call \cup {None}]
  /\ hpc \in [Handler -> Reply \cup Connecting \cup
       {"none", "connect", "context", "page", "get", "act", "snapshot", "close", "delete"}]
  /\ sessions \subseteq {s \in Call : context[s] # "none"}
  /\ context \in [Call -> {"none", "open", "closed"}]
  /\ on \in [Call -> 0..MaxDrivers] /\ mine \in [Call -> 0..MaxDrivers]
  /\ browser \in 0..MaxDrivers /\ driver \in 0..MaxDrivers /\ made \in 0..MaxDrivers
  /\ drivers \subseteq 1..made /\ browsers \subseteq drivers
  /\ faults \in [Call -> SUBSET FaultKind]
  /\ raced \in BOOLEAN /\ failures \in Nat

InFlight(s) == {c \in Call : target[c] = s /\ pc[c] \notin Over}

\* A row that says active has a live session behind it or a close of it under way, unless
\* something went wrong with the session: an error of Playwright alone does no harm.
ActiveIsLive ==
  \A s \in Call : row[s] = "active" /\ faults[s] \subseteq {"raised"} =>
    \/ s \in sessions /\ context[s] = "open"
    \/ \E c \in InFlight(s) : kind[c] = "close"

\* A context that is open belongs to an active row or to a call that is at work on it,
\* unless a call timed out or died or Playwright failed: a refused start page, an error of
\* the database, a restart or a lost browser leaves no context behind.
NothingLeaks ==
  \A s \in Call : context[s] = "open" /\ faults[s] \cap {"timeout", "died", "raised"} = {} =>
    row[s] = "active" \/ InFlight(s) # {}

\* Whatever goes wrong, a session whose row says closed is dead, and no call acts on it.
ClosedIsDead ==
  \A s \in Call : row[s] = "closed" => context[s] = "closed" /\ s \notin sessions

\* What browser_actions lists was done; and what was done is listed when its call is
\* over, unless the gateway reported an error, or the call timed out, died or could not
\* write to the database.
AuditIsTrue ==
  \A c \in Call :
    /\ c \in recorded => c \in performed
    /\ /\ c \in performed /\ pc[c] \in Over /\ hpc[<<c, "perform">>] = "ok"
       /\ faults[target[c]] \cap {"timeout", "died", "database"} = {}
       => c \in recorded

\* No driver runs that the connector does not hold, but for one that is being started,
\* unless two connects overlapped or a browser was lost.
DriversAreHeld ==
  ~raced => \A d \in drivers \ {driver} : \E h \in Handler : hpc[h] = "starting" /\ mine[h[1]] = d
=============================================================================
