----------------------- MODULE BrowserSessionsProofs -----------------------
(***************************************************************************)
(* Proofs about BrowserSessions, for every number of calls, drivers and    *)
(* failures: a session whose row says closed is dead, and stays so.        *)
(***************************************************************************)
EXTENDS BrowserSessions, TLAPS

ApiPc == Over \cup {"new", "create", "navigate", "perform", "close", "undo", "probe",
                    "insert", "record", "mark"}
HandlerPc == Reply \cup Connecting \cup
  {"none", "connect", "context", "page", "get", "act", "snapshot", "close", "delete"}

Typed ==
  /\ row \in [Call -> {"none", "active", "closed"}]
  /\ pc \in [Call -> ApiPc]
  /\ target \in [Call -> Call \cup {None}]
  /\ hpc \in [Handler -> HandlerPc]
  /\ sessions \subseteq Call
  /\ context \in [Call -> {"none", "open", "closed"}]

\* The steps of an operation's handler.
Serves(op, step) ==
  /\ step \in {"connect"} \cup Connecting => op \in {"create", "probe"}
  /\ step \in {"context", "page"} => op = "create"
  /\ step = "get" => op \in {"perform", "close"}
  /\ step = "act" => op = "perform"
  /\ step = "snapshot" => op \in {"create", "perform"}
  /\ step \in {"close", "delete"} => op = "close"

\* A handler takes the steps of its operation, and a call that has not begun has none.
Stages ==
  \A h \in Handler :
    /\ Serves(h[2], hpc[h])
    /\ pc[h[1]] = "new" => hpc[h] = "none"

----------------------------------------------------------------------------
(* Steps of a handler and of a call.                                       *)

\* A handler is a pair of a call and an operation.
LEMMA HandlerFacts ==
  /\ \A h \in Handler : h[1] \in Call /\ h[2] \in Op /\ h = <<h[1], h[2]>>
  /\ \A c \in Call, op \in Op : <<c, op>> \in Handler /\ <<c, op>>[1] = c /\ <<c, op>>[2] = op
  BY DEF Handler

\* A handler that moves to a step of its operation keeps types and stages.
LEMMA HandlerMoves ==
  ASSUME Typed, Stages, NEW h \in Handler, NEW to \in HandlerPc, hpc[h] # "none",
         HGoto(h, to), pc' = pc, Serves(h[2], to)
  PROVE  hpc' \in [Handler -> HandlerPc] /\ Stages'
<1>1. \A g \in Handler : hpc'[g] = IF g = h THEN to ELSE hpc[g]
  BY DEF HGoto, Typed
<1> QED
  BY <1>1 DEF HGoto, Typed, Stages

\* Which steps serve which operations.
LEMMA StepsServe ==
  /\ \A op : \A to \in Reply : Serves(op, to) /\ to \in HandlerPc
  /\ \A op \in {"create", "probe"} : \A to \in {"connect"} \cup Connecting :
       Serves(op, to) /\ to \in HandlerPc
  /\ \A to \in {"context", "page", "snapshot"} : Serves("create", to) /\ to \in HandlerPc
  /\ \A to \in {"get", "act", "snapshot"} : Serves("perform", to) /\ to \in HandlerPc
  /\ \A to \in {"get", "close", "delete"} : Serves("close", to) /\ to \in HandlerPc
  BY DEF Serves, Reply, Connecting, HandlerPc

\* A call that goes on without a request keeps types and stages.
LEMMA CallGoes ==
  ASSUME Typed, Stages, NEW c \in Call, NEW to \in ApiPc \ {"new"}, Goto(c, to), hpc' = hpc
  PROVE  pc' \in [Call -> ApiPc] /\ Stages'
<1>1. \A d \in Call : pc'[d] = IF d = c THEN to ELSE pc[d]
  BY DEF Goto, Typed
<1> QED
  BY <1>1, HandlerFacts DEF Goto, Typed, Stages

\* A call that sends a request keeps types and stages.
LEMMA CallAsks ==
  ASSUME Typed, Stages, NEW c \in Call, NEW to \in ApiPc \ {"new"}, NEW op \in Op,
         Request(c, to, op)
  PROVE  pc' \in [Call -> ApiPc] /\ hpc' \in [Handler -> HandlerPc] /\ Stages'
<1>1. \A d \in Call : pc'[d] = IF d = c THEN to ELSE pc[d]
  BY DEF Request, Goto, Typed
<1>2. \A g \in Handler : hpc'[g] =
        IF g = <<c, op>> THEN IF op \in {"create", "probe"} THEN "connect" ELSE "get" ELSE hpc[g]
  BY DEF Request, Typed
<1>3. pc' \in [Call -> ApiPc] /\ hpc' \in [Handler -> HandlerPc]
  BY DEF Request, Goto, Typed, HandlerPc
<1>4. \A g \in Handler : g # <<c, op>> /\ pc'[g[1]] = "new" => pc[g[1]] = "new"
  BY <1>1, HandlerFacts
<1>5. Serves(op, IF op \in {"create", "probe"} THEN "connect" ELSE "get")
  BY StepsServe DEF Op
<1> QED
  BY <1>1, <1>2, <1>3, <1>4, <1>5, HandlerFacts DEF Stages

\* A call that raises an exception keeps types and stages.
LEMMA CallRaises ==
  ASSUME Typed, Stages, NEW c \in Call, Raise(c)
  PROVE  pc' \in [Call -> ApiPc] /\ hpc' \in [Handler -> HandlerPc] /\ Stages'
<1>1. CASE Request(c, "undo", "close")
  BY <1>1, CallAsks DEF ApiPc, Op
<1>2. CASE Goto(c, "failed") /\ hpc' = hpc
  BY <1>2, CallGoes DEF ApiPc, Over, Typed
<1> QED
  BY <1>1, <1>2 DEF Raise

\* Losing browsers changes no context that is not open.
LEMMA Lost ==
  ASSUME NEW D, Typed, LoseBrowsers(D)
  PROVE  /\ context' \in [Call -> {"none", "open", "closed"}]
         /\ \A s \in Call : context[s] # "open" => context'[s] = context[s]
  BY DEF LoseBrowsers, Typed

----------------------------------------------------------------------------
(* Types and stages.                                                       *)

\* Types and stages hold at the start.
LEMMA InitTyped == Init => Typed /\ Stages
  BY DEF Init, Typed, Stages, Serves, ApiPc, HandlerPc, Connecting

\* A call that begins.
LEMMA BeginTyped ==
  ASSUME Typed, Stages, NEW c \in Call, NEW what, NEW s \in Call \cup {None},
         NEW to \in ApiPc \ {"new"}, NEW op \in Op, Begin(c, what, s, to, op)
  PROVE  Typed' /\ Stages'
<1>1. /\ target' = [target EXCEPT ![c] = s] /\ Request(c, to, op)
      /\ UNCHANGED <<row, sessions, context>>
  BY DEF Begin, database, registry
<1>2. target' \in [Call -> Call \cup {None}]
  BY <1>1 DEF Typed
<1> QED
  BY <1>1, <1>2, CallAsks DEF Typed

\* A step of a call that has begun keeps types and stages.
LEMMA ApiTyped ==
  ASSUME Typed, Stages, NEW c \in Call,
         ApiStep(c) \/ TimeOut(c) \/ DatabaseFails(c) \/ ApiDies(c)
  PROVE  Typed' /\ Stages'
<1> DEFINE Went == pc' \in [Call -> ApiPc] /\ hpc' \in [Handler -> HandlerPc] /\ Stages'
<1>g. ASSUME NEW to \in ApiPc \ {"new"}, Goto(c, to), hpc' = hpc PROVE Went
  BY <1>g, CallGoes DEF Typed
<1>r. ASSUME Raise(c) PROVE Went
  BY <1>r, CallRaises
<1>p. {"insert", "record", "mark", "navigate"} \cup Over \subseteq ApiPc \ {"new"}
  BY DEF ApiPc, Over
<1>1. CASE Proceed(c)
  <2>1. \/ Request(c, "navigate", "perform")
        \/ \E to \in {"insert", "record", "mark", "failed", "done"} : Goto(c, to) /\ hpc' = hpc
    BY <1>1 DEF Proceed, Waiting
  <2>2. Went
    BY <2>1, <1>g, <1>p, CallAsks DEF Op, Over
  <2> QED
    BY <1>1, <2>2 DEF Proceed, Typed, database, registry
<1>2. CASE Refused(c)
  BY <1>2, <1>r DEF Refused, Typed, database, registry
<1>3. CASE InsertRow(c)
  <2>1. row' \in [Call -> {"none", "active", "closed"}]
    BY <1>3 DEF InsertRow, Typed
  <2>2. \E to \in {"record", "done"} : Goto(c, to) /\ hpc' = hpc
    BY <1>3 DEF InsertRow
  <2>3. Went
    BY <2>2, <1>g, <1>p DEF Over
  <2> QED
    BY <1>3, <2>1, <2>3 DEF InsertRow, Typed, registry
<1>4. CASE Record(c)
  <2>1. Went
    BY <1>4, <1>g, <1>p DEF Record, Over
  <2> QED
    BY <1>4, <2>1 DEF Record, Typed, registry
<1>5. CASE MarkClosed(c)
  <2>1. row' \in [Call -> {"none", "active", "closed"}]
    BY <1>5 DEF MarkClosed, Typed
  <2>2. Went
    BY <1>5, <1>g, <1>p DEF MarkClosed, Over
  <2> QED
    BY <1>5, <2>1, <2>2 DEF MarkClosed, Typed, registry
<1>6. CASE TimeOut(c)
  BY <1>6, <1>r DEF TimeOut, Typed, database, registry
<1>7. CASE DatabaseFails(c)
  <2>1. row' \in [Call -> {"none", "active", "closed"}]
    BY <1>7 DEF DatabaseFails, Typed
  <2> QED
    BY <1>7, <2>1, <1>r DEF DatabaseFails, Typed, registry
<1>8. CASE ApiDies(c)
  <2>1. Went
    BY <1>8, <1>g, <1>p DEF ApiDies, Over
  <2> QED
    BY <1>8, <2>1 DEF ApiDies, Typed, database, registry
<1> QED
  BY <1>1, <1>2, <1>3, <1>4, <1>5, <1>6, <1>7, <1>8 DEF ApiStep

\* Only a handler that has begun takes a step, and it leaves rows and calls alone.
LEMMA HandlerKeeps ==
  ASSUME NEW h \in Handler, HandlerStep(h)
  PROVE  hpc[h] # "none" /\ UNCHANGED <<row, pc, target>>
  BY DEF HandlerStep, Connect, Started, StartFails, Join, JoinFails, Drop, Clear, Forget,
         NewContext, NewPage, Get, Act, Snapshot, CloseContext, Delete, database, calls, Connecting

\* A step of a handler leads to a step of its operation.
LEMMA HandlerMoved ==
  ASSUME Typed, Stages, NEW h \in Handler, HandlerStep(h)
  PROVE  hpc' \in [Handler -> HandlerPc] /\ Stages'
<1>0. hpc[h] # "none" /\ UNCHANGED <<row, pc, target>>
  BY HandlerKeeps
<1>s. Serves(h[2], hpc[h])
  BY DEF Stages
<1>t. ASSUME NEW to \in HandlerPc, HGoto(h, to), Serves(h[2], to)
      PROVE  hpc' \in [Handler -> HandlerPc] /\ Stages'
  BY <1>0, <1>t, HandlerMoves
<1>r. ASSUME NEW to \in Reply, HGoto(h, to) PROVE hpc' \in [Handler -> HandlerPc] /\ Stages'
  BY <1>r, <1>t, StepsServe
<1>c. ASSUME NEW to \in Connecting, HGoto(h, to), hpc[h] \in {"connect"} \cup Connecting
      PROVE  hpc' \in [Handler -> HandlerPc] /\ Stages'
  <2>1. h[2] \in {"create", "probe"}
    BY <1>s, <1>c DEF Serves
  <2> QED
    BY <2>1, <1>c, <1>t, StepsServe
<1>1. CASE Connect(h) \/ Join(h)
  <2>1. hpc[h] \in {"connect"} \cup Connecting
    BY <1>1 DEF Connect, Join, Connecting
  <2>2. \/ h[2] = "create" /\ HGoto(h, "context")
        \/ HGoto(h, "ok") \/ HGoto(h, "starting")
    BY <1>1 DEF Connect, Join, Connected
  <2>3. CASE h[2] = "create" /\ HGoto(h, "context")
    BY <2>3, <1>t, StepsServe
  <2>4. CASE HGoto(h, "ok")
    BY <2>4, <1>r DEF Reply
  <2>5. CASE HGoto(h, "starting")
    BY <2>1, <2>5, <1>c DEF Connecting
  <2> QED
    BY <2>2, <2>3, <2>4, <2>5
<1>2. CASE Started(h) \/ StartFails(h) \/ JoinFails(h) \/ Drop(h) \/ Clear(h) \/ Forget(h)
  <2>1. hpc[h] \in Connecting
    BY <1>2 DEF Started, StartFails, JoinFails, Drop, Clear, Forget, Connecting
  <2>2. \/ HGoto(h, "joining") \/ HGoto(h, "dropping") \/ HGoto(h, "clearing")
        \/ HGoto(h, "forgetting") \/ HGoto(h, "error")
    BY <1>2 DEF Started, StartFails, JoinFails, Drop, Clear, Forget, Stop
  <2>3. CASE HGoto(h, "error")
    BY <2>3, <1>r DEF Reply
  <2>4. CASE ~HGoto(h, "error")
    BY <2>1, <2>2, <2>4, <1>c DEF Connecting
  <2> QED
    BY <2>3, <2>4
<1>3. CASE NewContext(h) \/ NewPage(h)
  <2>1. h[2] = "create"
    BY <1>3, <1>s DEF NewContext, NewPage, Serves
  <2>2. HGoto(h, "page") \/ HGoto(h, "snapshot") \/ HGoto(h, "error")
    BY <1>3 DEF NewContext, NewPage, Fails
  <2>3. CASE HGoto(h, "page")
    BY <2>1, <2>3, <1>t, StepsServe
  <2>4. CASE HGoto(h, "snapshot")
    BY <2>1, <2>4, <1>t, StepsServe
  <2>5. CASE HGoto(h, "error")
    BY <2>5, <1>r DEF Reply
  <2> QED
    BY <2>2, <2>3, <2>4, <2>5
<1>4. CASE Get(h)
  <2>1. h[2] \in {"perform", "close"}
    BY <1>4, <1>s DEF Get, Serves
  <2>2. \/ HGoto(h, "error")
        \/ h[2] = "perform" /\ HGoto(h, "act")
        \/ h[2] = "close" /\ HGoto(h, "close")
    BY <1>4, <2>1 DEF Get
  <2>3. CASE HGoto(h, "error")
    BY <2>3, <1>r DEF Reply
  <2>4. CASE h[2] = "perform" /\ HGoto(h, "act")
    BY <2>4, <1>t, StepsServe
  <2>5. CASE h[2] = "close" /\ HGoto(h, "close")
    BY <2>5, <1>t, StepsServe
  <2> QED
    BY <2>2, <2>3, <2>4, <2>5
<1>5. CASE Act(h)
  <2>1. h[2] = "perform"
    BY <1>5, <1>s DEF Act, Serves
  <2>2. HGoto(h, "snapshot") \/ HGoto(h, "denied") \/ HGoto(h, "error")
    BY <1>5 DEF Act
  <2>3. CASE HGoto(h, "snapshot")
    BY <2>1, <2>3, <1>t, StepsServe
  <2>4. CASE HGoto(h, "denied") \/ HGoto(h, "error")
    BY <2>4, <1>r DEF Reply
  <2> QED
    BY <2>2, <2>3, <2>4
<1>6. CASE Snapshot(h)
  <2>1. HGoto(h, "ok") \/ HGoto(h, "error")
    BY <1>6 DEF Snapshot, Fails
  <2> QED
    BY <2>1, <1>r DEF Reply
<1>7. CASE CloseContext(h)
  <2>1. h[2] = "close" /\ (HGoto(h, "delete") \/ HGoto(h, "error"))
    BY <1>7, <1>s DEF CloseContext, Serves, Fails
  <2>2. CASE HGoto(h, "delete")
    BY <2>1, <2>2, <1>t, StepsServe
  <2>3. CASE HGoto(h, "error")
    BY <2>3, <1>r DEF Reply
  <2> QED
    BY <2>1, <2>2, <2>3
<1>8. CASE Delete(h)
  <2>1. HGoto(h, "ok") \/ HGoto(h, "error")
    BY <1>8 DEF Delete
  <2> QED
    BY <2>1, <1>r DEF Reply
<1> QED
  BY <1>0, <1>1, <1>2, <1>3, <1>4, <1>5, <1>6, <1>7, <1>8 DEF HandlerStep

\* A step of a handler keeps types and stages.
LEMMA HandlerTyped ==
  ASSUME Typed, Stages, NEW h \in Handler, HandlerStep(h)
  PROVE  Typed' /\ Stages'
<1> DEFINE Kept == sessions' = sessions /\ context' = context
<1> DEFINE Fine == sessions' \subseteq Call /\ context' \in [Call -> {"none", "open", "closed"}]
<1>h. h[1] \in Call
  BY HandlerFacts
<1>1. CASE Connect(h) \/ Started(h) \/ StartFails(h) \/ Join(h) \/ JoinFails(h) \/ Forget(h)
           \/ Get(h) \/ Act(h) \/ Snapshot(h)
  <2>1. Kept
    BY <1>1 DEF Connect, Started, StartFails, Join, JoinFails, Forget, Get, Act, Snapshot, registry
  <2> QED
    BY <2>1, HandlerKeeps, HandlerMoved DEF Typed
<1>2. CASE Drop(h) \/ Clear(h)
  <2>1. sessions' = sessions /\ \E D : LoseBrowsers(D)
    BY <1>2 DEF Drop, Clear
  <2>2. Fine
    BY <2>1, Lost DEF Typed
  <2> QED
    BY <2>2, HandlerKeeps, HandlerMoved DEF Typed
<1>3. CASE NewContext(h)
  <2>1. Fine
    BY <1>3, <1>h DEF NewContext, Typed
  <2> QED
    BY <2>1, HandlerKeeps, HandlerMoved DEF Typed
<1>4. CASE NewPage(h)
  <2>1. Fine
    BY <1>4, <1>h DEF NewPage, Typed
  <2> QED
    BY <2>1, HandlerKeeps, HandlerMoved DEF Typed
<1>5. CASE CloseContext(h)
  <2>1. Fine
    BY <1>5 DEF CloseContext, Typed
  <2> QED
    BY <2>1, HandlerKeeps, HandlerMoved DEF Typed
<1>6. CASE Delete(h)
  <2>1. Fine
    BY <1>6 DEF Delete, Typed
  <2> QED
    BY <2>1, HandlerKeeps, HandlerMoved DEF Typed
<1> QED
  BY <1>1, <1>2, <1>3, <1>4, <1>5, <1>6 DEF HandlerStep

\* A restart of the gateway keeps types and stages.
LEMMA RestartTyped ==
  ASSUME Typed, Stages, GatewayRestarts
  PROVE  Typed' /\ Stages'
<1>1. \A h \in Handler : hpc'[h] \in {hpc[h], "lost"} /\ (hpc[h] = "none" => hpc'[h] = "none")
  BY DEF GatewayRestarts, Typed
<1>2. hpc' \in [Handler -> HandlerPc]
  BY DEF GatewayRestarts, Typed, HandlerPc, Reply
<1>3. Stages'
  BY <1>1, StepsServe DEF GatewayRestarts, Stages, calls, Reply
<1>4. context' \in [Call -> {"none", "open", "closed"}]
  BY Lost DEF GatewayRestarts
<1> QED
  BY <1>2, <1>3, <1>4 DEF GatewayRestarts, Typed, database, calls

\* The loss of a browser keeps types and stages.
LEMMA BrowserLostTyped ==
  ASSUME Typed, Stages, NEW d, BrowserLost(d)
  PROVE  Typed' /\ Stages'
<1>1. context' \in [Call -> {"none", "open", "closed"}]
  BY Lost DEF BrowserLost
<1> QED
  BY <1>1 DEF BrowserLost, Typed, Stages, database, calls

\* Every step keeps types and stages.
LEMMA NextTyped == Typed /\ Stages /\ [Next]_vars => Typed' /\ Stages'
<1> SUFFICES ASSUME Typed, Stages, [Next]_vars
             PROVE  Typed' /\ Stages'
  OBVIOUS
<1>p. {"create", "perform", "close", "probe"} \subseteq (ApiPc \ {"new"}) \cap Op
  BY DEF ApiPc, Op, Over
<1>1. ASSUME NEW c \in Call,
             Create(c) \/ Probe(c) \/ \E s \in Call : Perform(c, s) \/ Close(c, s)
      PROVE  Typed' /\ Stages'
  BY <1>1, <1>p, BeginTyped DEF Create, Probe, Perform, Close
<1>2. ASSUME NEW c \in Call, ApiStep(c) \/ TimeOut(c) \/ DatabaseFails(c) \/ ApiDies(c)
      PROVE  Typed' /\ Stages'
  BY <1>2, ApiTyped
<1>3. ASSUME NEW h \in Handler, HandlerStep(h) PROVE Typed' /\ Stages'
  BY <1>3, HandlerTyped
<1>4. CASE GatewayRestarts
  BY <1>4, RestartTyped
<1>5. ASSUME NEW d \in browsers, BrowserLost(d) PROVE Typed' /\ Stages'
  BY <1>5, BrowserLostTyped
<1>6. CASE UNCHANGED vars
  BY <1>6 DEF vars, database, calls, registry, Typed, Stages
<1> QED
  BY <1>1, <1>2, <1>3, <1>4, <1>5, <1>6 DEF Next

----------------------------------------------------------------------------
(* A closed session is dead.                                               *)

\* The create handler of session s has registered it, or given up.
Past(s) == hpc[<<s, "create">>] \in {"snapshot"} \cup Reply

Dead(s) == context[s] = "closed" /\ s \notin sessions

\* From the lookup of a session to the closed row, each step of a close has made the
\* session a little more dead; and no create handler is left that could revive it.
Closing ==
  /\ \A s \in sessions : Past(s)
  /\ \A c \in Call : hpc[<<c, "close">>] \in {"close", "delete", "ok"} =>
       target[c] \in Call /\ Past(target[c])
  /\ \A c \in Call : hpc[<<c, "close">>] = "delete" => context[target[c]] = "closed"
  /\ \A c \in Call : hpc[<<c, "close">>] = "ok" => Dead(target[c])
  /\ \A c \in Call : pc[c] = "mark" => target[c] \in Call /\ Past(target[c]) /\ Dead(target[c])
  /\ \A s \in Call : row[s] = "closed" => Past(s) /\ Dead(s)

\* What a step does that neither closes a session nor revives a closed one.
Harmless ==
  /\ \A s \in Call : Past(s) =>
       /\ Past(s)'
       /\ context[s] = "closed" => context'[s] = "closed"
       /\ s \in sessions' => s \in sessions
  /\ \A s \in sessions' : Past(s)'

\* A call whose close handler is at work knows as much after the step as the handler
\* claims: because it stood there before, or because the step made it true.
Known(c) ==
  hpc'[<<c, "close">>] \in {"close", "delete", "ok"} =>
    /\ target'[c] = target[c]
    /\ \/ hpc[<<c, "close">>] = hpc'[<<c, "close">>]
       \/ /\ target[c] \in Call /\ Past(target[c])
          /\ hpc'[<<c, "close">>] = "delete" => context'[target[c]] = "closed"
          /\ hpc'[<<c, "close">>] = "ok" =>
               context'[target[c]] = "closed" /\ target[c] \notin sessions'

\* Rows and calls: only the reply to a close leads to the mark, and only the mark to a
\* closed row.
Marked ==
  /\ \A c \in Call : pc'[c] = "mark" =>
       target'[c] = target[c] /\ (pc[c] = "mark" \/ hpc[<<c, "close">>] = "ok")
  /\ \A s \in Call : row'[s] = "closed" =>
       row[s] = "closed" \/ \E c \in Call : pc[c] = "mark" /\ target[c] = s

\* A harmless step after which the close handlers know what they claim keeps Closing.
LEMMA HarmlessKeeps ==
  ASSUME Closing, Harmless, Marked, \A c \in Call : Known(c)
  PROVE  Closing'
<1> USE DEF Past, Dead
<1>1. \A s \in Call : Past(s) /\ Dead(s) => Past(s)' /\ Dead(s)'
  BY DEF Harmless
<1>2. \A s \in sessions' : Past(s)'
  BY DEF Harmless
<1>3. ASSUME NEW c \in Call, hpc'[<<c, "close">>] \in {"close", "delete", "ok"}
      PROVE  /\ target'[c] \in Call /\ hpc'[<<target'[c], "create">>] \in {"snapshot"} \cup Reply
             /\ hpc'[<<c, "close">>] = "delete" => context'[target'[c]] = "closed"
             /\ hpc'[<<c, "close">>] = "ok" =>
                  context'[target'[c]] = "closed" /\ target'[c] \notin sessions'
  <2>1. target'[c] = target[c]
    BY <1>3 DEF Known
  <2>2. target[c] \in Call /\ Past(target[c])
    BY <1>3 DEF Known, Closing
  <2>3. hpc[<<c, "close">>] = hpc'[<<c, "close">>] =>
          /\ hpc'[<<c, "close">>] = "delete" => context[target[c]] = "closed"
          /\ hpc'[<<c, "close">>] = "ok" => Dead(target[c])
    BY DEF Closing
  <2>4. /\ hpc'[<<c, "close">>] = "delete" => context'[target[c]] = "closed"
        /\ hpc'[<<c, "close">>] = "ok" =>
             context'[target[c]] = "closed" /\ target[c] \notin sessions'
    BY <1>3, <2>2, <2>3 DEF Known, Harmless
  <2> QED
    BY <2>1, <2>2, <2>4 DEF Harmless
<1>4. ASSUME NEW c \in Call, pc'[c] = "mark"
      PROVE  /\ target'[c] \in Call /\ hpc'[<<target'[c], "create">>] \in {"snapshot"} \cup Reply
             /\ context'[target'[c]] = "closed" /\ target'[c] \notin sessions'
  <2>1. target'[c] = target[c] /\ (pc[c] = "mark" \/ hpc[<<c, "close">>] = "ok")
    BY <1>4 DEF Marked
  <2>2. target[c] \in Call /\ Past(target[c]) /\ Dead(target[c])
    BY <2>1 DEF Closing
  <2> QED
    BY <1>1, <2>1, <2>2
<1>5. \A s \in Call : row'[s] = "closed" => Past(s)' /\ Dead(s)'
  <2>1. \A s \in Call : row'[s] = "closed" => Past(s) /\ Dead(s)
    BY DEF Marked, Closing
  <2> QED
    BY <1>1, <2>1
<1> QED
  BY <1>2, <1>3, <1>4, <1>5 DEF Closing

----------------------------------------------------------------------------
(* Every step is harmless, and what it does to a close is known.           *)

\* A request of a call moves one handler, to a first step.
LEMMA RequestKnown ==
  ASSUME Typed, Closing, NEW c \in Call, NEW op \in Op, NEW to, Request(c, to, op),
         op = "create" => hpc[<<c, "create">>] = "none",
         UNCHANGED <<sessions, context>>
  PROVE  /\ Harmless
         /\ \A d \in Call : hpc'[<<d, "close">>] \in {"close", "delete", "ok"} =>
              hpc'[<<d, "close">>] = hpc[<<d, "close">>] /\ (op = "close" => d # c)
<1>1. \A g \in Handler : hpc'[g] =
        IF g = <<c, op>> THEN IF op \in {"create", "probe"} THEN "connect" ELSE "get" ELSE hpc[g]
  BY DEF Request, Typed
<1>2. \A s \in Call : Past(s) => Past(s)'
  <2>1. \A s \in Call : <<s, "create">> \in Handler
    BY DEF Handler, Op
  <2>2. \A s \in Call : Past(s) => hpc'[<<s, "create">>] = hpc[<<s, "create">>]
    BY <1>1, <2>1 DEF Past, Reply
  <2> QED
    BY <2>2 DEF Past
<1>3. Harmless
  BY <1>2 DEF Harmless, Closing, Typed
<1>4. \A d \in Call : hpc'[<<d, "close">>] \in {"close", "delete", "ok"} =>
        hpc'[<<d, "close">>] = hpc[<<d, "close">>] /\ (op = "close" => d # c)
  <2>1. \A d \in Call : <<d, "close">> \in Handler
    BY DEF Handler, Op
  <2> QED
    BY <1>1, <2>1
<1> QED
  BY <1>3, <1>4

\* A step that moves no handler and leaves sessions alone is harmless.
LEMMA UnmovedHarmless ==
  ASSUME Closing, UNCHANGED <<hpc, sessions, context>>
  PROVE  Harmless
  BY DEF Harmless, Closing, Past

\* A call that begins keeps Closing.
LEMMA BeginClosing ==
  ASSUME Typed, Stages, Closing, NEW c \in Call, NEW what, NEW s,
         NEW to \in {"create", "perform", "close", "probe"}, Begin(c, what, s, to, to)
  PROVE  Closing'
<1>1. \A op \in Op : hpc[<<c, op>>] = "none"
  BY HandlerFacts DEF Begin, Stages
<1>2. /\ pc[c] = "new" /\ target' = [target EXCEPT ![c] = s] /\ Request(c, to, to)
      /\ UNCHANGED <<row, sessions, context>>
  BY DEF Begin, database, registry
<1>3. to \in Op
  BY DEF Op
<1>4. /\ Harmless
      /\ \A d \in Call : hpc'[<<d, "close">>] \in {"close", "delete", "ok"} =>
           hpc'[<<d, "close">>] = hpc[<<d, "close">>]
  BY <1>1, <1>2, <1>3, RequestKnown DEF Op
<1>5. \A d \in Call : hpc'[<<d, "close">>] \in {"close", "delete", "ok"} => d # c
  BY <1>1, <1>4 DEF Op
<1>6. \A d \in Call : d # c => target'[d] = target[d]
  BY <1>2 DEF Typed
<1>7. \A d \in Call : pc'[d] = "mark" => d # c /\ pc[d] = "mark"
  BY <1>2 DEF Request, Goto, Typed
<1>8. Marked
  BY <1>2, <1>6, <1>7 DEF Marked
<1>9. \A d \in Call : Known(d)
  BY <1>4, <1>5, <1>6 DEF Known
<1> QED
  BY <1>4, <1>8, <1>9, HarmlessKeeps

\* A call that raises an exception.
LEMMA RaiseClosing ==
  ASSUME Typed, Closing, NEW c \in Call, Raise(c), UNCHANGED <<target, sessions, context>>,
         \A s \in Call : row'[s] = "closed" => row[s] = "closed"
  PROVE  Closing'
<1>1. CASE Request(c, "undo", "close")
  <2>1. /\ Harmless
        /\ \A d \in Call : hpc'[<<d, "close">>] \in {"close", "delete", "ok"} =>
             hpc'[<<d, "close">>] = hpc[<<d, "close">>]
    BY <1>1, RequestKnown DEF Op
  <2>2. \A d \in Call : pc'[d] = "mark" => pc[d] = "mark"
    BY <1>1 DEF Request, Goto, Typed
  <2> QED
    BY <2>1, <2>2, HarmlessKeeps DEF Marked, Known
<1>2. CASE Goto(c, "failed") /\ hpc' = hpc
  <2>1. \A d \in Call : pc'[d] = "mark" => pc[d] = "mark"
    BY <1>2 DEF Goto, Typed
  <2> QED
    BY <1>2, <2>1, UnmovedHarmless, HarmlessKeeps DEF Marked, Known
<1> QED
  BY <1>1, <1>2 DEF Raise

\* A step of a call that has begun keeps Closing: the mark follows the gateway's reply.
LEMMA ApiClosing ==
  ASSUME Typed, Closing, NEW c \in Call,
         ApiStep(c) \/ TimeOut(c) \/ DatabaseFails(c) \/ ApiDies(c)
  PROVE  Closing'
<1> DEFINE Quiet == UNCHANGED <<target, sessions, context>>
<1>u. ASSUME Quiet, hpc' = hpc, Marked PROVE Closing'
  BY <1>u, UnmovedHarmless, HarmlessKeeps DEF Known
<1>g. ASSUME NEW to, Goto(c, to), to # "mark" PROVE \A d \in Call : pc'[d] = "mark" => pc[d] = "mark"
  BY <1>g DEF Goto, Typed
<1>1. CASE Proceed(c)
  <2>1. Quiet /\ row' = row
    BY <1>1 DEF Proceed, database, registry
  <2>2. CASE Request(c, "navigate", "perform")
    <3>1. /\ Harmless
          /\ \A d \in Call : hpc'[<<d, "close">>] \in {"close", "delete", "ok"} =>
               hpc'[<<d, "close">>] = hpc[<<d, "close">>]
      BY <2>1, <2>2, RequestKnown DEF Op
    <3>2. \A d \in Call : pc'[d] = "mark" => pc[d] = "mark"
      BY <2>2, <1>g DEF Request
    <3> QED
      BY <2>1, <3>1, <3>2, HarmlessKeeps DEF Marked, Known
  <2>3. CASE pc[c] = "close" /\ Goto(c, "mark") /\ hpc' = hpc
    <3>1. hpc[<<c, "close">>] = "ok"
      BY <1>1, <2>3 DEF Proceed, Awaits
    <3>2. \A d \in Call : pc'[d] = "mark" => pc[d] = "mark" \/ d = c
      BY <2>3 DEF Goto, Typed
    <3>3. Marked
      BY <2>1, <3>1, <3>2 DEF Marked
    <3> QED
      BY <2>1, <2>3, <3>3, <1>u
  <2>4. CASE \E to \in {"insert", "record", "failed", "done"} : Goto(c, to) /\ hpc' = hpc
    <3>1. \A d \in Call : pc'[d] = "mark" => pc[d] = "mark"
      BY <2>4, <1>g
    <3> QED
      BY <2>1, <2>4, <3>1, <1>u DEF Marked
  <2> QED
    BY <1>1, <2>2, <2>3, <2>4 DEF Proceed, Waiting
<1>2. CASE Refused(c)
  BY <1>2, RaiseClosing DEF Refused, database, registry
<1>3. CASE InsertRow(c)
  <2>1. \A d \in Call : pc'[d] = "mark" => pc[d] = "mark"
    BY <1>3, <1>g DEF InsertRow
  <2>2. \A s \in Call : row'[s] = "closed" => row[s] = "closed"
    BY <1>3 DEF InsertRow, Typed
  <2> QED
    BY <1>3, <2>1, <2>2, <1>u DEF InsertRow, Marked, registry
<1>4. CASE Record(c)
  <2>1. \A d \in Call : pc'[d] = "mark" => pc[d] = "mark"
    BY <1>4, <1>g DEF Record
  <2> QED
    BY <1>4, <2>1, <1>u DEF Record, Marked, registry
<1>5. CASE MarkClosed(c)
  <2>1. \A d \in Call : pc'[d] = "mark" => pc[d] = "mark"
    BY <1>5, <1>g DEF MarkClosed
  <2>2. \A s \in Call : row'[s] = "closed" => row[s] = "closed" \/ target[c] = s
    BY <1>5 DEF MarkClosed, Typed
  <2> QED
    BY <1>5, <2>1, <2>2, <1>u DEF MarkClosed, Marked, registry
<1>6. CASE TimeOut(c)
  BY <1>6, RaiseClosing DEF TimeOut, database, registry
<1>7. CASE DatabaseFails(c)
  <2>1. \A s \in Call : row'[s] = "closed" => row[s] = "closed"
    BY <1>7 DEF DatabaseFails, Typed
  <2> QED
    BY <1>7, <2>1, RaiseClosing DEF DatabaseFails, registry
<1>8. CASE ApiDies(c)
  <2>1. \A d \in Call : pc'[d] = "mark" => pc[d] = "mark"
    BY <1>8, <1>g DEF ApiDies
  <2> QED
    BY <1>8, <2>1, <1>u DEF ApiDies, Marked, database, registry
<1> QED
  BY <1>1, <1>2, <1>3, <1>4, <1>5, <1>6, <1>7, <1>8 DEF ApiStep

\* The move of one handler.  A create handler that is not past its session's
\* registration may do anything to it: nobody knows of the session.
LEMMA MoveKnown ==
  ASSUME Typed, Stages, Closing, NEW h \in Handler, NEW to, HGoto(h, to),
         UNCHANGED <<row, pc, target>>,
         Past(h[1]) /\ h[2] = "create" => to \in Reply,
         h[2] = "create" \/ to \in {"error", "lost"} \/ h[2] # "close",
         \A s \in Call : Past(s) /\ context[s] = "closed" => context'[s] = "closed",
         \A s \in sessions' : s \in sessions \/ (<<s, "create">> = h /\ ~Past(s) /\ to = "snapshot")
  PROVE  Closing'
<1>1. \A g \in Handler : hpc'[g] = IF g = h THEN to ELSE hpc[g]
  BY DEF HGoto, Typed
<1>2. \A s \in Call : Past(s) => Past(s)'
  <2>1. \A s \in Call : <<s, "create">> \in Handler
    BY DEF Handler, Op
  <2>2. \A s \in Call : Past(s) => hpc'[<<s, "create">>] \in {hpc[<<s, "create">>]} \cup Reply
    BY <1>1, <2>1
  <2> QED
    BY <2>2 DEF Past
<1>3. \A s \in sessions' : Past(s)'
  <2>1. \A s \in sessions' : s \in sessions => s \in Call /\ Past(s)
    BY DEF Closing, Typed
  <2> QED
    BY <1>1, <1>2, <2>1 DEF Past
<1>4. Harmless
  BY <1>2, <1>3 DEF Harmless
<1>5. \A c \in Call : hpc'[<<c, "close">>] \in {"close", "delete", "ok"} =>
        hpc'[<<c, "close">>] = hpc[<<c, "close">>]
  <2>1. \A c \in Call : <<c, "close">> \in Handler
    BY DEF Handler, Op
  <2> QED
    BY <1>1, <2>1
<1> QED
  BY <1>4, <1>5, HarmlessKeeps DEF Marked, Known

\* The move of a close handler, which knows what it claims.
LEMMA CloseKnown ==
  ASSUME Typed, Closing, NEW c \in Call, NEW to, HGoto(<<c, "close">>, to),
         UNCHANGED <<row, pc, target>>, sessions' \subseteq sessions,
         \A s \in Call : context[s] = "closed" => context'[s] = "closed",
         to \in {"close", "delete", "ok"} => target[c] \in Call /\ Past(target[c]),
         to = "delete" => context'[target[c]] = "closed",
         to = "ok" => context'[target[c]] = "closed" /\ target[c] \notin sessions'
  PROVE  Closing'
<1>1. \A g \in Handler : hpc'[g] = IF g = <<c, "close">> THEN to ELSE hpc[g]
  BY DEF HGoto, Typed
<1>2. \A s \in Call : Past(s)' = Past(s)
  <2>1. \A s \in Call : <<s, "create">> \in Handler
    BY DEF Handler, Op
  <2> QED
    BY <1>1, <2>1 DEF Past
<1>3. Harmless
  BY <1>2 DEF Harmless, Closing, Typed
<1>4. \A d \in Call : hpc'[<<d, "close">>] = IF d = c THEN to ELSE hpc[<<d, "close">>]
  <2>1. \A d \in Call : <<d, "close">> \in Handler
    BY DEF Handler, Op
  <2> QED
    BY <1>1, <2>1
<1>5. \A d \in Call : Known(d)
  BY <1>4 DEF Known
<1> QED
  BY <1>3, <1>5, HarmlessKeeps DEF Marked

\* A step of the connector keeps Closing: it revives no context.
LEMMA ConnectorClosing ==
  ASSUME Typed, Stages, Closing, NEW h \in Handler,
         \/ Connect(h) \/ Started(h) \/ StartFails(h) \/ Join(h) \/ JoinFails(h) \/ Drop(h)
         \/ Clear(h) \/ Forget(h)
  PROVE  Closing'
<1>1. hpc[h] \in {"connect"} \cup Connecting /\ UNCHANGED <<row, pc, target, sessions>>
  BY DEF Connect, Started, StartFails, Join, JoinFails, Drop, Clear, Forget, Connecting, database,
         calls, registry
<1>2. h[2] # "close"
  BY <1>1 DEF Stages, Serves
<1>3. h[2] = "create" => ~Past(h[1])
  BY <1>1, HandlerFacts DEF Past, Connecting, Reply
<1>4. \A s \in Call : context[s] = "closed" => context'[s] = "closed"
  <2>1. context' = context \/ \E D : LoseBrowsers(D)
    BY DEF Connect, Started, StartFails, Join, JoinFails, Drop, Clear, Forget, registry
  <2> QED
    BY <2>1, Lost
<1>5. \E to : HGoto(h, to)
  BY DEF Connect, Connected, Started, StartFails, Join, JoinFails, Drop, Clear, Forget, Stop
<1> QED
  BY <1>1, <1>2, <1>3, <1>4, <1>5, MoveKnown

\* A step of a handler keeps Closing: each step of a close makes true what it claims.
LEMMA HandlerClosing ==
  ASSUME Typed, Stages, Closing, NEW h \in Handler, HandlerStep(h)
  PROVE  Closing'
<1>0. h[1] \in Call /\ h = <<h[1], h[2]>> /\ Serves(h[2], hpc[h])
  BY HandlerFacts DEF Stages
<1>u. UNCHANGED <<row, pc, target>>
  BY HandlerKeeps
<1>1. CASE \/ Connect(h) \/ Started(h) \/ StartFails(h) \/ Join(h) \/ JoinFails(h) \/ Drop(h)
           \/ Clear(h) \/ Forget(h)
  BY <1>1, ConnectorClosing
<1>2. CASE NewContext(h)
  <2>1. h[2] = "create" /\ ~Past(h[1])
    BY <1>0, <1>2 DEF NewContext, Serves, Past, Reply
  <2>2. \A s \in Call : Past(s) /\ context[s] = "closed" => context'[s] = "closed"
    BY <1>2, <2>1 DEF NewContext, Typed
  <2>3. sessions' = sessions /\ \E to : HGoto(h, to)
    BY <1>2 DEF NewContext
  <2> QED
    BY <1>u, <2>1, <2>2, <2>3, MoveKnown
<1>3. CASE NewPage(h)
  <2>1. h[2] = "create" /\ ~Past(h[1])
    BY <1>0, <1>3 DEF NewPage, Serves, Past, Reply
  <2>2. context' = context
    BY <1>3 DEF NewPage
  <2>3. \/ HGoto(h, "snapshot") /\ sessions' = sessions \cup {h[1]}
        \/ HGoto(h, "error") /\ sessions' = sessions
    BY <1>3 DEF NewPage, Fails
  <2>4. CASE HGoto(h, "snapshot") /\ sessions' = sessions \cup {h[1]}
    <3>1. \A s \in sessions' : s \in sessions \/ (<<s, "create">> = h /\ ~Past(s))
      BY <1>0, <2>1, <2>4
    <3> QED
      BY <1>u, <2>1, <2>2, <2>4, <3>1, MoveKnown
  <2>5. CASE HGoto(h, "error") /\ sessions' = sessions
    BY <1>u, <2>1, <2>2, <2>5, MoveKnown
  <2> QED
    BY <2>3, <2>4, <2>5
<1>4. CASE Act(h)
  <2>1. h[2] = "perform" /\ UNCHANGED <<sessions, context>> /\ \E to : HGoto(h, to)
    BY <1>0, <1>4 DEF Act, Serves, registry
  <2> QED
    BY <1>u, <2>1, MoveKnown
<1>5. CASE Snapshot(h)
  <2>1. h[2] \in {"create", "perform"} /\ UNCHANGED <<sessions, context>>
    BY <1>0, <1>5 DEF Snapshot, Serves, registry
  <2>2. \E to \in Reply : HGoto(h, to)
    BY <1>5 DEF Snapshot, Fails, Reply
  <2> QED
    BY <1>u, <2>1, <2>2, MoveKnown
<1>6. CASE Get(h)
  <2>1. h[2] \in {"perform", "close"} /\ UNCHANGED <<sessions, context>>
    BY <1>0, <1>6 DEF Get, Serves, registry
  <2>2. CASE h[2] = "perform"
    <3>1. \E to : HGoto(h, to)
      BY <1>6 DEF Get
    <3> QED
      BY <1>u, <2>1, <2>2, <3>1, MoveKnown
  <2>3. CASE h[2] = "close"
    <3>1. HGoto(h, "error") \/ (target[h[1]] \in sessions /\ HGoto(h, "close"))
      <4>1. HGoto(h, IF target[h[1]] \notin sessions THEN "error"
                     ELSE IF h[2] = "perform" THEN "act" ELSE "close")
        BY <1>6 DEF Get
      <4>2. h[2] # "perform"
        BY <2>3
      <4>3. CASE target[h[1]] \in sessions
        BY <4>1, <4>2, <4>3 DEF HGoto
      <4>4. CASE target[h[1]] \notin sessions
        BY <4>1, <4>4 DEF HGoto
      <4> QED
        BY <4>3, <4>4
    <3>2. target[h[1]] \in sessions => target[h[1]] \in Call /\ Past(target[h[1]])
      BY DEF Closing, Typed
    <3>3. CASE HGoto(h, "error")
      BY <1>0, <1>u, <2>1, <2>3, <3>3, CloseKnown
    <3>4. CASE target[h[1]] \in sessions /\ HGoto(h, "close")
      BY <1>0, <1>u, <2>1, <2>3, <3>2, <3>4, CloseKnown
    <3> QED
      BY <3>1, <3>3, <3>4
  <2> QED
    BY <2>1, <2>2, <2>3
<1>7. CASE CloseContext(h)
  <2>1. h[2] = "close" /\ hpc[h] = "close"
    BY <1>0, <1>7 DEF CloseContext, Serves
  <2>2. target[h[1]] \in Call /\ Past(target[h[1]])
    BY <1>0, <2>1 DEF Closing
  <2>3. /\ sessions' = sessions
        /\ \/ context' = [context EXCEPT ![target[h[1]]] = "closed"] /\ HGoto(h, "delete")
           \/ context' = context /\ HGoto(h, "error")
    BY <1>7 DEF CloseContext, Fails
  <2>4. CASE context' = [context EXCEPT ![target[h[1]]] = "closed"] /\ HGoto(h, "delete")
    <3>1. /\ context'[target[h[1]]] = "closed"
          /\ \A s \in Call : context[s] = "closed" => context'[s] = "closed"
      BY <2>2, <2>4 DEF Typed
    <3> QED
      BY <1>0, <1>u, <2>1, <2>2, <2>3, <2>4, <3>1, CloseKnown
  <2>5. CASE context' = context /\ HGoto(h, "error")
    BY <1>0, <1>u, <2>1, <2>3, <2>5, CloseKnown
  <2> QED
    BY <2>3, <2>4, <2>5
<1>8. CASE Delete(h)
  <2>1. h[2] = "close" /\ hpc[h] = "delete"
    BY <1>0, <1>8 DEF Delete, Serves
  <2>2. target[h[1]] \in Call /\ Past(target[h[1]]) /\ context[target[h[1]]] = "closed"
    BY <1>0, <2>1 DEF Closing
  <2>3. /\ sessions' = sessions \ {target[h[1]]} /\ context' = context
        /\ \E to \in {"ok", "error"} : HGoto(h, to)
    BY <1>8 DEF Delete
  <2>4. PICK to \in {"ok", "error"} : HGoto(h, to)
    BY <2>3
  <2>5. HGoto(<<h[1], "close">>, to)
    BY <1>0, <2>1, <2>4
  <2>6. to # "delete" /\ sessions' \subseteq sessions /\ target[h[1]] \notin sessions'
    BY <2>3, <2>4
  <2> QED
    BY <1>0, <1>u, <2>2, <2>3, <2>5, <2>6, CloseKnown
<1> QED
  BY <1>1, <1>2, <1>3, <1>4, <1>5, <1>6, <1>7, <1>8 DEF HandlerStep

\* A restart leaves the replies that were given, and no other handler, session or context.
LEMMA RestartClosing ==
  ASSUME Typed, Closing, GatewayRestarts
  PROVE  Closing'
<1>1. \A h \in Handler : hpc'[h] = IF hpc[h] \in Reply \cup {"none"} THEN hpc[h] ELSE "lost"
  BY DEF GatewayRestarts
<1>2. sessions' = {} /\ UNCHANGED <<row, pc, target>>
  BY DEF GatewayRestarts, database, calls
<1>3. \A s \in Call : context[s] = "closed" => context'[s] = "closed"
  BY Lost DEF GatewayRestarts
<1>4. \A s \in Call : Past(s) => Past(s)'
  <2>1. \A s \in Call : <<s, "create">> \in Handler
    BY DEF Handler, Op
  <2> QED
    BY <1>1, <2>1 DEF Past, Reply
<1>5. Harmless
  BY <1>2, <1>3, <1>4 DEF Harmless
<1>6. \A c \in Call : hpc'[<<c, "close">>] \in {"close", "delete", "ok"} =>
        hpc'[<<c, "close">>] = hpc[<<c, "close">>]
  <2>1. \A c \in Call : <<c, "close">> \in Handler
    BY DEF Handler, Op
  <2> QED
    BY <1>1, <2>1
<1> QED
  BY <1>2, <1>5, <1>6, HarmlessKeeps DEF Marked, Known

\* The loss of a browser keeps Closing.
LEMMA BrowserLostClosing ==
  ASSUME Typed, Closing, NEW d, BrowserLost(d)
  PROVE  Closing'
<1>1. UNCHANGED <<row, pc, target, hpc, sessions>>
  BY DEF BrowserLost, database, calls
<1>2. \A s \in Call : context[s] = "closed" => context'[s] = "closed"
  BY Lost DEF BrowserLost
<1>3. Harmless
  BY <1>1, <1>2 DEF Harmless, Closing, Past
<1> QED
  BY <1>1, <1>3, HarmlessKeeps DEF Marked, Known

\* Every step keeps Closing.
LEMMA NextClosing == Typed /\ Stages /\ Closing /\ [Next]_vars => Closing'
<1> SUFFICES ASSUME Typed, Stages, Closing, [Next]_vars
             PROVE  Closing'
  OBVIOUS
<1>1. ASSUME NEW c \in Call,
             Create(c) \/ Probe(c) \/ \E s \in Call : Perform(c, s) \/ Close(c, s)
      PROVE  Closing'
  BY <1>1, BeginClosing DEF Create, Probe, Perform, Close
<1>2. ASSUME NEW c \in Call, ApiStep(c) \/ TimeOut(c) \/ DatabaseFails(c) \/ ApiDies(c)
      PROVE  Closing'
  BY <1>2, ApiClosing
<1>3. ASSUME NEW h \in Handler, HandlerStep(h) PROVE Closing'
  BY <1>3, HandlerClosing
<1>4. CASE GatewayRestarts
  BY <1>4, RestartClosing
<1>5. ASSUME NEW d \in browsers, BrowserLost(d) PROVE Closing'
  BY <1>5, BrowserLostClosing
<1>6. CASE UNCHANGED vars
  BY <1>6, UnmovedHarmless, HarmlessKeeps DEF vars, database, calls, registry, Marked, Known
<1> QED
  BY <1>1, <1>2, <1>3, <1>4, <1>5, <1>6 DEF Next

\* Closing holds at the start.
LEMMA InitClosing == Init => Closing
<1>1. \A c \in Call : <<c, "close">> \in Handler
  BY DEF Handler, Op
<1> QED
  BY <1>1 DEF Init, Closing, Reply

\* A session whose row says closed has a closed context and is not in the gateway's
\* registry, whatever times out, fails, restarts or overlaps: the row is marked only after
\* the gateway's close, and nothing afterwards brings a session back.
THEOREM ClosedSessionsAreDead == Spec => []ClosedIsDead
<1>1. Init => Typed /\ Stages /\ Closing
  BY InitTyped, InitClosing
<1>2. Typed /\ Stages /\ Closing /\ [Next]_vars => (Typed /\ Stages /\ Closing)'
  BY NextTyped, NextClosing
<1>3. Closing => ClosedIsDead
  BY DEF Closing, Dead, ClosedIsDead
<1> QED
  BY <1>1, <1>2, <1>3, PTL DEF Spec
=============================================================================
