--------------------- MODULE BrowserSessionsLifeProofs ---------------------
(***************************************************************************)
(* More proofs about BrowserSessions, for every number of calls, drivers   *)
(* and failures: types, the drivers that run, the life of a session and    *)
(* of its context, and the list of actions.  Each is a conjunct of one     *)
(* inductive invariant, stacked on Typed, Stages and Closing of            *)
(* BrowserSessionsProofs.                                                  *)
(***************************************************************************)
EXTENDS BrowserSessionsProofs

DriverTypes ==
  /\ on \in [Call -> 0..MaxDrivers] /\ mine \in [Call -> 0..MaxDrivers]
  /\ browser \in 0..MaxDrivers /\ driver \in 0..MaxDrivers /\ made \in 0..MaxDrivers
  /\ drivers \subseteq 1..made /\ browsers \subseteq drivers

HistoryTypes ==
  /\ recorded \subseteq Call /\ performed \subseteq Call
  /\ kind \in [Call -> {"none", "create", "act", "close", "probe"}]
  /\ faults \in [Call -> SUBSET FaultKind]
  /\ raced \in BOOLEAN /\ failures \in Nat

\* A call takes the steps, and has the handlers, of what it does.
KindOf(c) ==
  /\ kind[c] = "none" => pc[c] = "new"
  /\ kind[c] = "create" =>
       target[c] = c /\ pc[c] \in Over \cup {"create", "navigate", "undo", "insert", "record"}
  /\ kind[c] = "act" => target[c] \in Call /\ pc[c] \in Over \cup {"perform", "record"}
  /\ kind[c] = "close" => target[c] \in Call /\ pc[c] \in Over \cup {"close", "mark"}
  /\ kind[c] = "probe" => target[c] = None /\ pc[c] \in Over \cup {"probe"}
  /\ hpc[<<c, "create">>] # "none" => kind[c] = "create"
  /\ hpc[<<c, "perform">>] # "none" => kind[c] \in {"create", "act"}
  /\ hpc[<<c, "close">>] # "none" => kind[c] \in {"create", "close"}
  /\ hpc[<<c, "probe">>] # "none" => kind[c] = "probe"

Kinds == \A c \in Call : KindOf(c)

Begins(c) == Create(c) \/ Probe(c) \/ \E s \in Call : Perform(c, s) \/ Close(c, s)

GoesOn(c) == ApiStep(c) \/ TimeOut(c) \/ DatabaseFails(c) \/ ApiDies(c)

----------------------------------------------------------------------------
(* What a step moves.                                                      *)

\* The four operations.
LEMMA Ops == Op = {"create", "perform", "close", "probe"}
  BY DEF Op

\* A handler, in coordinates.
LEMMA Pairs ==
  \A d, c \in Call, o, op \in Op :
    <<d, o>> \in Handler /\ (<<d, o>> = <<c, op>> <=> d = c /\ o = op)
  BY DEF Handler

\* A request moves its call and one handler.
LEMMA Asked ==
  ASSUME Typed, NEW c \in Call, NEW op \in Op, NEW to, Request(c, to, op)
  PROVE  /\ \A d \in Call : pc'[d] = IF d = c THEN to ELSE pc[d]
         /\ \A d \in Call, o \in Op : hpc'[<<d, o>>] =
              IF d = c /\ o = op THEN IF op \in {"create", "probe"} THEN "connect" ELSE "get"
                                 ELSE hpc[<<d, o>>]
<1>1. \A d \in Call : pc'[d] = IF d = c THEN to ELSE pc[d]
  BY DEF Request, Goto, Typed
<1>2. \A g \in Handler : hpc'[g] =
        IF g = <<c, op>> THEN IF op \in {"create", "probe"} THEN "connect" ELSE "get" ELSE hpc[g]
  BY DEF Request, Typed
<1> QED
  BY <1>1, <1>2, Pairs

\* Where an exception leads.
LEMMA Raised ==
  ASSUME Typed, NEW c \in Call, Raise(c)
  PROVE  /\ \A d \in Call : d # c => pc'[d] = pc[d]
         /\ pc'[c] = IF pc[c] \in {"navigate", "insert"} \/ (pc[c] = "record" /\ kind[c] = "create")
                       THEN "undo" ELSE "failed"
         /\ \A d \in Call, o \in Op : hpc'[<<d, o>>] =
              IF d = c /\ o = "close" /\ pc'[c] = "undo" THEN "get" ELSE hpc[<<d, o>>]
<1> DEFINE Undoes == pc[c] \in {"navigate", "insert"} \/ (pc[c] = "record" /\ kind[c] = "create")
<1>1. CASE Undoes
  <2>1. Request(c, "undo", "close")
    BY <1>1 DEF Raise
  <2> QED
    BY <1>1, <2>1, Asked, Ops
<1>2. CASE ~Undoes
  <2>1. Goto(c, "failed") /\ hpc' = hpc
    BY <1>2 DEF Raise
  <2> QED
    BY <1>2, <2>1 DEF Goto, Typed
<1> QED
  BY <1>1, <1>2

\* A fault is remembered, and nothing is forgotten.
LEMMA Faulted ==
  ASSUME HistoryTypes, NEW S, NEW what \in FaultKind, Fault(S, what)
  PROVE  /\ faults' \in [Call -> SUBSET FaultKind] /\ failures' \in Nat
         /\ \A s \in Call : faults'[s] = IF s \in S THEN faults[s] \cup {what} ELSE faults[s]
  BY DEF Fault, Fail, HistoryTypes

\* The kinds of fault.
LEMMA FaultKinds ==
  {"timeout", "database", "died", "raised", "restart", "lost", "collateral"} = FaultKind
  BY DEF FaultKind

\* A call that begins has no handler before, and one handler after.
LEMMA Began ==
  ASSUME Typed, Stages, HistoryTypes, NEW c \in Call, Begins(c)
  PROVE  /\ UNCHANGED <<database, connector, registry, history>>
         /\ pc[c] = "new" /\ \A o \in Op : hpc[<<c, o>>] = "none"
         /\ \A d \in Call : d # c =>
              pc'[d] = pc[d] /\ kind'[d] = kind[d] /\ target'[d] = target[d]
         /\ \E op \in Op :
              /\ pc'[c] = op /\ kind'[c] = IF op = "perform" THEN "act" ELSE op
              /\ op = "create" => target'[c] = c
              /\ op = "probe" => target'[c] = None
              /\ op \in {"perform", "close"} => target'[c] \in Call /\ row[target'[c]] # "none"
              /\ \A d \in Call, o \in Op : hpc'[<<d, o>>] =
                   IF d = c /\ o = op THEN IF op \in {"create", "probe"} THEN "connect" ELSE "get"
                                      ELSE hpc[<<d, o>>]
<1>1. ASSUME NEW what, NEW s, NEW op \in Op, Begin(c, what, s, op, op)
      PROVE  /\ UNCHANGED <<database, connector, registry, history>>
             /\ pc[c] = "new" /\ \A o \in Op : hpc[<<c, o>>] = "none"
             /\ \A d \in Call : d # c =>
                  pc'[d] = pc[d] /\ kind'[d] = kind[d] /\ target'[d] = target[d]
             /\ pc'[c] = op /\ kind'[c] = what /\ target'[c] = s
             /\ \A d \in Call, o \in Op : hpc'[<<d, o>>] =
                  IF d = c /\ o = op THEN IF op \in {"create", "probe"} THEN "connect" ELSE "get"
                                     ELSE hpc[<<d, o>>]
  <2>1. Request(c, op, op) /\ pc[c] = "new" /\ UNCHANGED <<database, connector, registry, history>>
    BY <1>1 DEF Begin
  <2>2. \A o \in Op : hpc[<<c, o>>] = "none"
    BY <2>1, HandlerFacts DEF Stages
  <2>3. \A d \in Call : /\ kind'[d] = IF d = c THEN what ELSE kind[d]
                        /\ target'[d] = IF d = c THEN s ELSE target[d]
    BY <1>1 DEF Begin, Typed, HistoryTypes
  <2> QED
    BY <2>1, <2>2, <2>3, Asked
<1>2. CASE Create(c)
  BY <1>1, <1>2, Ops DEF Create
<1>3. CASE Probe(c)
  BY <1>1, <1>3, Ops DEF Probe
<1>4. ASSUME NEW s \in Call, Perform(c, s) PROVE row[s] # "none" /\ Begin(c, "act", s, "perform", "perform")
  BY <1>4 DEF Perform
<1>5. ASSUME NEW s \in Call, Close(c, s) PROVE row[s] # "none" /\ Begin(c, "close", s, "close", "close")
  BY <1>5 DEF Close
<1>6. CASE \E s \in Call : Perform(c, s)
  <2>1. PICK s \in Call : row[s] # "none" /\ Begin(c, "act", s, "perform", "perform")
    BY <1>4, <1>6
  <2>2. "perform" \in Op /\ target'[c] = s /\ pc'[c] = "perform" /\ kind'[c] = "act"
    BY <1>1, <2>1, Ops
  <2>3. /\ UNCHANGED <<database, connector, registry, history>>
        /\ pc[c] = "new" /\ \A o \in Op : hpc[<<c, o>>] = "none"
        /\ \A d \in Call : d # c =>
             pc'[d] = pc[d] /\ kind'[d] = kind[d] /\ target'[d] = target[d]
        /\ \A d \in Call, o \in Op : hpc'[<<d, o>>] =
             IF d = c /\ o = "perform" THEN "get" ELSE hpc[<<d, o>>]
    BY <1>1, <2>1, <2>2
  <2>4. row[target'[c]] # "none"
    BY <2>1, <2>2
  <2> QED
    BY <2>2, <2>3, <2>4
<1>7. CASE \E s \in Call : Close(c, s)
  <2>1. PICK s \in Call : row[s] # "none" /\ Begin(c, "close", s, "close", "close")
    BY <1>5, <1>7
  <2>2. "close" \in Op /\ target'[c] = s /\ pc'[c] = "close" /\ kind'[c] = "close"
    BY <1>1, <2>1, Ops
  <2>3. /\ UNCHANGED <<database, connector, registry, history>>
        /\ pc[c] = "new" /\ \A o \in Op : hpc[<<c, o>>] = "none"
        /\ \A d \in Call : d # c =>
             pc'[d] = pc[d] /\ kind'[d] = kind[d] /\ target'[d] = target[d]
        /\ \A d \in Call, o \in Op : hpc'[<<d, o>>] =
             IF d = c /\ o = "close" THEN "get" ELSE hpc[<<d, o>>]
    BY <1>1, <2>1, <2>2
  <2>4. row[target'[c]] # "none"
    BY <2>1, <2>2
  <2> QED
    BY <2>2, <2>3, <2>4
<1> QED
  BY <1>2, <1>3, <1>6, <1>7 DEF Begins

\* A call that goes on moves alone.  It asks for its start page or for an undo, or it
\* moves no handler.
LEMMA WentOn ==
  ASSUME Typed, NEW c \in Call, GoesOn(c)
  PROVE  /\ UNCHANGED <<kind, target, connector, registry, performed, raced>>
         /\ \A d \in Call : d # c => pc'[d] = pc[d]
         /\ \A d \in Call, o \in Op : hpc'[<<d, o>>] =
              IF d = c /\ (\/ o = "close" /\ pc'[c] = "undo"
                           \/ o = "perform" /\ pc'[c] = "navigate")
                THEN "get" ELSE hpc[<<d, o>>]
<1> DEFINE Moved == /\ \A d \in Call : d # c => pc'[d] = pc[d]
                    /\ \A d \in Call, o \in Op : hpc'[<<d, o>>] =
                         IF d = c /\ (\/ o = "close" /\ pc'[c] = "undo"
                                      \/ o = "perform" /\ pc'[c] = "navigate")
                           THEN "get" ELSE hpc[<<d, o>>]
<1>r. ASSUME Raise(c) PROVE Moved
  BY <1>r, Raised
<1>g. ASSUME NEW to, to \notin {"undo", "navigate"}, Goto(c, to), hpc' = hpc PROVE Moved
  BY <1>g DEF Goto, Typed
<1>1. CASE Proceed(c)
  <2>0. /\ Waiting(c)
        /\ pc[c] \in {"create", "navigate", "perform", "close", "undo", "probe"}
    BY <1>1 DEF Proceed, Waiting
  <2>1. \/ Request(c, "navigate", "perform")
        \/ \E to \in {"insert", "record", "mark", "failed", "done"} : Goto(c, to) /\ hpc' = hpc
    BY <1>1, <2>0 DEF Proceed
  <2>2. ASSUME Request(c, "navigate", "perform") PROVE Moved
    BY <2>2, Asked, Ops
  <2>3. ASSUME \E to \in {"insert", "record", "mark", "failed", "done"} : Goto(c, to) /\ hpc' = hpc
        PROVE  Moved
    BY <2>3, <1>g
  <2> QED
    BY <1>1, <2>1, <2>2, <2>3 DEF Proceed, history
<1>2. CASE Refused(c)
  BY <1>2, <1>r DEF Refused, history
<1>3. CASE InsertRow(c)
  BY <1>3, <1>g DEF InsertRow, history
<1>4. CASE Record(c) \/ MarkClosed(c)
  BY <1>4, <1>g DEF Record, MarkClosed, history
<1>5. CASE TimeOut(c)
  BY <1>5, <1>r DEF TimeOut
<1>6. CASE DatabaseFails(c)
  BY <1>6, <1>r DEF DatabaseFails
<1>7. CASE ApiDies(c)
  BY <1>7, <1>g DEF ApiDies
<1> QED
  BY <1>1, <1>2, <1>3, <1>4, <1>5, <1>6, <1>7 DEF GoesOn, ApiStep

\* A step of a handler moves no other handler, and comes neither from nor to the start or
\* from a reply.
LEMMA Turned ==
  ASSUME Typed, NEW h \in Handler, HandlerStep(h)
  PROVE  /\ UNCHANGED <<row, recorded, pc, kind, target>>
         /\ hpc[h] \notin Reply \cup {"none"}
         /\ hpc'[h] \notin {"none", "connect", "get"}
         /\ \A g \in Handler : g # h => hpc'[g] = hpc[g]
<1>1. UNCHANGED <<row, recorded, pc, kind, target>>
  BY DEF HandlerStep, Connect, Started, StartFails, Join, JoinFails, Drop, Clear, Forget,
         NewContext, NewPage, Get, Act, Snapshot, CloseContext, Delete, database, calls
<1>2. hpc[h] \in Connecting \cup {"connect", "context", "page", "get", "act", "snapshot", "close", "delete"}
  BY DEF HandlerStep, Connect, Started, StartFails, Join, JoinFails, Drop, Clear, Forget,
         NewContext, NewPage, Get, Act, Snapshot, CloseContext, Delete, Connecting
<1>3. \E to \in HandlerPc \ {"none", "connect", "get"} : HGoto(h, to)
  <2> DEFINE Goal == \E to \in HandlerPc \ {"none", "connect", "get"} : HGoto(h, to)
  <2>0. {"ok", "error", "denied", "context", "starting", "joining", "dropping", "clearing",
         "forgetting", "page", "snapshot", "act", "close", "delete"} \subseteq
           HandlerPc \ {"none", "connect", "get"}
    BY DEF HandlerPc, Reply, Connecting
  <2>1. CASE Connect(h) \/ Join(h)
    <3>1. HGoto(h, "ok") \/ HGoto(h, "context") \/ HGoto(h, "starting")
      BY <2>1 DEF Connect, Join, Connected
    <3> QED
      BY <2>0, <3>1
  <2>2. CASE Started(h) \/ StartFails(h) \/ JoinFails(h) \/ Drop(h) \/ Clear(h) \/ Forget(h)
    <3>1. \/ HGoto(h, "joining") \/ HGoto(h, "dropping") \/ HGoto(h, "clearing")
          \/ HGoto(h, "forgetting") \/ HGoto(h, "error")
      BY <2>2 DEF Started, StartFails, JoinFails, Drop, Clear, Forget, Stop
    <3> QED
      BY <2>0, <3>1
  <2>3. CASE NewContext(h) \/ NewPage(h) \/ Act(h) \/ Snapshot(h)
    <3>1. \/ HGoto(h, "page") \/ HGoto(h, "snapshot") \/ HGoto(h, "error") \/ HGoto(h, "denied")
          \/ HGoto(h, "ok")
      BY <2>3 DEF NewContext, NewPage, Act, Snapshot, Fails
    <3> QED
      BY <2>0, <3>1
  <2>4. CASE Get(h) \/ CloseContext(h) \/ Delete(h)
    <3>1. HGoto(h, "act") \/ HGoto(h, "close") \/ HGoto(h, "delete") \/ HGoto(h, "ok") \/ HGoto(h, "error")
      BY <2>4 DEF Get, CloseContext, Fails, Delete
    <3> QED
      BY <2>0, <3>1
  <2> QED
    BY <2>1, <2>2, <2>3, <2>4 DEF HandlerStep
<1>4. PICK to \in HandlerPc \ {"none", "connect", "get"} : HGoto(h, to)
  BY <1>3
<1>5. \A g \in Handler : hpc'[g] = IF g = h THEN to ELSE hpc[g]
  BY <1>4 DEF HGoto, Typed
<1> QED
  BY <1>1, <1>2, <1>4, <1>5 DEF Reply, Connecting

\* A restart of the gateway leaves the replies that were given.
LEMMA Restarted ==
  ASSUME GatewayRestarts
  PROVE  /\ UNCHANGED <<row, recorded, pc, kind, target, performed, raced, on, mine, made>>
         /\ \A g \in Handler : hpc'[g] = IF hpc[g] \in Reply \cup {"none"} THEN hpc[g] ELSE "lost"
         /\ sessions' = {} /\ browser' = 0 /\ driver' = 0 /\ drivers' = {}
         /\ browsers' = {}
         /\ \A s \in Call : context'[s] =
              IF context[s] = "open" /\ on[s] \in browsers THEN "closed" ELSE context[s]
  BY DEF GatewayRestarts, LoseBrowsers, database, calls

----------------------------------------------------------------------------
(* The kinds of calls.                                                     *)

\* While no call moves and no handler begins, Kinds stays.
LEMMA KindsStay ==
  ASSUME Kinds, UNCHANGED <<pc, kind, target>>,
         \A g \in Handler : hpc[g] = "none" => hpc'[g] = "none"
  PROVE  Kinds'
<1>1. \A c \in Call : /\ hpc[<<c, "create">>] = "none" => hpc'[<<c, "create">>] = "none"
                      /\ hpc[<<c, "perform">>] = "none" => hpc'[<<c, "perform">>] = "none"
                      /\ hpc[<<c, "close">>] = "none" => hpc'[<<c, "close">>] = "none"
                      /\ hpc[<<c, "probe">>] = "none" => hpc'[<<c, "probe">>] = "none"
  BY Ops DEF Handler
<1> QED
  BY <1>1, ZenonT(60) DEF Kinds, KindOf

\* A call that begins keeps Kinds.
LEMMA KindsBegin ==
  ASSUME Typed, Stages, HistoryTypes, Kinds, NEW c \in Call, Begins(c)
  PROVE  Kinds'
<1>1. PICK op \in Op :
        /\ pc'[c] = op /\ kind'[c] = IF op = "perform" THEN "act" ELSE op
        /\ op = "create" => target'[c] = c
        /\ op = "probe" => target'[c] = None
        /\ op \in {"perform", "close"} => target'[c] \in Call
        /\ \A d \in Call, o \in Op : hpc'[<<d, o>>] =
             IF d = c /\ o = op THEN IF op \in {"create", "probe"} THEN "connect" ELSE "get"
                                ELSE hpc[<<d, o>>]
  BY Began
<1>2. \A d \in Call : d # c => pc'[d] = pc[d] /\ kind'[d] = kind[d] /\ target'[d] = target[d]
  BY Began
<1>3. \A o \in Op : hpc[<<c, o>>] = "none"
  BY Began
<1>4. \A d \in Call : d # c =>
        /\ hpc'[<<d, "create">>] = hpc[<<d, "create">>]
        /\ hpc'[<<d, "perform">>] = hpc[<<d, "perform">>]
        /\ hpc'[<<d, "close">>] = hpc[<<d, "close">>]
        /\ hpc'[<<d, "probe">>] = hpc[<<d, "probe">>]
  BY <1>1, Ops
<1>5. /\ hpc'[<<c, "create">>] # "none" => op = "create"
      /\ hpc'[<<c, "perform">>] # "none" => op = "perform"
      /\ hpc'[<<c, "close">>] # "none" => op = "close"
      /\ hpc'[<<c, "probe">>] # "none" => op = "probe"
  BY <1>1, <1>3, Ops
<1>6. op \in {"create", "perform", "close", "probe"}
  BY Ops
<1>7. KindOf(c)'
  BY <1>1, <1>5, <1>6 DEF KindOf
<1>8. \A d \in Call : d # c => (KindOf(d) => KindOf(d)')
  BY <1>2, <1>4 DEF KindOf
<1> QED
  BY <1>7, <1>8 DEF Kinds

\* A call that goes on keeps Kinds.
LEMMA KindsGoOn ==
  ASSUME Typed, HistoryTypes, Kinds, NEW c \in Call, GoesOn(c)
  PROVE  Kinds'
<1>1. /\ UNCHANGED <<kind, target>>
      /\ \A d \in Call : d # c => pc'[d] = pc[d]
      /\ \A d \in Call, o \in Op : hpc'[<<d, o>>] =
           IF d = c /\ (\/ o = "close" /\ pc'[c] = "undo"
                        \/ o = "perform" /\ pc'[c] = "navigate")
             THEN "get" ELSE hpc[<<d, o>>]
  BY WentOn
<1> DEFINE Steps == /\ kind[c] # "none"
                    /\ kind[c] = "create" => pc'[c] \in Over \cup {"create", "navigate", "undo", "insert", "record"}
                    /\ kind[c] = "act" => pc'[c] \in Over \cup {"perform", "record"}
                    /\ kind[c] = "close" => pc'[c] \in Over \cup {"close", "mark"}
                    /\ kind[c] = "probe" => pc'[c] \in Over \cup {"probe"}
<1>k. /\ kind[c] = "none" => pc[c] = "new"
      /\ kind[c] = "create" => pc[c] \in Over \cup {"create", "navigate", "undo", "insert", "record"}
      /\ kind[c] = "act" => pc[c] \in Over \cup {"perform", "record"}
      /\ kind[c] = "close" => pc[c] \in Over \cup {"close", "mark"}
      /\ kind[c] = "probe" => pc[c] \in Over \cup {"probe"}
  BY DEF Kinds, KindOf
<1>r. ASSUME Raise(c), pc[c] \notin Over \cup {"new"} PROVE Steps
  BY <1>r, <1>k, Raised DEF Over
<1>g. ASSUME NEW to, Goto(c, to) PROVE pc'[c] = to
  BY <1>g DEF Goto, Typed
<1>2. Steps
  <2>1. CASE Proceed(c)
    <3>1. Waiting(c) /\ hpc[<<c, Awaits(c)>>] = "ok"
      BY <2>1 DEF Proceed
    <3>2. /\ pc[c] = "create" => pc'[c] \in {"navigate", "insert"}
          /\ pc[c] = "navigate" => pc'[c] = "insert"
          /\ pc[c] = "perform" => pc'[c] = "record"
          /\ pc[c] = "close" => pc'[c] = "mark"
          /\ pc[c] = "undo" => pc'[c] = "failed"
          /\ pc[c] = "probe" => pc'[c] = "done"
      BY <2>1, <1>g DEF Proceed, Request
    <3> QED
      BY <1>k, <3>1, <3>2 DEF Waiting, Over
  <2>2. CASE Refused(c) \/ TimeOut(c)
    BY <2>2, <1>r DEF Refused, TimeOut, Waiting, Over
  <2>3. CASE DatabaseFails(c)
    BY <2>3, <1>r DEF DatabaseFails, Over
  <2>4. CASE InsertRow(c)
    <3>1. pc[c] = "insert" /\ pc'[c] \in {"record", "done"}
      BY <2>4, <1>g DEF InsertRow
    <3> QED
      BY <1>k, <3>1 DEF Over
  <2>5. CASE Record(c) \/ MarkClosed(c)
    <3>1. pc[c] \in {"record", "mark"} /\ pc'[c] = "done"
      BY <2>5, <1>g DEF Record, MarkClosed
    <3> QED
      BY <1>k, <3>1 DEF Over
  <2>6. CASE ApiDies(c)
    <3>1. pc[c] # "new" /\ pc'[c] = "dead"
      BY <2>6, <1>g DEF ApiDies
    <3> QED
      BY <1>k, <3>1 DEF Over
  <2> QED
    BY <2>1, <2>2, <2>3, <2>4, <2>5, <2>6 DEF GoesOn, ApiStep
<1>3. pc'[c] \in {"undo", "navigate"} => kind[c] = "create"
  <2>1. kind[c] \in {"none", "create", "act", "close", "probe"}
    BY DEF HistoryTypes
  <2> QED
    BY <1>2, <2>1 DEF Over
<1>4. KindOf(c)'
  BY <1>1, <1>2, <1>3, Ops DEF Kinds, KindOf
<1>5. \A d \in Call : d # c => (KindOf(d) => KindOf(d)')
  BY <1>1, Ops DEF KindOf
<1> QED
  BY <1>4, <1>5 DEF Kinds

\* Every step keeps Kinds.
LEMMA NextKinds == Typed /\ Stages /\ HistoryTypes /\ Kinds /\ [Next]_vars => Kinds'
<1> SUFFICES ASSUME Typed, Stages, HistoryTypes, Kinds, [Next]_vars
             PROVE  Kinds'
  OBVIOUS
<1>1. ASSUME NEW c \in Call, Begins(c) PROVE Kinds'
  BY <1>1, KindsBegin
<1>2. ASSUME NEW c \in Call, GoesOn(c) PROVE Kinds'
  BY <1>2, KindsGoOn
<1>3. ASSUME NEW h \in Handler, HandlerStep(h) PROVE Kinds'
  BY <1>3, Turned, KindsStay
<1>4. CASE GatewayRestarts
  BY <1>4, Restarted, KindsStay
<1>5. ASSUME NEW d \in browsers, BrowserLost(d) PROVE Kinds'
  BY <1>5, KindsStay DEF BrowserLost, calls
<1>6. CASE UNCHANGED vars
  BY <1>6, KindsStay DEF vars, calls
<1> QED
  BY <1>1, <1>2, <1>3, <1>4, <1>5, <1>6 DEF Next, Begins, GoesOn

----------------------------------------------------------------------------
(* Types.                                                                  *)

\* Every step keeps the types of the history and of what the calls do.
LEMMA NextHistory == Typed /\ HistoryTypes /\ [Next]_vars => HistoryTypes'
<1> SUFFICES ASSUME Typed, HistoryTypes, [Next]_vars
             PROVE  HistoryTypes'
  OBVIOUS
<1>f. ASSUME NEW S, NEW what \in FaultKind, Fault(S, what)
      PROVE  faults' \in [Call -> SUBSET FaultKind] /\ failures' \in Nat
  BY <1>f, Faulted
<1>1. ASSUME NEW c \in Call, Begins(c) PROVE HistoryTypes'
  <2>1. UNCHANGED <<recorded, performed, faults, raced, failures>>
    BY <1>1 DEF Begins, Create, Probe, Perform, Close, Begin, database, history
  <2>2. \E what \in {"create", "act", "close", "probe"} : kind' = [kind EXCEPT ![c] = what]
    BY <1>1 DEF Begins, Create, Probe, Perform, Close, Begin
  <2> QED
    BY <2>1, <2>2 DEF HistoryTypes
<1>2. ASSUME NEW c \in Call, GoesOn(c) PROVE HistoryTypes'
  <2>1. UNCHANGED <<kind, performed, raced>>
    BY <1>2, WentOn
  <2>2. recorded' \in {recorded, recorded \cup {c}}
    BY <1>2 DEF GoesOn, ApiStep, Proceed, Refused, TimeOut, InsertRow, Record, MarkClosed,
                DatabaseFails, ApiDies, database
  <2>3. \/ UNCHANGED <<faults, failures>>
        \/ \E what \in {"timeout", "database", "died"} : Fault({target[c]}, what)
    BY <1>2 DEF GoesOn, ApiStep, Proceed, Refused, TimeOut, InsertRow, Record, MarkClosed,
                DatabaseFails, ApiDies, history
  <2>4. faults' \in [Call -> SUBSET FaultKind] /\ failures' \in Nat
    BY <2>3, <1>f, FaultKinds DEF HistoryTypes
  <2> QED
    BY <2>1, <2>2, <2>4 DEF HistoryTypes
<1>3. ASSUME NEW h \in Handler, HandlerStep(h) PROVE HistoryTypes'
  <2>1. UNCHANGED <<recorded, kind>>
    BY <1>3, Turned
  <2>2. performed' \in {performed, performed \cup {h[1]}}
    BY <1>3 DEF HandlerStep, Connect, Started, StartFails, Join, JoinFails, Drop, Clear, Forget,
                NewContext, NewPage, Get, Act, Snapshot, CloseContext, Delete, history
  <2>3. raced' \in BOOLEAN
    <3>1. raced' = raced \/ (raced' = (raced \/ \E g \in Handler : hpc[g] \in Connecting))
      BY <1>3 DEF HandlerStep, Connect, Started, StartFails, Join, JoinFails, Drop, Clear, Forget,
                  NewContext, NewPage, Get, Act, Snapshot, CloseContext, Delete, history
    <3> QED
      BY <3>1 DEF HistoryTypes
  <2>4. faults' \in [Call -> SUBSET FaultKind] /\ failures' \in Nat
    <3>1. \/ UNCHANGED faults /\ (UNCHANGED failures \/ Fail)
          \/ Fault({target[h[1]]}, "raised")
          \/ /\ UNCHANGED failures
             /\ faults' = [s \in Call |->
                  IF context'[s] # context[s] THEN faults[s] \cup {"collateral"} ELSE faults[s]]
      BY <1>3 DEF HandlerStep, Connect, Started, StartFails, Join, JoinFails, Drop, Clear, Forget,
                  NewContext, NewPage, Get, Act, Snapshot, Fails, CloseContext, Delete, history
    <3>2. CASE UNCHANGED faults /\ (UNCHANGED failures \/ Fail)
      BY <3>2 DEF HistoryTypes, Fail
    <3>3. CASE Fault({target[h[1]]}, "raised")
      BY <3>3, <1>f, FaultKinds
    <3>4. ASSUME UNCHANGED failures,
                 faults' = [s \in Call |->
                   IF context'[s] # context[s] THEN faults[s] \cup {"collateral"} ELSE faults[s]]
          PROVE  faults' \in [Call -> SUBSET FaultKind] /\ failures' \in Nat
      BY <3>4, FaultKinds DEF HistoryTypes
    <3> QED
      BY <3>1, <3>2, <3>3, <3>4
  <2> QED
    BY <2>1, <2>2, <2>3, <2>4, HandlerFacts DEF HistoryTypes
<1>4. CASE GatewayRestarts
  <2>1. faults' \in [Call -> SUBSET FaultKind] /\ failures' \in Nat
    BY <1>4, <1>f, FaultKinds DEF GatewayRestarts
  <2> QED
    BY <1>4, <2>1, Restarted DEF HistoryTypes
<1>5. ASSUME NEW d \in browsers, BrowserLost(d) PROVE HistoryTypes'
  <2>1. faults' \in [Call -> SUBSET FaultKind] /\ failures' \in Nat
    BY <1>5, <1>f, FaultKinds DEF BrowserLost
  <2> QED
    BY <1>5, <2>1 DEF BrowserLost, HistoryTypes, database, calls
<1>6. CASE UNCHANGED vars
  BY <1>6 DEF vars, database, calls, history, HistoryTypes
<1> QED
  BY <1>1, <1>2, <1>3, <1>4, <1>5, <1>6 DEF Next, Begins, GoesOn

\* Nothing that went wrong with a session is forgotten.
LEMMA FaultsGrow ==
  ASSUME Typed, HistoryTypes, [Next]_vars
  PROVE  \A s \in Call : faults[s] \subseteq faults'[s]
<1>f. ASSUME NEW S, NEW what, Fault(S, what) PROVE \A s \in Call : faults[s] \subseteq faults'[s]
  BY <1>f DEF Fault
<1>1. ASSUME NEW c \in Call, Begins(c) PROVE faults' = faults
  BY <1>1 DEF Begins, Create, Probe, Perform, Close, Begin, history
<1>2. ASSUME NEW c \in Call, GoesOn(c)
      PROVE  faults' = faults \/ \E S, what : Fault(S, what)
  BY <1>2 DEF GoesOn, ApiStep, Proceed, Refused, TimeOut, InsertRow, Record, MarkClosed,
              DatabaseFails, ApiDies, history
<1>3. ASSUME NEW h \in Handler, HandlerStep(h)
      PROVE  \/ faults' = faults \/ \E S, what : Fault(S, what)
             \/ faults' = [s \in Call |->
                  IF context'[s] # context[s] THEN faults[s] \cup {"collateral"} ELSE faults[s]]
  BY <1>3 DEF HandlerStep, Connect, Started, StartFails, Join, JoinFails, Drop, Clear, Forget,
              NewContext, NewPage, Get, Act, Snapshot, Fails, CloseContext, Delete, history
<1>4. GatewayRestarts => \E S, what : Fault(S, what)
  BY DEF GatewayRestarts
<1>5. (\E d \in browsers : BrowserLost(d)) => \E S, what : Fault(S, what)
  BY DEF BrowserLost
<1>6. UNCHANGED vars => faults' = faults
  BY DEF vars, history
<1>7. \/ faults' = faults \/ \E S, what : Fault(S, what)
      \/ faults' = [s \in Call |->
           IF context'[s] # context[s] THEN faults[s] \cup {"collateral"} ELSE faults[s]]
  BY <1>1, <1>2, <1>3, <1>4, <1>5, <1>6 DEF Next, Begins, GoesOn
<1> QED
  BY <1>7, <1>f

\* A driver that is being started has no browser yet and is nobody else's.
Starts ==
  \A h \in Handler : hpc[h] \in {"starting", "joining"} =>
    /\ mine[h[1]] \in 1..made /\ mine[h[1]] \notin browsers
    /\ \A g \in Handler : g # h /\ hpc[g] \in {"starting", "joining"} => mine[g[1]] # mine[h[1]]

\* A call has one handler at most that connects.
LEMMA OneConnects ==
  ASSUME Stages, Kinds, NEW g \in Handler, NEW h \in Handler, g[1] = h[1],
         hpc[g] \in Connecting \cup {"connect"}, hpc[h] \in Connecting \cup {"connect"}
  PROVE  g = h
<1>1. g[2] \in {"create", "probe"} /\ h[2] \in {"create", "probe"}
  BY DEF Stages, Serves
<1>2. hpc[g] # "none" /\ hpc[h] # "none"
  BY DEF Connecting
<1>3. g = <<g[1], g[2]>> /\ h = <<h[1], h[2]>> /\ g[1] \in Call
  BY HandlerFacts
<1>4. ~(hpc[<<g[1], "create">>] # "none" /\ hpc[<<g[1], "probe">>] # "none")
  BY <1>3 DEF Kinds, KindOf
<1>5. CASE g[2] = h[2]
  BY <1>3, <1>5
<1>6. CASE g[2] = "create" /\ h[2] = "probe"
  BY <1>2, <1>3, <1>4, <1>6
<1>7. CASE g[2] = "probe" /\ h[2] = "create"
  BY <1>2, <1>3, <1>4, <1>7
<1> QED
  BY <1>1, <1>5, <1>6, <1>7

\* A step of a call touches no handler that connects.
LEMMA CallsDoNotConnect ==
  ASSUME Typed, Stages, HistoryTypes, NEW c \in Call, Begins(c) \/ GoesOn(c)
  PROVE  /\ UNCHANGED <<connector, raced>>
         /\ \A g \in Handler : hpc[g] \in Connecting \/ hpc'[g] \in Connecting => hpc'[g] = hpc[g]
<1>1. CASE Begins(c)
  <2>1. UNCHANGED <<connector, raced>>
    BY <1>1, Began DEF history
  <2>2. \A d \in Call, o \in Op : hpc'[<<d, o>>] = hpc[<<d, o>>] \/
          (hpc[<<d, o>>] = "none" /\ hpc'[<<d, o>>] \in {"connect", "get"})
    <3>1. PICK op \in Op : \A d \in Call, o \in Op : hpc'[<<d, o>>] =
            IF d = c /\ o = op THEN IF op \in {"create", "probe"} THEN "connect" ELSE "get"
                               ELSE hpc[<<d, o>>]
      BY <1>1, Began
    <3>2. \A o \in Op : hpc[<<c, o>>] = "none"
      BY <1>1, Began
    <3> QED
      BY <3>1, <3>2
  <2>3. \A d \in Call, o \in Op :
          hpc[<<d, o>>] \in Connecting \/ hpc'[<<d, o>>] \in Connecting => hpc'[<<d, o>>] = hpc[<<d, o>>]
    BY <2>2 DEF Connecting
  <2> QED
    BY <2>1, <2>3, HandlerFacts
<1>2. CASE GoesOn(c)
  <2>1. UNCHANGED <<connector, raced>>
    BY <1>2, WentOn
  <2>2. \A d \in Call, o \in Op : hpc'[<<d, o>>] = hpc[<<d, o>>] \/
          (o \in {"perform", "close"} /\ hpc'[<<d, o>>] = "get")
    BY <1>2, WentOn
  <2>3. \A d \in Call, o \in Op : o \in {"perform", "close"} => hpc[<<d, o>>] \notin Connecting
    BY HandlerFacts DEF Stages, Serves
  <2>4. \A d \in Call, o \in Op :
          hpc[<<d, o>>] \in Connecting \/ hpc'[<<d, o>>] \in Connecting => hpc'[<<d, o>>] = hpc[<<d, o>>]
    BY <2>2, <2>3 DEF Connecting
  <2> QED
    BY <2>1, <2>4, HandlerFacts
<1> QED
  BY <1>1, <1>2

\* The driver numbers, as the provers need them.
LEMMA Counting ==
  ASSUME DriverTypes
  PROVE  /\ made \in Nat /\ made + 1 \in Nat
         /\ made < MaxDrivers => made + 1 \in 0..MaxDrivers /\ made + 1 \in 1..(made + 1)
         /\ 1..made \subseteq 1..(made + 1) /\ 1..made \subseteq 0..MaxDrivers
         /\ made + 1 \notin 1..made
  BY BrowserAssumption DEF DriverTypes

\* A step of a handler keeps the types of the connector.
LEMMA HandlerDriverTypes ==
  ASSUME Typed, Stages, Kinds, DriverTypes, Starts, NEW h \in Handler, HandlerStep(h)
  PROVE  DriverTypes'
<1>h. h[1] \in Call
  BY HandlerFacts
<1>1. CASE Connect(h)
  <2>1. UNCHANGED <<on, browser, driver, browsers>>
    BY <1>1 DEF Connect, registry
  <2>2. CASE browser \in browsers /\ mine' = [mine EXCEPT ![h[1]] = browser] /\ UNCHANGED <<drivers, made>>
    BY <1>h, <2>1, <2>2 DEF DriverTypes
  <2>3. CASE /\ made < MaxDrivers /\ made' = made + 1 /\ drivers' = drivers \cup {made + 1}
             /\ mine' = [mine EXCEPT ![h[1]] = made + 1]
    <3>1. made' \in 0..MaxDrivers /\ mine' \in [Call -> 0..MaxDrivers]
      BY <1>h, <2>3, Counting DEF DriverTypes
    <3>2. drivers' \subseteq 1..made'
      BY <2>3, Counting DEF DriverTypes
    <3> QED
      BY <2>1, <2>3, <3>1, <3>2 DEF DriverTypes
  <2> QED
    BY <1>1, <2>2, <2>3 DEF Connect
<1>2. CASE Started(h)
  BY <1>2, <1>h DEF Started, DriverTypes, registry
<1>3. CASE Join(h)
  BY <1>3, <1>h DEF Join, DriverTypes, registry
<1>4. CASE StartFails(h)
  <2>1. mine[h[1]] \notin browsers
    BY <1>4 DEF StartFails, Starts
  <2> QED
    BY <1>4, <2>1 DEF StartFails, DriverTypes, registry
<1>5. CASE Drop(h)
  <2>1. /\ UNCHANGED <<on, browser, driver, mine, made>>
        /\ \/ \E D : browsers' = browsers \ D /\ drivers' = drivers
           \/ browsers' = browsers \ {driver} /\ drivers' = drivers \ {driver}
    BY <1>5 DEF Drop, LoseBrowsers, Stop
  <2> QED
    BY <2>1 DEF DriverTypes
<1>6. CASE Clear(h)
  <2>1. /\ UNCHANGED <<on, driver, mine, made>> /\ browser' = 0
        /\ browsers' = browsers \ {driver} /\ drivers' = drivers \ {driver}
    BY <1>6 DEF Clear, LoseBrowsers, Stop
  <2> QED
    BY <2>1, BrowserAssumption DEF DriverTypes
<1>7. CASE Forget(h)
  BY <1>7, BrowserAssumption DEF Forget, DriverTypes, registry
<1>8. CASE NewContext(h)
  BY <1>8, <1>h DEF NewContext, DriverTypes, connector
<1>9. CASE JoinFails(h) \/ NewPage(h) \/ Get(h) \/ Act(h) \/ Snapshot(h) \/ CloseContext(h) \/ Delete(h)
  BY <1>9 DEF JoinFails, NewPage, Get, Act, Snapshot, CloseContext, Delete, DriverTypes, connector,
              registry
<1> QED
  BY <1>1, <1>2, <1>3, <1>4, <1>5, <1>6, <1>7, <1>8, <1>9 DEF HandlerStep

\* While starting handlers stay what they are, browsers only go and drivers only come,
\* Starts stays.
LEMMA StartsStay ==
  ASSUME Starts, DriverTypes, made' = made \/ made' = made + 1, browsers' \subseteq browsers,
         \A g \in Handler : hpc'[g] \in {"starting", "joining"} =>
           hpc[g] \in {"starting", "joining"} /\ mine'[g[1]] = mine[g[1]]
  PROVE  Starts'
<1>1. 1..made \subseteq 1..made'
  BY Counting
<1>2. ASSUME NEW h \in Handler, hpc'[h] \in {"starting", "joining"}
      PROVE  /\ mine'[h[1]] \in 1..made' /\ mine'[h[1]] \notin browsers'
             /\ \A g \in Handler : g # h /\ hpc'[g] \in {"starting", "joining"} =>
                  mine'[g[1]] # mine'[h[1]]
  BY <1>1, <1>2 DEF Starts
<1> QED
  BY <1>2 DEF Starts

\* A step of a handler keeps Starts.
LEMMA HandlerStarts ==
  ASSUME Typed, Stages, Kinds, DriverTypes, Starts, NEW h \in Handler, HandlerStep(h)
  PROVE  Starts'
<1>h. h[1] \in Call
  BY HandlerFacts
<1>g. \A g \in Handler : g # h => hpc'[g] = hpc[g]
  BY Turned
<1>1. CASE Connect(h)
  <2>1. hpc[h] = "connect" /\ browsers' = browsers
    BY <1>1 DEF Connect
  <2>2. \A g \in Handler : g # h /\ hpc[g] \in {"starting", "joining"} => g[1] # h[1] /\ g[1] \in Call
    BY <2>1, OneConnects, HandlerFacts DEF Connecting
  <2>3. CASE mine' = [mine EXCEPT ![h[1]] = browser] /\ Connected(h) /\ made' = made
    <3>1. hpc'[h] \notin {"starting", "joining"}
      BY <2>3 DEF Connected, HGoto, Typed
    <3>2. \A g \in Handler : g # h /\ hpc[g] \in {"starting", "joining"} => mine'[g[1]] = mine[g[1]]
      BY <2>2, <2>3 DEF DriverTypes
    <3> QED
      BY <1>g, <2>1, <2>3, <3>1, <3>2, StartsStay
  <2>4. CASE /\ made < MaxDrivers /\ made' = made + 1
             /\ mine' = [mine EXCEPT ![h[1]] = made + 1]
    <3>1. mine'[h[1]] = made + 1
      BY <1>h, <2>4 DEF DriverTypes
    <3>2. \A g \in Handler : g # h /\ hpc[g] \in {"starting", "joining"} => mine'[g[1]] = mine[g[1]]
      BY <2>2, <2>4 DEF DriverTypes
    <3>3. made + 1 \in 1..made' /\ 1..made \subseteq 1..made' /\ made + 1 \notin 1..made
      BY <2>4, Counting
    <3>4. made + 1 \notin browsers
      BY <3>3 DEF DriverTypes
    <3>5. \A g \in Handler : g # h /\ hpc'[g] \in {"starting", "joining"} =>
            /\ mine'[g[1]] \in 1..made /\ mine'[g[1]] \notin browsers
            /\ \A f \in Handler : f # h /\ f # g /\ hpc'[f] \in {"starting", "joining"} =>
                 mine'[f[1]] # mine'[g[1]]
      BY <1>g, <3>2 DEF Starts
    <3> QED
      BY <2>1, <3>1, <3>3, <3>4, <3>5 DEF Starts
  <2> QED
    BY <1>1, <2>3, <2>4 DEF Connect
<1>2. CASE Join(h)
  <2>1. /\ hpc[h] = "joining" /\ browsers' = browsers \cup {mine[h[1]]}
        /\ UNCHANGED <<mine, made>> /\ Connected(h)
    BY <1>2 DEF Join
  <2>2. hpc'[h] \notin {"starting", "joining"}
    BY <2>1 DEF Connected, HGoto, Typed
  <2> QED
    BY <1>g, <2>1, <2>2 DEF Starts
<1>3. CASE Started(h)
  <2>1. hpc[h] = "starting" /\ UNCHANGED <<browsers, mine, made>>
    BY <1>3 DEF Started
  <2> QED
    BY <1>g, <2>1, StartsStay
<1>4. CASE ~(Connect(h) \/ Join(h) \/ Started(h))
  <2>1. UNCHANGED <<mine, made>> /\ browsers' \subseteq browsers
    BY <1>4 DEF HandlerStep, StartFails, JoinFails, Drop, Clear, LoseBrowsers, Forget, NewContext,
                NewPage, Get, Act, Snapshot, CloseContext, Delete, connector
  <2>2. \E to \in {"dropping", "clearing", "forgetting", "page", "snapshot", "act", "close",
                   "delete", "ok", "error", "denied"} : HGoto(h, to)
    BY <1>4 DEF HandlerStep, StartFails, JoinFails, Drop, Clear, Stop, Forget, NewContext,
                NewPage, Get, Act, Snapshot, Fails, CloseContext, Delete
  <2>3. hpc'[h] \notin {"starting", "joining"}
    BY <2>2 DEF HGoto, Typed
  <2> QED
    BY <1>g, <2>1, <2>3, StartsStay
<1> QED
  BY <1>1, <1>2, <1>3, <1>4

\* Every step keeps the types of the connector, and Starts.
LEMMA NextDrivers ==
  Typed /\ Stages /\ HistoryTypes /\ Kinds /\ DriverTypes /\ Starts /\ [Next]_vars =>
    DriverTypes' /\ Starts'
<1> SUFFICES ASSUME Typed, Stages, HistoryTypes, Kinds, DriverTypes, Starts, [Next]_vars
             PROVE  DriverTypes' /\ Starts'
  OBVIOUS
<1>1. ASSUME NEW c \in Call, Begins(c) \/ GoesOn(c) PROVE DriverTypes' /\ Starts'
  <2>1. UNCHANGED <<browser, driver, drivers, browsers, mine, made>>
    BY <1>1, CallsDoNotConnect DEF connector
  <2>2. on' = on
    BY <1>1, Began, WentOn DEF registry
  <2>3. \A g \in Handler : hpc'[g] \in {"starting", "joining"} => hpc[g] \in {"starting", "joining"}
    BY <1>1, CallsDoNotConnect DEF Connecting
  <2> QED
    BY <2>1, <2>2, <2>3, StartsStay DEF DriverTypes
<1>2. ASSUME NEW h \in Handler, HandlerStep(h) PROVE DriverTypes' /\ Starts'
  BY <1>2, HandlerDriverTypes, HandlerStarts
<1>3. CASE GatewayRestarts
  <2>1. \A g \in Handler : hpc'[g] \notin {"starting", "joining"}
    BY <1>3, Restarted DEF Reply
  <2>2. UNCHANGED <<on, mine, made>> /\ browser' = 0 /\ driver' = 0 /\ drivers' = {} /\ browsers' = {}
    BY <1>3, Restarted
  <2> QED
    BY <2>1, <2>2, BrowserAssumption DEF DriverTypes, Starts
<1>4. ASSUME NEW d \in browsers, BrowserLost(d) PROVE DriverTypes' /\ Starts'
  <2>1. UNCHANGED <<hpc, browser, driver, drivers, mine, made, on>> /\ browsers' \subseteq browsers
    BY <1>4 DEF BrowserLost, LoseBrowsers
  <2> QED
    BY <2>1, StartsStay DEF DriverTypes
<1>5. CASE UNCHANGED vars
  BY <1>5, StartsStay DEF vars, connector, registry, DriverTypes
<1> QED
  BY <1>1, <1>2, <1>3, <1>4, <1>5 DEF Next, Begins, GoesOn

----------------------------------------------------------------------------
(* The drivers that run.                                                   *)

Alone == \A g, h \in Handler : hpc[g] \in Connecting /\ hpc[h] \in Connecting => g = h

Idle == \A h \in Handler : hpc[h] \notin Connecting

\* What the connector holds while nobody connects: a driver with its browser, or nothing.
AtRest == browser = driver /\ drivers = {driver} \ {0} /\ browsers = drivers

\* What it holds while handler h connects.
AtWork(h) ==
  /\ browser = 0 /\ browsers = {} /\ hpc[h] # "clearing"
  /\ hpc[h] = "starting" => driver = 0 /\ drivers = {mine[h[1]]}
  /\ hpc[h] = "joining" => driver = mine[h[1]] /\ drivers = {mine[h[1]]}
  /\ hpc[h] = "dropping" => drivers \subseteq {driver}
  /\ hpc[h] = "forgetting" => drivers = {}

\* What the connector holds while one handler at most connects.
Held ==
  ~raced => Alone /\ (Idle => AtRest) /\ \A h \in Handler : hpc[h] \in Connecting => AtWork(h)

\* While no handler enters, leaves or takes a step of the connector, Held stays.
LEMMA HeldStay ==
  ASSUME Held, UNCHANGED <<browser, driver, drivers, browsers, mine, raced>>,
         \A g \in Handler : hpc[g] \in Connecting \/ hpc'[g] \in Connecting => hpc'[g] = hpc[g]
  PROVE  Held'
<1> SUFFICES ASSUME ~raced' PROVE Alone' /\ (Idle' => AtRest') /\ \A h \in Handler : hpc'[h] \in Connecting => AtWork(h)'
  BY DEF Held
<1>1. Alone /\ (Idle => AtRest) /\ \A h \in Handler : hpc[h] \in Connecting => AtWork(h)
  BY DEF Held
<1>2. Alone'
  BY <1>1 DEF Alone
<1>3. Idle' => AtRest'
  BY <1>1 DEF Idle, AtRest
<1>4. \A h \in Handler : hpc'[h] \in Connecting => AtWork(h)'
  BY <1>1 DEF AtWork
<1> QED
  BY <1>2, <1>3, <1>4

\* A step of the one handler that connects, to a step at which Held claims what is true.
LEMMA HeldMove ==
  ASSUME Typed, Held, NEW h \in Handler, NEW to, HGoto(h, to), ~raced',
         \A g \in Handler : hpc[g] \in Connecting => g = h,
         to \in Connecting => AtWork(h)', to \notin Connecting => AtRest'
  PROVE  Held'
<1>1. \A g \in Handler : hpc'[g] = IF g = h THEN to ELSE hpc[g]
  BY DEF HGoto, Typed
<1>2. \A g \in Handler : hpc'[g] \in Connecting => g = h
  BY <1>1
<1>3. Alone'
  BY <1>2 DEF Alone
<1>4. Idle' => AtRest'
  BY <1>1 DEF Idle
<1>5. \A g \in Handler : hpc'[g] \in Connecting => AtWork(g)'
  BY <1>1, <1>2
<1> QED
  BY <1>3, <1>4, <1>5 DEF Held

\* A step of a handler keeps Held.
LEMMA HandlerHeld ==
  ASSUME Typed, Stages, Kinds, DriverTypes, Starts, Held, NEW h \in Handler, HandlerStep(h)
  PROVE  Held'
<1> SUFFICES ASSUME ~raced' PROVE Held'
  BY DEF Held
<1>c. Connecting = {"starting", "joining", "dropping", "clearing", "forgetting"}
  BY DEF Connecting
<1>h. h[1] \in Call /\ mine[h[1]] \in 0..MaxDrivers
  BY HandlerFacts DEF DriverTypes
<1>t. ASSUME NEW to, HGoto(h, to) PROVE hpc'[h] = to
  BY <1>t DEF HGoto, Typed
<1>r. ~raced
  <2>1. raced' = raced \/ (raced' = (raced \/ \E g \in Handler : hpc[g] \in Connecting))
    BY DEF HandlerStep, Connect, Started, StartFails, Join, JoinFails, Drop, Clear, Forget,
           NewContext, NewPage, Get, Act, Snapshot, CloseContext, Delete, history
  <2> QED
    BY <2>1
<1>0. Alone /\ (Idle => AtRest) /\ \A g \in Handler : hpc[g] \in Connecting => AtWork(g)
  BY <1>r DEF Held
<1>a. hpc[h] \in Connecting => AtWork(h) /\ \A g \in Handler : hpc[g] \in Connecting => g = h
  BY <1>0 DEF Alone
<1>d. drivers \subseteq 1..made /\ made \in Nat /\ 0 \notin drivers
  BY BrowserAssumption DEF DriverTypes
<1>1. CASE Connect(h)
  <2>1. hpc[h] = "connect" /\ UNCHANGED <<browser, driver, browsers>>
    BY <1>1 DEF Connect
  <2>2. CASE browser \in browsers /\ Connected(h) /\ UNCHANGED <<drivers, made, raced>>
    <3>1. Idle
      BY <1>0, <2>2 DEF Idle, AtWork
    <3>2. \E to \in {"context", "ok"} : HGoto(h, to)
      BY <2>2 DEF Connected
    <3>3. AtRest'
      BY <1>0, <2>1, <2>2, <3>1 DEF AtRest
    <3> QED
      BY <1>c, <3>1, <3>2, <3>3, HeldMove DEF Idle
  <2>3. CASE /\ browser \notin browsers /\ made < MaxDrivers /\ made' = made + 1
             /\ drivers' = drivers \cup {made + 1} /\ mine' = [mine EXCEPT ![h[1]] = made + 1]
             /\ HGoto(h, "starting")
             /\ raced' = (raced \/ \E g \in Handler : hpc[g] \in Connecting)
    <3>1. Idle
      BY <2>3 DEF Idle
    <3>2. AtRest
      BY <1>0, <3>1
    <3>3. driver = 0 /\ drivers = {} /\ browser = 0 /\ browsers = {}
      BY <2>3, <3>2 DEF AtRest
    <3>4. mine'[h[1]] = made + 1
      BY <1>h, <2>3 DEF DriverTypes
    <3>5. hpc'[h] = "starting"
      BY <1>t, <2>3
    <3>6. AtWork(h)'
      BY <2>1, <2>3, <3>3, <3>4, <3>5 DEF AtWork
    <3> QED
      BY <1>c, <2>3, <3>1, <3>6, HeldMove DEF Idle
  <2> QED
    BY <1>1, <2>2, <2>3 DEF Connect
<1>2. CASE Started(h)
  <2>1. hpc[h] = "starting" /\ HGoto(h, "joining") /\ driver' = mine[h[1]]
        /\ UNCHANGED <<browser, drivers, browsers, mine, made>>
    BY <1>2 DEF Started
  <2>2. AtWork(h)'
    BY <1>a, <1>c, <1>t, <2>1 DEF AtWork
  <2> QED
    BY <1>a, <1>c, <2>1, <2>2, HeldMove
<1>3. CASE Join(h)
  <2>1. /\ hpc[h] = "joining" /\ Connected(h)
        /\ browsers' = browsers \cup {mine[h[1]]} /\ browser' = mine[h[1]]
        /\ UNCHANGED <<driver, drivers, mine, made>>
    BY <1>3 DEF Join
  <2>2. AtWork(h) /\ mine[h[1]] # 0
    BY <1>a, <1>c, <1>d, <2>1 DEF Starts
  <2>3. AtRest'
    BY <2>1, <2>2 DEF AtRest, AtWork
  <2>4. \E to \in {"context", "ok"} : HGoto(h, to)
    BY <2>1 DEF Connected
  <2> QED
    BY <1>a, <1>c, <2>1, <2>3, <2>4, HeldMove
<1>4. CASE StartFails(h)
  <2>1. /\ hpc[h] = "starting" /\ HGoto(h, "dropping") /\ drivers' = drivers \ {mine[h[1]]}
        /\ UNCHANGED <<browser, driver, browsers, mine>>
    BY <1>4 DEF StartFails
  <2>2. AtWork(h)'
    BY <1>a, <1>c, <1>t, <2>1 DEF AtWork
  <2> QED
    BY <1>a, <1>c, <2>1, <2>2, HeldMove
<1>5. CASE JoinFails(h)
  <2>1. /\ hpc[h] = "joining" /\ HGoto(h, "dropping")
        /\ UNCHANGED <<browser, driver, drivers, browsers, mine>>
    BY <1>5 DEF JoinFails, connector
  <2>2. AtWork(h)'
    BY <1>a, <1>c, <1>t, <2>1 DEF AtWork
  <2> QED
    BY <1>a, <1>c, <2>1, <2>2, HeldMove
<1>6. CASE Drop(h)
  <2>1. hpc[h] = "dropping" /\ UNCHANGED <<browser, driver, mine>>
    BY <1>6 DEF Drop
  <2>2. browser = 0 /\ browsers = {} /\ drivers \subseteq {driver}
    BY <1>a, <1>c, <2>1 DEF AtWork
  <2>3. LoseBrowsers({driver}) /\ Stop(h)
    BY <1>6, <2>2 DEF Drop
  <2>4. browsers' = {} /\ drivers' = {}
    BY <2>2, <2>3 DEF LoseBrowsers, Stop
  <2>5. CASE driver = 0
    <3>1. HGoto(h, "error") /\ AtRest'
      BY <2>1, <2>2, <2>3, <2>4, <2>5 DEF Stop, AtRest
    <3> QED
      BY <1>a, <1>c, <2>1, <3>1, HeldMove
  <2>6. CASE driver # 0
    <3>1. HGoto(h, "forgetting")
      BY <2>3, <2>6 DEF Stop
    <3>2. AtWork(h)'
      BY <1>t, <2>1, <2>2, <2>4, <3>1 DEF AtWork
    <3> QED
      BY <1>a, <1>c, <2>1, <3>1, <3>2, HeldMove
  <2> QED
    BY <2>5, <2>6
<1>7. CASE Clear(h)
  BY <1>7, <1>a, <1>c DEF Clear, AtWork
<1>8. CASE Forget(h)
  <2>1. /\ hpc[h] = "forgetting" /\ HGoto(h, "error") /\ driver' = 0
        /\ UNCHANGED <<browser, drivers, browsers>>
    BY <1>8 DEF Forget
  <2>2. AtRest'
    BY <1>a, <1>c, <2>1 DEF AtWork, AtRest
  <2> QED
    BY <1>a, <1>c, <2>1, <2>2, HeldMove
<1>9. CASE NewContext(h) \/ NewPage(h) \/ Get(h) \/ Act(h) \/ Snapshot(h) \/ CloseContext(h) \/ Delete(h)
  <2>1. UNCHANGED <<browser, driver, drivers, browsers, mine, raced>> /\ hpc[h] \notin Connecting
    BY <1>9, <1>c DEF NewContext, NewPage, Get, Act, Snapshot, CloseContext, Delete, connector, history
  <2>2. \E to \in {"page", "snapshot", "act", "close", "delete", "ok", "error", "denied"} : HGoto(h, to)
    BY <1>9 DEF NewContext, NewPage, Get, Act, Snapshot, Fails, CloseContext, Delete
  <2>3. hpc'[h] \notin Connecting
    BY <1>c, <1>t, <2>2
  <2> QED
    BY <2>1, <2>3, Turned, HeldStay
<1> QED
  BY <1>1, <1>2, <1>3, <1>4, <1>5, <1>6, <1>7, <1>8, <1>9 DEF HandlerStep

\* Every step keeps Held.
LEMMA NextHeld ==
  Typed /\ Stages /\ HistoryTypes /\ Kinds /\ DriverTypes /\ Starts /\ Held /\ [Next]_vars => Held'
<1> SUFFICES ASSUME Typed, Stages, HistoryTypes, Kinds, DriverTypes, Starts, Held, [Next]_vars
             PROVE  Held'
  OBVIOUS
<1>1. ASSUME NEW c \in Call, Begins(c) \/ GoesOn(c) PROVE Held'
  BY <1>1, CallsDoNotConnect, HeldStay DEF connector
<1>2. ASSUME NEW h \in Handler, HandlerStep(h) PROVE Held'
  BY <1>2, HandlerHeld
<1>3. CASE GatewayRestarts
  <2>1. \A g \in Handler : hpc'[g] \notin Connecting
    BY <1>3, Restarted DEF Reply, Connecting
  <2>2. AtRest'
    BY <1>3, Restarted DEF AtRest
  <2> QED
    BY <2>1, <2>2 DEF Held, Alone, Idle
<1>4. ASSUME NEW d \in browsers, BrowserLost(d) PROVE Held'
  BY <1>4 DEF BrowserLost, Held
<1>5. CASE UNCHANGED vars
  BY <1>5, HeldStay DEF vars, connector, history
<1> QED
  BY <1>1, <1>2, <1>3, <1>4, <1>5 DEF Next, Begins, GoesOn

----------------------------------------------------------------------------
(* What a step of a call, of a handler or of the surroundings leaves alone. *)

\* Where a reply leads that is not an error.
LEMMA Proceeded ==
  ASSUME Typed, NEW c \in Call, Proceed(c)
  PROVE  /\ UNCHANGED <<row, recorded, faults>>
         /\ \/ pc[c] = "create" /\ hpc[<<c, "create">>] = "ok" /\ pc'[c] \in {"navigate", "insert"}
            \/ pc[c] = "navigate" /\ hpc[<<c, "perform">>] = "ok" /\ pc'[c] = "insert"
            \/ pc[c] = "perform" /\ hpc[<<c, "perform">>] = "ok" /\ pc'[c] = "record"
            \/ pc[c] = "close" /\ hpc[<<c, "close">>] = "ok" /\ pc'[c] = "mark"
            \/ pc[c] = "undo" /\ hpc[<<c, "close">>] = "ok" /\ pc'[c] = "failed"
            \/ pc[c] = "probe" /\ hpc[<<c, "probe">>] = "ok" /\ pc'[c] = "done"
<1>g. ASSUME NEW to, Goto(c, to) PROVE pc'[c] = to
  BY <1>g DEF Goto, Typed
<1>1. Waiting(c) /\ hpc[<<c, Awaits(c)>>] = "ok" /\ UNCHANGED <<row, recorded, faults>>
  BY DEF Proceed, database, history
<1>2. pc[c] \in {"create", "navigate", "perform", "close", "undo", "probe"}
  BY <1>1 DEF Waiting
<1>3. /\ pc[c] = "create" => pc'[c] \in {"navigate", "insert"}
      /\ pc[c] = "navigate" => pc'[c] = "insert"
      /\ pc[c] = "perform" => pc'[c] = "record"
      /\ pc[c] = "close" => pc'[c] = "mark"
      /\ pc[c] = "undo" => pc'[c] = "failed"
      /\ pc[c] = "probe" => pc'[c] = "done"
  BY <1>g DEF Proceed, Request
<1>4. /\ pc[c] \in {"navigate", "perform"} => Awaits(c) = "perform"
      /\ pc[c] \in {"close", "undo"} => Awaits(c) = "close"
      /\ pc[c] \in {"create", "probe"} => Awaits(c) = pc[c]
  BY DEF Awaits
<1> QED
  BY <1>1, <1>2, <1>3, <1>4

\* Where a reply leads that is an error.
LEMMA WasRefused ==
  ASSUME Typed, NEW c \in Call, Refused(c)
  PROVE  /\ UNCHANGED <<row, recorded, faults>>
         /\ \/ pc[c] = "create" /\ hpc[<<c, "create">>] \in Reply \ {"ok"} /\ pc'[c] = "failed"
            \/ pc[c] = "navigate" /\ hpc[<<c, "perform">>] \in Reply \ {"ok"} /\ pc'[c] = "undo"
            \/ pc[c] = "perform" /\ hpc[<<c, "perform">>] \in Reply \ {"ok"} /\ pc'[c] = "failed"
            \/ /\ pc[c] \in {"close", "undo"} /\ hpc[<<c, "close">>] \in Reply \ {"ok"}
               /\ pc'[c] = "failed"
            \/ pc[c] = "probe" /\ hpc[<<c, "probe">>] \in Reply \ {"ok"} /\ pc'[c] = "failed"
<1>1. /\ Waiting(c) /\ hpc[<<c, Awaits(c)>>] \in Reply \ {"ok"} /\ Raise(c)
      /\ UNCHANGED <<row, recorded, faults>>
  BY DEF Refused, database, history
<1>2. pc[c] \in {"create", "navigate", "perform", "close", "undo", "probe"}
  BY <1>1 DEF Waiting
<1>3. pc'[c] = IF pc[c] = "navigate" THEN "undo" ELSE "failed"
  BY <1>1, <1>2, Raised
<1>4. /\ pc[c] \in {"navigate", "perform"} => Awaits(c) = "perform"
      /\ pc[c] \in {"close", "undo"} => Awaits(c) = "close"
      /\ pc[c] \in {"create", "probe"} => Awaits(c) = pc[c]
  BY DEF Awaits
<1> QED
  BY <1>1, <1>2, <1>3, <1>4

\* The handlers of a call that goes on, one by one.
LEMMA WentOnHandlers ==
  ASSUME Typed, NEW c \in Call, GoesOn(c)
  PROVE  \A d \in Call :
           /\ hpc'[<<d, "create">>] = hpc[<<d, "create">>]
           /\ hpc'[<<d, "close">>] =
                IF d = c /\ pc'[c] = "undo" THEN "get" ELSE hpc[<<d, "close">>]
           /\ hpc'[<<d, "perform">>] =
                IF d = c /\ pc'[c] = "navigate" THEN "get" ELSE hpc[<<d, "perform">>]
<1>1. \A d \in Call, o \in Op : hpc'[<<d, o>>] =
        IF d = c /\ (\/ o = "close" /\ pc'[c] = "undo"
                     \/ o = "perform" /\ pc'[c] = "navigate")
          THEN "get" ELSE hpc[<<d, o>>]
  BY WentOn
<1>2. "create" \in Op /\ "close" \in Op /\ "perform" \in Op
  BY Ops
<1>3. \A d \in Call : hpc'[<<d, "create">>] = hpc[<<d, "create">>]
  BY <1>1, <1>2
<1>4. \A d \in Call : hpc'[<<d, "close">>] =
        IF d = c /\ pc'[c] = "undo" THEN "get" ELSE hpc[<<d, "close">>]
  BY <1>1, <1>2
<1>5. \A d \in Call : hpc'[<<d, "perform">>] =
        IF d = c /\ pc'[c] = "navigate" THEN "get" ELSE hpc[<<d, "perform">>]
  BY <1>1, <1>2
<1> QED
  BY <1>3, <1>4, <1>5

\* Each of these steps is a step of the system.
LEMMA StepsAreNext ==
  /\ \A c \in Call : Begins(c) \/ GoesOn(c) => [Next]_vars
  /\ \A h \in Handler : HandlerStep(h) => [Next]_vars
  BY DEF Next, Begins, GoesOn

\* What went wrong is remembered with the session, if the call has one.
LEMMA WentWrong ==
  ASSUME Typed, HistoryTypes, NEW c \in Call, TimeOut(c) \/ DatabaseFails(c) \/ ApiDies(c)
  PROVE  /\ recorded' = recorded
         /\ target[c] \in Call => faults'[target[c]] \cap {"timeout", "died", "database"} # {}
         /\ (TimeOut(c) \/ ApiDies(c)) /\ target[c] \in Call =>
              faults'[target[c]] \cap {"timeout", "died"} # {}
         /\ TimeOut(c) \/ ApiDies(c) => row' = row
<1>1. ASSUME NEW what \in FaultKind, Fault({target[c]}, what), target[c] \in Call
      PROVE  what \in faults'[target[c]]
  BY <1>1 DEF Fault
<1>2. ASSUME TimeOut(c)
      PROVE  /\ UNCHANGED <<row, recorded>>
             /\ target[c] \in Call => "timeout" \in faults'[target[c]]
  BY <1>1, <1>2, FaultKinds DEF TimeOut, database
<1>3. ASSUME ApiDies(c)
      PROVE  /\ UNCHANGED <<row, recorded>>
             /\ target[c] \in Call => "died" \in faults'[target[c]]
  BY <1>1, <1>3, FaultKinds DEF ApiDies, database
<1>4. ASSUME DatabaseFails(c)
      PROVE  /\ recorded' = recorded
             /\ target[c] \in Call => "database" \in faults'[target[c]]
  BY <1>1, <1>4, FaultKinds DEF DatabaseFails
<1> QED
  BY <1>2, <1>3, <1>4

\* No step of a call touches the registry.
LEMMA CallsKeepRegistry ==
  ASSUME Typed, Stages, HistoryTypes, NEW c \in Call, Begins(c) \/ GoesOn(c)
  PROVE  /\ UNCHANGED <<sessions, context, on, browsers, performed>>
         /\ \A d \in Call : /\ hpc[<<d, "create">>] # "none" => hpc'[<<d, "create">>] = hpc[<<d, "create">>]
                            /\ hpc'[<<d, "create">>] \in {"none", "connect", hpc[<<d, "create">>]}
<1>1. CASE Begins(c)
  <2>1. PICK op \in Op : \A d \in Call, o \in Op : hpc'[<<d, o>>] =
          IF d = c /\ o = op THEN IF op \in {"create", "probe"} THEN "connect" ELSE "get"
                             ELSE hpc[<<d, o>>]
    BY <1>1, Began
  <2>2. \A o \in Op : hpc[<<c, o>>] = "none"
    BY <1>1, Began
  <2>3. \A d \in Call : hpc'[<<d, "create">>] =
          IF d = c /\ "create" = op THEN "connect" ELSE hpc[<<d, "create">>]
    BY <2>1, Ops
  <2>4. hpc[<<c, "create">>] = "none"
    BY <2>2, Ops
  <2>5. UNCHANGED <<sessions, context, on, browsers, performed>>
    BY <1>1, Began DEF registry, connector, history
  <2> QED
    BY <2>3, <2>4, <2>5
<1>2. CASE GoesOn(c)
  <2>1. \A d \in Call : hpc'[<<d, "create">>] = hpc[<<d, "create">>]
    BY <1>2, WentOn, Ops
  <2> QED
    BY <1>2, <2>1, WentOn DEF registry, connector
<1> QED
  BY <1>1, <1>2

\* A create handler that has opened its context does not go back.
LEMMA CreateGoesOn ==
  ASSUME Typed, NEW h \in Handler, HandlerStep(h), NEW s \in Call,
         hpc[<<s, "create">>] \in {"page", "snapshot"} \cup Reply
  PROVE  /\ hpc'[<<s, "create">>] \in {"page", "snapshot"} \cup Reply
         /\ hpc[<<s, "create">>] # "page" => hpc'[<<s, "create">>] # "page"
<1>0. <<s, "create">> \in Handler
  BY HandlerFacts DEF Op
<1>t. ASSUME NEW to, HGoto(h, to) PROVE hpc'[h] = to
  BY <1>t DEF HGoto, Typed
<1>1. CASE h # <<s, "create">>
  BY <1>0, <1>1, Turned
<1>2. CASE h = <<s, "create">> /\ hpc[h] = "page"
  <2>1. HGoto(h, "snapshot") \/ HGoto(h, "error")
    BY <1>2 DEF HandlerStep, Connect, Started, StartFails, Join, JoinFails, Drop, Clear, Forget,
                NewContext, NewPage, Get, Act, Snapshot, Fails, CloseContext, Delete
  <2> QED
    BY <1>2, <1>t, <2>1 DEF Reply
<1>3. CASE h = <<s, "create">> /\ hpc[h] = "snapshot"
  <2>1. HGoto(h, "ok") \/ HGoto(h, "error")
    BY <1>3 DEF HandlerStep, Connect, Started, StartFails, Join, JoinFails, Drop, Clear, Forget,
                NewContext, NewPage, Get, Act, Snapshot, Fails, CloseContext, Delete
  <2> QED
    BY <1>3, <1>t, <2>1 DEF Reply
<1>4. CASE h = <<s, "create">> /\ hpc[h] \in Reply
  BY <1>4, Turned
<1> QED
  BY <1>1, <1>2, <1>3, <1>4

\* Losing browsers ends the contexts that are in them, and no other.
LEMMA LostContexts ==
  ASSUME Typed, NEW D, LoseBrowsers(D)
  PROVE  /\ browsers' = browsers \ D
         /\ \A s \in Call : context'[s] =
              IF context[s] = "open" /\ on[s] \in D THEN "closed" ELSE context[s]
  BY DEF LoseBrowsers, Typed

----------------------------------------------------------------------------
(* Contexts.                                                               *)

\* A session that is registered has a context; a context is opened by the create handler
\* of its session; and one that is open is in a connected browser.
Contexts ==
  \A s \in Call :
    /\ s \in sessions => context[s] # "none"
    /\ context[s] # "none" => hpc[<<s, "create">>] \in {"page", "snapshot"} \cup Reply
    /\ context[s] = "open" => on[s] \in browsers

\* While contexts only close and their handlers only go on, Contexts stays.
LEMMA ContextsStay ==
  ASSUME Contexts, sessions' \subseteq sessions, on' = on,
         \A s \in Call : context'[s] = context[s] \/ context'[s] = "closed",
         \A s \in Call : context'[s] # "none" =>
           context[s] # "none" \/ hpc[<<s, "create">>] \in {"page", "snapshot"} \cup Reply,
         \A s \in Call : context'[s] = "open" /\ on[s] \in browsers => on[s] \in browsers',
         \A s \in Call : hpc[<<s, "create">>] \in {"page", "snapshot"} \cup Reply =>
           hpc'[<<s, "create">>] \in {"page", "snapshot"} \cup Reply
  PROVE  Contexts'
<1>1. ASSUME NEW s \in Call
      PROVE  /\ s \in sessions' => context'[s] # "none"
             /\ context'[s] # "none" => hpc'[<<s, "create">>] \in {"page", "snapshot"} \cup Reply
             /\ context'[s] = "open" => on'[s] \in browsers'
  BY DEF Contexts
<1> QED
  BY <1>1 DEF Contexts

\* A step of a handler keeps Contexts.
LEMMA HandlerContexts ==
  ASSUME Typed, Stages, Closing, DriverTypes, Contexts, NEW h \in Handler, HandlerStep(h)
  PROVE  Contexts'
<1>h. h[1] \in Call /\ h[2] \in Op /\ h = <<h[1], h[2]>> /\ Serves(h[2], hpc[h])
  BY HandlerFacts DEF Stages
<1>p. \A s \in Call : hpc[<<s, "create">>] \in {"page", "snapshot"} \cup Reply =>
        hpc'[<<s, "create">>] \in {"page", "snapshot"} \cup Reply
  BY CreateGoesOn
<1>t. ASSUME NEW to, HGoto(h, to) PROVE hpc'[h] = to
  BY <1>t DEF HGoto, Typed
<1>1. CASE \/ Connect(h) \/ Started(h) \/ StartFails(h) \/ Join(h) \/ JoinFails(h) \/ Forget(h)
           \/ Get(h) \/ Act(h) \/ Snapshot(h)
  <2>1. UNCHANGED <<sessions, context, on>> /\ browsers \subseteq browsers'
    BY <1>1 DEF Connect, Started, StartFails, Join, JoinFails, Forget, Get, Act, Snapshot, registry,
                connector
  <2> QED
    BY <1>p, <2>1, ContextsStay
<1>2. CASE Drop(h) \/ Clear(h)
  <2>1. UNCHANGED <<sessions, on>> /\ \E D : LoseBrowsers(D)
    BY <1>2 DEF Drop, Clear
  <2>2. PICK D : LoseBrowsers(D)
    BY <2>1
  <2>3. /\ browsers' = browsers \ D
        /\ \A s \in Call : context'[s] =
             IF context[s] = "open" /\ on[s] \in D THEN "closed" ELSE context[s]
    BY <2>2, LostContexts
  <2> QED
    BY <1>p, <2>1, <2>3, ContextsStay
<1>3. CASE NewContext(h)
  <2>1. h[2] = "create" /\ hpc[h] = "context" /\ UNCHANGED <<sessions, browsers>>
    BY <1>3, <1>h DEF NewContext, Serves, connector
  <2>2. CASE /\ mine[h[1]] \in browsers /\ HGoto(h, "page")
             /\ context' = [context EXCEPT ![h[1]] = "open"]
             /\ on' = [on EXCEPT ![h[1]] = mine[h[1]]]
    <3>1. /\ context'[h[1]] = "open" /\ on'[h[1]] \in browsers'
          /\ hpc'[<<h[1], "create">>] = "page"
      BY <1>h, <1>t, <2>1, <2>2 DEF Typed, DriverTypes
    <3>2. \A s \in Call : s # h[1] => context'[s] = context[s] /\ on'[s] = on[s]
      BY <2>2 DEF Typed, DriverTypes
    <3> QED
      BY <1>p, <2>1, <3>1, <3>2 DEF Contexts
  <2>3. CASE UNCHANGED <<context, on>>
    BY <1>p, <2>1, <2>3, ContextsStay
  <2> QED
    BY <1>3, <2>2, <2>3 DEF NewContext
<1>4. CASE NewPage(h)
  <2>1. UNCHANGED <<context, on, browsers>>
    BY <1>4 DEF NewPage, connector
  <2>2. sessions' = sessions \/ (context[h[1]] = "open" /\ sessions' = sessions \cup {h[1]})
    BY <1>4 DEF NewPage
  <2> QED
    BY <1>p, <2>1, <2>2 DEF Contexts
<1>5. CASE CloseContext(h)
  <2>1. h[2] = "close" /\ hpc[h] = "close" /\ UNCHANGED <<sessions, on, browsers>>
    BY <1>5, <1>h DEF CloseContext, Serves, connector
  <2>2. target[h[1]] \in Call /\ Past(target[h[1]])
    BY <1>h, <2>1 DEF Closing
  <2>3. \/ \A s \in Call : context'[s] = IF s = target[h[1]] THEN "closed" ELSE context[s]
        \/ context' = context
    BY <1>5 DEF CloseContext, Typed
  <2> QED
    BY <1>p, <2>1, <2>2, <2>3, ContextsStay DEF Past
<1>6. CASE Delete(h)
  <2>1. UNCHANGED <<context, on, browsers>> /\ sessions' \subseteq sessions
    BY <1>6 DEF Delete, connector
  <2> QED
    BY <1>p, <2>1, ContextsStay
<1> QED
  BY <1>1, <1>2, <1>3, <1>4, <1>5, <1>6 DEF HandlerStep

\* Every step keeps Contexts.
LEMMA NextContexts ==
  Typed /\ Stages /\ Closing /\ HistoryTypes /\ DriverTypes /\ Contexts /\ [Next]_vars => Contexts'
<1> SUFFICES ASSUME Typed, Stages, Closing, HistoryTypes, DriverTypes, Contexts, [Next]_vars
             PROVE  Contexts'
  OBVIOUS
<1>1. ASSUME NEW c \in Call, Begins(c) \/ GoesOn(c) PROVE Contexts'
  <2>1. /\ UNCHANGED <<sessions, context, on, browsers>>
        /\ \A d \in Call : hpc[<<d, "create">>] # "none" => hpc'[<<d, "create">>] = hpc[<<d, "create">>]
    BY <1>1, CallsKeepRegistry
  <2> QED
    BY <2>1, ContextsStay DEF Reply
<1>2. ASSUME NEW h \in Handler, HandlerStep(h) PROVE Contexts'
  BY <1>2, HandlerContexts
<1>3. CASE GatewayRestarts
  <2>1. \A s \in Call : <<s, "create">> \in Handler
    BY HandlerFacts DEF Op
  <2>2. \A s \in Call : hpc[<<s, "create">>] # "none" => hpc'[<<s, "create">>] \in Reply
    BY <1>3, <2>1, Restarted DEF Reply
  <2>3. \A s \in Call : context'[s] # "open"
    BY <1>3, Restarted DEF Contexts
  <2> QED
    BY <1>3, <2>2, <2>3, Restarted DEF Contexts, Reply
<1>4. ASSUME NEW d \in browsers, BrowserLost(d) PROVE Contexts'
  <2>1. UNCHANGED <<sessions, on, hpc>> /\ LoseBrowsers({d})
    BY <1>4 DEF BrowserLost
  <2>2. /\ browsers' = browsers \ {d}
        /\ \A s \in Call : context'[s] =
             IF context[s] = "open" /\ on[s] \in {d} THEN "closed" ELSE context[s]
    BY <2>1, LostContexts
  <2> QED
    BY <2>1, <2>2, ContextsStay
<1>5. CASE UNCHANGED vars
  BY <1>5, ContextsStay DEF vars, connector, registry
<1> QED
  BY <1>1, <1>2, <1>3, <1>4, <1>5 DEF Next, Begins, GoesOn

----------------------------------------------------------------------------
(* What a call, its row and its handlers know of each other.               *)

\* A row is inserted once the gateway has created the session; whoever uses or closes a
\* session found its row; and who undoes a creation has no row to insert any more.
ReachedBy(c) ==
  /\ row[c] # "none" => hpc[<<c, "create">>] = "ok" /\ pc[c] \notin {"create", "navigate", "insert"}
  /\ pc[c] \in {"navigate", "insert", "undo"} => hpc[<<c, "create">>] = "ok"
  /\ kind[c] = "create" /\ pc[c] \in {"record", "done"} => row[c] # "none"
  /\ kind[c] \in {"act", "close"} => row[target[c]] # "none"
  /\ kind[c] = "create" /\ hpc[<<c, "close">>] # "none" =>
       hpc[<<c, "create">>] = "ok" /\ pc[c] \in {"undo", "failed", "dead"}

Reached == \A c \in Call : ReachedBy(c)

\* While rows and calls stay, replies stay and no handler begins, Reached stays.
LEMMA ReachedStay ==
  ASSUME Reached, UNCHANGED <<row, pc, kind, target>>,
         \A g \in Handler : /\ hpc[g] = "ok" => hpc'[g] = "ok"
                            /\ hpc[g] = "none" => hpc'[g] = "none"
  PROVE  Reached'
<1>1. \A c \in Call : /\ hpc[<<c, "create">>] = "ok" => hpc'[<<c, "create">>] = "ok"
                      /\ hpc[<<c, "close">>] = "none" => hpc'[<<c, "close">>] = "none"
  BY Ops DEF Handler
<1>2. \A c \in Call : ReachedBy(c) => ReachedBy(c)'
  BY <1>1 DEF ReachedBy
<1> QED
  BY <1>2 DEF Reached

\* A call that begins keeps Reached.
LEMMA ReachedBegin ==
  ASSUME Typed, Stages, HistoryTypes, Kinds, Reached, NEW c \in Call, Begins(c)
  PROVE  Reached'
<1>1. PICK op \in Op :
        /\ pc'[c] = op /\ kind'[c] = IF op = "perform" THEN "act" ELSE op
        /\ op \in {"perform", "close"} => target'[c] \in Call /\ row[target'[c]] # "none"
        /\ \A d \in Call, o \in Op : hpc'[<<d, o>>] =
             IF d = c /\ o = op THEN IF op \in {"create", "probe"} THEN "connect" ELSE "get"
                                ELSE hpc[<<d, o>>]
  BY Began
<1>2. \A d \in Call : d # c => pc'[d] = pc[d] /\ kind'[d] = kind[d] /\ target'[d] = target[d]
  BY Began
<1>3. \A o \in Op : hpc[<<c, o>>] = "none"
  BY Began
<1>4. row' = row /\ row[c] = "none"
  <2>1. hpc[<<c, "create">>] = "none"
    BY <1>3, Ops
  <2>2. row' = row
    BY Began DEF database
  <2> QED
    BY <2>1, <2>2 DEF Reached, ReachedBy
<1>5. op \in {"create", "perform", "close", "probe"}
  BY Ops
<1>6. ReachedBy(c)'
  <2>1. op = "create" => hpc'[<<c, "close">>] = "none"
    BY <1>1, <1>3, Ops
  <2> QED
    BY <1>1, <1>4, <1>5, <2>1 DEF ReachedBy
<1>7. \A d \in Call : d # c => (ReachedBy(d) => ReachedBy(d)')
  <2>1. \A d \in Call : d # c => /\ hpc'[<<d, "create">>] = hpc[<<d, "create">>]
                                 /\ hpc'[<<d, "close">>] = hpc[<<d, "close">>]
    BY <1>1, Ops
  <2> QED
    BY <1>2, <1>4, <2>1 DEF ReachedBy
<1> QED
  BY <1>6, <1>7 DEF Reached

\* Rows stay rows, and a row is inserted by the call that created its session.
LEMMA RowsStay ==
  ASSUME Typed, HistoryTypes, Kinds, Reached, NEW c \in Call, GoesOn(c)
  PROVE  /\ \A s \in Call : row[s] # "none" => row'[s] # "none"
         /\ \A s \in Call : row'[s] # "none" => row[s] # "none" \/ (s = c /\ pc[c] = "insert")
<1>1. CASE Proceed(c) \/ Refused(c) \/ TimeOut(c) \/ Record(c) \/ ApiDies(c)
  BY <1>1 DEF Proceed, Refused, TimeOut, Record, ApiDies, database
<1>2. CASE InsertRow(c)
  BY <1>2 DEF InsertRow, Typed
<1>3. CASE DatabaseFails(c)
  BY <1>3 DEF DatabaseFails, Typed
<1>4. CASE MarkClosed(c)
  <2>1. /\ pc[c] = "mark" /\ pc'[c] = "done" /\ row' = [row EXCEPT ![target[c]] = "closed"]
        /\ UNCHANGED <<kind, target>>
    BY <1>4 DEF MarkClosed, Goto, Typed
  <2>2. kind[c] = "close"
    <3>1. kind[c] \in {"none", "create", "act", "close", "probe"}
      BY DEF HistoryTypes
    <3> QED
      BY <2>1, <3>1 DEF Kinds, KindOf, Over
  <2>3. kind[c] = "close" => row[target[c]] # "none"
    BY DEF Reached, ReachedBy
  <2> QED
    BY <2>1, <2>2, <2>3 DEF Typed
<1> QED
  BY <1>1, <1>2, <1>3, <1>4 DEF GoesOn, ApiStep

\* What a call does, from the step it takes.
LEMMA KindFrom ==
  ASSUME HistoryTypes, Kinds, NEW c \in Call
  PROVE  /\ pc[c] \in {"create", "navigate", "undo", "insert"} => kind[c] = "create"
         /\ pc[c] = "record" => kind[c] \in {"create", "act"}
         /\ pc[c] = "perform" => kind[c] = "act"
         /\ pc[c] \in {"close", "mark"} => kind[c] = "close"
         /\ pc[c] = "probe" => kind[c] = "probe"
         /\ pc[c] \notin Over \cup {"new", "probe"} => target[c] \in Call
         /\ kind[c] = "create" => target[c] = c
         /\ kind[c] \in {"create", "act", "close"} => target[c] \in Call
         /\ kind[c] \in {"none", "create", "act", "close", "probe"}
<1>1. kind[c] \in {"none", "create", "act", "close", "probe"}
  BY DEF HistoryTypes
<1>2. KindOf(c)
  BY DEF Kinds
<1> QED
  BY <1>1, <1>2 DEF KindOf, Over

\* A call that goes on keeps what is known of it.
LEMMA ReachedGoOn ==
  ASSUME Typed, HistoryTypes, Kinds, Reached, NEW c \in Call, GoesOn(c)
  PROVE  Reached'
<1>1. UNCHANGED <<kind, target>> /\ \A d \in Call : d # c => pc'[d] = pc[d]
  BY WentOn
<1>2. /\ \A d \in Call : hpc'[<<d, "create">>] = hpc[<<d, "create">>]
      /\ \A d \in Call : hpc'[<<d, "close">>] =
           IF d = c /\ pc'[c] = "undo" THEN "get" ELSE hpc[<<d, "close">>]
  BY WentOn, Ops, ZenonT(60)
<1>3. /\ \A s \in Call : row[s] # "none" => row'[s] # "none"
      /\ \A s \in Call : row'[s] # "none" => row[s] # "none" \/ (s = c /\ pc[c] = "insert")
  BY RowsStay
<1>4. ASSUME NEW d \in Call, d # c PROVE ReachedBy(d)'
  <2>1. ReachedBy(d)
    BY DEF Reached
  <2>2. kind[d] \in {"act", "close"} => target[d] \in Call
    BY KindFrom
  <2> QED
    BY <1>1, <1>2, <1>3, <1>4, <2>1, <2>2 DEF ReachedBy
<1>g. ASSUME NEW to, Goto(c, to) PROVE pc'[c] = to
  BY <1>g DEF Goto, Typed
<1>5. ReachedBy(c)'
  <2>0. ReachedBy(c)
    BY DEF Reached
  <2>k. /\ pc[c] \in {"create", "navigate", "undo", "insert"} => kind[c] = "create"
        /\ pc[c] = "record" => kind[c] \in {"create", "act"}
        /\ pc[c] = "perform" => kind[c] = "act"
        /\ pc[c] \in {"close", "mark"} => kind[c] = "close"
        /\ pc[c] = "probe" => kind[c] = "probe"
        /\ kind[c] \in {"act", "close"} => target[c] \in Call
    BY KindFrom
  <2>1. CASE Proceed(c)
    <3>1. /\ row' = row
          /\ \/ pc[c] = "create" /\ hpc[<<c, "create">>] = "ok" /\ pc'[c] \in {"navigate", "insert"}
             \/ pc[c] = "navigate" /\ pc'[c] = "insert"
             \/ pc[c] = "perform" /\ pc'[c] = "record"
             \/ pc[c] = "close" /\ pc'[c] = "mark"
             \/ pc[c] = "undo" /\ pc'[c] = "failed"
             \/ pc[c] = "probe" /\ pc'[c] = "done"
      BY <2>1, Proceeded
    <3> QED
      BY <1>1, <1>2, <2>0, <2>k, <3>1 DEF ReachedBy
  <2>2. CASE Refused(c)
    <3>1. /\ row' = row
          /\ \/ pc[c] \in {"create", "perform", "close", "undo", "probe"} /\ pc'[c] = "failed"
             \/ pc[c] = "navigate" /\ pc'[c] = "undo"
      BY <2>2, WasRefused
    <3> QED
      BY <1>1, <1>2, <2>0, <2>k, <3>1 DEF ReachedBy
  <2>3. CASE InsertRow(c)
    <3>1. /\ pc[c] = "insert" /\ pc'[c] \in {"record", "done"} /\ row'[c] = "active"
      BY <2>3, <1>g DEF InsertRow, Typed
    <3> QED
      BY <1>1, <1>2, <1>3, <2>0, <2>k, <3>1 DEF ReachedBy
  <2>4. CASE Record(c) \/ MarkClosed(c)
    <3>1. pc[c] \in {"record", "mark"} /\ pc'[c] = "done"
      BY <2>4, <1>g DEF Record, MarkClosed
    <3> QED
      BY <1>1, <1>2, <1>3, <2>0, <2>k, <3>1 DEF ReachedBy
  <2>5. CASE TimeOut(c) \/ DatabaseFails(c)
    <3>1. Raise(c) /\ pc[c] \notin Over \cup {"new"}
      BY <2>5 DEF TimeOut, Waiting, DatabaseFails, Over
    <3>2. pc'[c] = IF pc[c] \in {"navigate", "insert"} \/ (pc[c] = "record" /\ kind[c] = "create")
                     THEN "undo" ELSE "failed"
      BY <3>1, Raised
    <3>3. row'[c] # "none" => row[c] # "none" \/ pc[c] = "insert"
      BY <1>3
    <3> QED
      BY <1>1, <1>2, <1>3, <2>0, <2>k, <3>1, <3>2, <3>3 DEF ReachedBy, Over
  <2>6. CASE ApiDies(c)
    <3>1. pc'[c] = "dead" /\ row' = row
      BY <2>6, <1>g DEF ApiDies, database
    <3> QED
      BY <1>1, <1>2, <2>0, <3>1 DEF ReachedBy
  <2> QED
    BY <2>1, <2>2, <2>3, <2>4, <2>5, <2>6 DEF GoesOn, ApiStep
<1> QED
  BY <1>4, <1>5 DEF Reached

\* Every step keeps Reached.
LEMMA NextReached == Typed /\ Stages /\ HistoryTypes /\ Kinds /\ Reached /\ [Next]_vars => Reached'
<1> SUFFICES ASSUME Typed, Stages, HistoryTypes, Kinds, Reached, [Next]_vars
             PROVE  Reached'
  OBVIOUS
<1>1. ASSUME NEW c \in Call, Begins(c) PROVE Reached'
  BY <1>1, ReachedBegin
<1>2. ASSUME NEW c \in Call, GoesOn(c) PROVE Reached'
  BY <1>2, ReachedGoOn
<1>3. ASSUME NEW h \in Handler, HandlerStep(h) PROVE Reached'
  BY <1>3, Turned, ReachedStay DEF Reply
<1>4. CASE GatewayRestarts
  BY <1>4, Restarted, ReachedStay DEF Reply
<1>5. ASSUME NEW d \in browsers, BrowserLost(d) PROVE Reached'
  BY <1>5, ReachedStay DEF BrowserLost, calls, database
<1>6. CASE UNCHANGED vars
  BY <1>6, ReachedStay DEF vars, calls, database
<1> QED
  BY <1>1, <1>2, <1>3, <1>4, <1>5, <1>6 DEF Next, Begins, GoesOn

\* A handler of a close works on a session that was created.
LEMMA ClosesWhatIs ==
  ASSUME HistoryTypes, Kinds, Reached, NEW c \in Call, hpc[<<c, "close">>] # "none"
  PROVE  target[c] \in Call /\ hpc[<<target[c], "create">>] = "ok"
<1>1. kind[c] \in {"create", "close"}
  BY DEF Kinds, KindOf
<1> QED
  BY <1>1, KindFrom DEF Reached, ReachedBy

----------------------------------------------------------------------------
(* Calls wait for their handlers.                                          *)

Running(h) == hpc[h] \notin Reply \cup {"none"}

Patient(c) == target[c] \in Call /\ faults[target[c]] \cap {"timeout", "died"} = {}

\* A call waits for the handler that works for it, unless it gave up or died.
WaitsFor(c) ==
  Patient(c) =>
    /\ Running(<<c, "create">>) => pc[c] = "create"
    /\ Running(<<c, "perform">>) => pc[c] \in {"perform", "navigate"}
    /\ Running(<<c, "close">>) => pc[c] \in {"close", "undo"}

Waits == \A c \in Call : WaitsFor(c)

\* While calls stay and no handler begins, Waits stays.
LEMMA WaitsStay ==
  ASSUME Waits, UNCHANGED <<pc, target>>,
         \A s \in Call : faults[s] \subseteq faults'[s],
         \A g \in Handler : Running(g)' => Running(g)
  PROVE  Waits'
<1>1. ASSUME NEW c \in Call, Patient(c)' PROVE Patient(c)
  BY <1>1 DEF Patient
<1>2. \A c \in Call : /\ Running(<<c, "create">>)' => Running(<<c, "create">>)
                      /\ Running(<<c, "perform">>)' => Running(<<c, "perform">>)
                      /\ Running(<<c, "close">>)' => Running(<<c, "close">>)
  BY Ops DEF Handler
<1>3. ASSUME NEW c \in Call PROVE WaitsFor(c)'
  BY <1>1, <1>2 DEF Waits, WaitsFor
<1> QED
  BY <1>3 DEF Waits

\* A call that begins keeps Waits.
LEMMA WaitsBegin ==
  ASSUME Typed, Stages, HistoryTypes, Waits, NEW c \in Call, Begins(c)
  PROVE  Waits'
<1>1. PICK op \in Op :
        /\ pc'[c] = op
        /\ \A d \in Call, o \in Op : hpc'[<<d, o>>] =
             IF d = c /\ o = op THEN IF op \in {"create", "probe"} THEN "connect" ELSE "get"
                                ELSE hpc[<<d, o>>]
  BY Began
<1>2. /\ \A d \in Call : d # c => pc'[d] = pc[d] /\ target'[d] = target[d]
      /\ faults' = faults
  BY Began DEF history
<1>3. \A o \in Op : hpc[<<c, o>>] = "none"
  BY Began
<1>4. WaitsFor(c)'
  <2>1. /\ hpc'[<<c, "create">>] # "none" => op = "create"
        /\ hpc'[<<c, "perform">>] # "none" => op = "perform"
        /\ hpc'[<<c, "close">>] # "none" => op = "close"
    BY <1>1, <1>3, Ops
  <2> QED
    BY <1>1, <2>1 DEF WaitsFor, Running
<1>5. ASSUME NEW d \in Call, d # c PROVE WaitsFor(d)'
  <2>1. /\ hpc'[<<d, "create">>] = hpc[<<d, "create">>]
        /\ hpc'[<<d, "perform">>] = hpc[<<d, "perform">>]
        /\ hpc'[<<d, "close">>] = hpc[<<d, "close">>]
    BY <1>1, <1>5, Ops
  <2> QED
    BY <1>2, <1>5, <2>1 DEF Waits, WaitsFor, Running, Patient
<1> QED
  BY <1>4, <1>5 DEF Waits

\* A call that goes on has no handler at work, or gives up.
LEMMA WaitsGoOn ==
  ASSUME Typed, Stages, HistoryTypes, Kinds, Waits, NEW c \in Call, GoesOn(c)
  PROVE  Waits'
<1>1. UNCHANGED <<kind, target>> /\ \A d \in Call : d # c => pc'[d] = pc[d]
  BY WentOn
<1>2. \A d \in Call :
        /\ hpc'[<<d, "create">>] = hpc[<<d, "create">>]
        /\ hpc'[<<d, "close">>] = IF d = c /\ pc'[c] = "undo" THEN "get" ELSE hpc[<<d, "close">>]
        /\ hpc'[<<d, "perform">>] = IF d = c /\ pc'[c] = "navigate" THEN "get" ELSE hpc[<<d, "perform">>]
  BY WentOnHandlers
<1>3. \A s \in Call : faults[s] \subseteq faults'[s]
  <2>1. [Next]_vars
    BY StepsAreNext
  <2> QED
    BY <2>1, FaultsGrow
<1>4. ASSUME NEW d \in Call, d # c PROVE WaitsFor(d)'
  BY <1>1, <1>2, <1>3, <1>4 DEF Waits, WaitsFor, Running, Patient
<1>5. WaitsFor(c)'
  <2> SUFFICES ASSUME Patient(c)'
               PROVE  /\ Running(<<c, "create">>)' => pc'[c] = "create"
                      /\ Running(<<c, "perform">>)' => pc'[c] \in {"perform", "navigate"}
                      /\ Running(<<c, "close">>)' => pc'[c] \in {"close", "undo"}
    BY DEF WaitsFor
  <2>1. Patient(c)
    BY <1>1, <1>3 DEF Patient
  <2>2. /\ Running(<<c, "create">>) => pc[c] = "create"
        /\ Running(<<c, "perform">>) => pc[c] \in {"perform", "navigate"}
        /\ Running(<<c, "close">>) => pc[c] \in {"close", "undo"}
    BY <2>1 DEF Waits, WaitsFor
  <2>3. ~Running(<<c, "create">>) /\ ~Running(<<c, "perform">>) /\ ~Running(<<c, "close">>)
    <3>1. CASE Proceed(c)
      BY <2>2, <3>1, Proceeded DEF Running, Reply
    <3>2. CASE Refused(c)
      BY <2>2, <3>2, WasRefused DEF Running
    <3>3. CASE InsertRow(c) \/ Record(c) \/ MarkClosed(c) \/ DatabaseFails(c)
      BY <2>2, <3>3 DEF InsertRow, Record, MarkClosed, DatabaseFails
    <3>4. CASE TimeOut(c) \/ ApiDies(c)
      <4>1. target[c] \in Call /\ faults'[target[c]] \cap {"timeout", "died"} = {}
        BY <1>1 DEF Patient
      <4> QED
        BY <3>4, <4>1, WentWrong
    <3> QED
      BY <3>1, <3>2, <3>3, <3>4 DEF GoesOn, ApiStep
  <2> QED
    BY <1>2, <2>3 DEF Running
<1> QED
  BY <1>4, <1>5 DEF Waits

\* Every step keeps Waits.
LEMMA NextWaits ==
  Typed /\ Stages /\ HistoryTypes /\ Kinds /\ Waits /\ [Next]_vars => Waits'
<1> SUFFICES ASSUME Typed, Stages, HistoryTypes, Kinds, Waits, [Next]_vars
             PROVE  Waits'
  OBVIOUS
<1>0. \A s \in Call : faults[s] \subseteq faults'[s]
  BY FaultsGrow
<1>1. ASSUME NEW c \in Call, Begins(c) PROVE Waits'
  BY <1>1, WaitsBegin
<1>2. ASSUME NEW c \in Call, GoesOn(c) PROVE Waits'
  BY <1>2, WaitsGoOn
<1>3. ASSUME NEW h \in Handler, HandlerStep(h) PROVE Waits'
  <2>1. \A g \in Handler : Running(g)' => Running(g)
    BY <1>3, Turned DEF Running
  <2> QED
    BY <1>0, <1>3, <2>1, Turned, WaitsStay
<1>4. CASE GatewayRestarts
  <2>1. \A g \in Handler : ~Running(g)'
    BY <1>4, Restarted DEF Running, Reply
  <2> QED
    BY <1>0, <1>4, <2>1, Restarted, WaitsStay
<1>5. ASSUME NEW d \in browsers, BrowserLost(d) PROVE Waits'
  BY <1>0, <1>5, WaitsStay DEF BrowserLost, calls, Running
<1>6. CASE UNCHANGED vars
  BY <1>0, <1>6, WaitsStay DEF vars, calls, Running
<1> QED
  BY <1>1, <1>2, <1>3, <1>4, <1>5, <1>6 DEF Next, Begins, GoesOn

----------------------------------------------------------------------------
(* No context is left behind.                                              *)

\* An open context is in the registry, but for one that gets its page or whose page failed.
Registered ==
  \A s \in Call :
    context[s] = "open" /\ "raised" \notin faults[s] => s \in sessions \/ hpc[<<s, "create">>] = "page"

\* While sessions stay, contexts open not and pages are not made, Registered stays.
LEMMA RegisteredStay ==
  ASSUME Registered, sessions \subseteq sessions',
         \A s \in Call : context'[s] = "open" => context[s] = "open",
         \A s \in Call : faults[s] \subseteq faults'[s],
         \A s \in Call : hpc[<<s, "create">>] = "page" => hpc'[<<s, "create">>] = "page"
  PROVE  Registered'
  BY DEF Registered

\* A step of a handler closes contexts, or opens the one that it creates.
LEMMA HandlerOpens ==
  ASSUME Typed, NEW h \in Handler, HandlerStep(h)
  PROVE  \A s \in Call : context'[s] = "open" =>
           \/ context[s] = "open"
           \/ NewContext(h) /\ s = h[1] /\ hpc'[h] = "page"
<1>1. CASE ~(NewContext(h) \/ CloseContext(h) \/ Drop(h) \/ Clear(h))
  BY <1>1 DEF HandlerStep, Connect, Started, StartFails, Join, JoinFails, Forget, NewPage, Get, Act,
              Snapshot, Delete, registry
<1>2. CASE Drop(h) \/ Clear(h)
  <2>1. \E D : LoseBrowsers(D)
    BY <1>2 DEF Drop, Clear
  <2> QED
    BY <2>1, LostContexts
<1>3. CASE CloseContext(h)
  <2>1. context' = [context EXCEPT ![target[h[1]]] = "closed"] \/ context' = context
    BY <1>3 DEF CloseContext
  <2> QED
    BY <2>1 DEF Typed
<1>4. CASE NewContext(h)
  <2>1. \/ context' = [context EXCEPT ![h[1]] = "open"] /\ HGoto(h, "page")
        \/ context' = context
    BY <1>4 DEF NewContext
  <2> QED
    BY <1>4, <2>1 DEF HGoto, Typed
<1> QED
  BY <1>1, <1>2, <1>3, <1>4

\* A step of a handler keeps Registered.
LEMMA HandlerRegistered ==
  ASSUME Typed, Stages, Closing, HistoryTypes, Kinds, Registered, NEW h \in Handler, HandlerStep(h)
  PROVE  Registered'
<1>h. h[1] \in Call /\ h[2] \in Op /\ h = <<h[1], h[2]>> /\ Serves(h[2], hpc[h])
  BY HandlerFacts DEF Stages
<1>f. \A s \in Call : faults[s] \subseteq faults'[s]
  <2>1. [Next]_vars
    BY StepsAreNext
  <2> QED
    BY <2>1, FaultsGrow
<1>o. \A s \in Call : context'[s] = "open" =>
        context[s] = "open" \/ (NewContext(h) /\ s = h[1] /\ hpc'[h] = "page")
  BY HandlerOpens
<1>p. ASSUME hpc[h] # "page", NEW s \in Call, hpc[<<s, "create">>] = "page"
      PROVE  hpc'[<<s, "create">>] = "page"
  <2>1. <<s, "create">> \in Handler
    BY HandlerFacts DEF Op
  <2> QED
    BY <1>p, <2>1, Turned
<1>1. CASE NewPage(h)
  <2>1. h[2] = "create" /\ hpc[h] = "page" /\ context' = context
    BY <1>1, <1>h DEF NewPage, Serves
  <2>2. target[h[1]] = h[1]
    <3>1. hpc[<<h[1], "create">>] = "page"
      BY <1>h, <2>1
    <3> QED
      BY <1>h, <3>1 DEF Kinds, KindOf
  <2>3. \/ sessions' = sessions \cup {h[1]}
        \/ context[h[1]] # "open" /\ sessions' = sessions
        \/ "raised" \in faults'[h[1]] /\ sessions' = sessions
    <3>1. Fails(h) => "raised" \in faults'[h[1]]
      BY <1>h, <2>2 DEF Fails, Fault
    <3> QED
      BY <1>1, <3>1 DEF NewPage
  <2>4. \A s \in Call : s # h[1] => hpc'[<<s, "create">>] = hpc[<<s, "create">>]
    <3>1. \A s \in Call : <<s, "create">> \in Handler /\ <<s, "create">>[1] = s
      BY HandlerFacts DEF Op
    <3>2. \A g \in Handler : g # h => hpc'[g] = hpc[g]
      BY Turned
    <3> QED
      BY <3>1, <3>2
  <2> QED
    BY <1>f, <2>1, <2>3, <2>4 DEF Registered
<1>2. CASE NewContext(h)
  <2>1. hpc[h] = "context" /\ sessions' = sessions
    BY <1>2 DEF NewContext
  <2>2. h[2] = "create"
    BY <1>h, <2>1 DEF Serves
  <2>3. h = <<h[1], "create">>
    BY <1>h, <2>2
  <2> QED
    BY <1>f, <1>o, <1>p, <2>1, <2>3 DEF Registered
<1>3. CASE Delete(h)
  <2>1. h[2] = "close" /\ hpc[h] = "delete" /\ UNCHANGED context
        /\ sessions' = sessions \ {target[h[1]]}
    BY <1>3, <1>h DEF Delete, Serves
  <2>2. context[target[h[1]]] = "closed"
    BY <1>h, <2>1 DEF Closing
  <2> QED
    BY <1>f, <1>p, <2>1, <2>2 DEF Registered
<1>4. CASE ~(NewPage(h) \/ NewContext(h) \/ Delete(h))
  <2>1. hpc[h] # "page" /\ sessions' = sessions
    BY <1>4 DEF HandlerStep, Connect, Started, StartFails, Join, JoinFails, Drop, Clear, Forget, Get,
                Act, Snapshot, CloseContext, registry, Connecting
  <2> QED
    BY <1>4, <1>f, <1>o, <1>p, <2>1, RegisteredStay
<1> QED
  BY <1>1, <1>2, <1>3, <1>4

\* After a restart no context is open, and one that a lost browser leaves was open before.
LEMMA SurroundingsClose ==
  ASSUME Typed, Contexts
  PROVE  /\ GatewayRestarts => \A s \in Call : context'[s] # "open"
         /\ \A d : BrowserLost(d) => \A s \in Call : context'[s] = "open" => context[s] = "open"
<1>1. ASSUME GatewayRestarts PROVE \A s \in Call : context'[s] # "open"
  BY <1>1, Restarted DEF Contexts
<1>2. ASSUME NEW d, BrowserLost(d) PROVE \A s \in Call : context'[s] = "open" => context[s] = "open"
  BY <1>2 DEF BrowserLost, LoseBrowsers
<1> QED
  BY <1>1, <1>2

\* Every step keeps Registered.
LEMMA NextRegistered ==
  Typed /\ Stages /\ Closing /\ HistoryTypes /\ Kinds /\ Contexts /\ Registered /\ [Next]_vars =>
    Registered'
<1> SUFFICES ASSUME Typed, Stages, Closing, HistoryTypes, Kinds, Contexts, Registered, [Next]_vars
             PROVE  Registered'
  OBVIOUS
<1>0. \A s \in Call : faults[s] \subseteq faults'[s]
  BY FaultsGrow
<1>1. ASSUME NEW c \in Call, Begins(c) \/ GoesOn(c) PROVE Registered'
  <2>1. /\ UNCHANGED <<sessions, context>>
        /\ \A d \in Call : hpc[<<d, "create">>] # "none" => hpc'[<<d, "create">>] = hpc[<<d, "create">>]
    BY <1>1, CallsKeepRegistry
  <2> QED
    BY <1>0, <2>1, RegisteredStay
<1>2. ASSUME NEW h \in Handler, HandlerStep(h) PROVE Registered'
  BY <1>2, HandlerRegistered
<1>3. CASE GatewayRestarts
  BY <1>3, SurroundingsClose DEF Registered
<1>4. ASSUME NEW d \in browsers, BrowserLost(d) PROVE Registered'
  <2>1. UNCHANGED <<sessions, hpc>>
    BY <1>4 DEF BrowserLost
  <2> QED
    BY <1>0, <1>4, <2>1, SurroundingsClose, RegisteredStay
<1>5. CASE UNCHANGED vars
  BY <1>0, <1>5, RegisteredStay DEF vars, registry
<1> QED
  BY <1>1, <1>2, <1>3, <1>4, <1>5 DEF Next, Begins, GoesOn

\* A create that was refused, and a close however it ended, leave no open context.
CreateEnded(s) ==
  hpc[<<s, "create">>] \in {"denied", "error", "lost"} /\ "raised" \notin faults[s] =>
    context[s] # "open"

CloseEnded(c) ==
  hpc[<<c, "close">>] \in Reply /\ "raised" \notin faults[target[c]] => context[target[c]] # "open"

Ended == \A c \in Call : CreateEnded(c) /\ CloseEnded(c)

\* Who opens a context is its create handler.
LEMMA OpensOwn ==
  ASSUME Typed, Stages, NEW h \in Handler, NewContext(h)
  PROVE  h[1] \in Call /\ h = <<h[1], "create">> /\ hpc[<<h[1], "create">>] = "context"
<1>1. h[1] \in Call /\ h = <<h[1], h[2]>> /\ Serves(h[2], hpc[h])
  BY HandlerFacts DEF Stages
<1>2. hpc[h] = "context"
  BY DEF NewContext
<1>3. h[2] = "create"
  BY <1>1, <1>2 DEF Serves
<1> QED
  BY <1>1, <1>2, <1>3

\* A create handler that ends with an error leaves no open context.
LEMMA HandlerCreateEnded ==
  ASSUME Typed, Stages, HistoryTypes, Kinds, Contexts, Registered, Ended,
         NEW h \in Handler, HandlerStep(h), NEW s \in Call
  PROVE  CreateEnded(s)'
<1> SUFFICES ASSUME hpc'[<<s, "create">>] \in {"denied", "error", "lost"}, "raised" \notin faults'[s],
                    context'[s] = "open"
             PROVE  FALSE
  BY DEF CreateEnded
<1>0. <<s, "create">> \in Handler /\ <<s, "create">>[1] = s
  BY HandlerFacts DEF Op
<1>f. "raised" \notin faults[s]
  <2>1. [Next]_vars
    BY StepsAreNext
  <2> QED
    BY <2>1, FaultsGrow
<1>1. context[s] = "open"
  <2>1. NewContext(h) /\ s = h[1] => h = <<s, "create">>
    BY OpensOwn
  <2> QED
    BY <2>1, HandlerOpens
<1>2. CASE h # <<s, "create">>
  <2>1. hpc'[<<s, "create">>] = hpc[<<s, "create">>]
    BY <1>0, <1>2, Turned
  <2> QED
    BY <1>1, <1>f, <2>1 DEF Ended, CreateEnded
<1>3. CASE h = <<s, "create">>
  <2>1. hpc[h] \in {"page", "snapshot"}
    BY <1>1, <1>3, Turned DEF Contexts
  <2>2. h[1] = s /\ target[s] = s
    <3>1. hpc[<<s, "create">>] # "none"
      BY <1>3, <2>1
    <3> QED
      BY <1>0, <1>3, <3>1 DEF Kinds, KindOf
  <2>3. Fails(h) => "raised" \in faults'[s]
    BY <2>2 DEF Fails, Fault
  <2>t. ASSUME NEW to, HGoto(h, to) PROVE hpc'[h] = to
    BY <2>t DEF HGoto, Typed
  <2>4. CASE hpc[h] = "page"
    <3>1. NewPage(h)
      BY <2>4 DEF HandlerStep, Connect, Started, StartFails, Join, JoinFails, Drop, Clear, Forget,
                  NewContext, Get, Act, Snapshot, CloseContext, Delete
    <3>2. hpc'[h] = "snapshot" \/ context[s] # "open" \/ Fails(h)
      BY <2>2, <2>t, <3>1 DEF NewPage
    <3> QED
      BY <1>1, <1>3, <2>3, <3>2
  <2>5. CASE hpc[h] = "snapshot"
    <3>1. Snapshot(h)
      BY <2>5 DEF HandlerStep, Connect, Started, StartFails, Join, JoinFails, Drop, Clear, Forget,
                  NewContext, NewPage, Get, Act, CloseContext, Delete
    <3>2. hpc'[h] = "ok" \/ s \notin sessions \/ context[s] # "open" \/ Fails(h)
      BY <2>2, <2>t, <3>1 DEF Snapshot
    <3>3. s \in sessions
      BY <1>1, <1>3, <1>f, <2>5 DEF Registered
    <3> QED
      BY <1>1, <1>3, <2>3, <3>2, <3>3
  <2> QED
    BY <2>1, <2>4, <2>5
<1> QED
  BY <1>2, <1>3

\* A close handler that ends leaves no open context.
LEMMA HandlerCloseEnded ==
  ASSUME Typed, Stages, Closing, HistoryTypes, Kinds, Reached, Contexts, Registered, Ended,
         NEW h \in Handler, HandlerStep(h), NEW c \in Call
  PROVE  CloseEnded(c)'
<1>u. target' = target
  BY Turned
<1> SUFFICES ASSUME hpc'[<<c, "close">>] \in Reply, "raised" \notin faults'[target[c]],
                    context'[target[c]] = "open"
             PROVE  FALSE
  BY <1>u DEF CloseEnded
<1>0. <<c, "close">> \in Handler /\ <<c, "close">>[1] = c /\ <<c, "close">>[2] = "close"
  BY HandlerFacts DEF Op
<1>1. hpc[<<c, "close">>] # "none"
  BY <1>0, Turned DEF Reply
<1>2. target[c] \in Call /\ hpc[<<target[c], "create">>] = "ok"
  BY <1>1, ClosesWhatIs
<1>f. "raised" \notin faults[target[c]]
  <2>1. [Next]_vars
    BY StepsAreNext
  <2> QED
    BY <1>2, <2>1, FaultsGrow
<1>3. context[target[c]] = "open"
  <2>1. NewContext(h) => target[c] # h[1]
    BY <1>2, OpensOwn
  <2> QED
    BY <1>2, <2>1, HandlerOpens
<1>4. CASE h # <<c, "close">>
  <2>1. hpc'[<<c, "close">>] = hpc[<<c, "close">>]
    BY <1>0, <1>4, Turned
  <2> QED
    BY <1>3, <1>f, <2>1 DEF Ended, CloseEnded
<1>5. CASE h = <<c, "close">>
  <2>1. hpc[h] \in {"get", "close", "delete"}
    <3>1. Serves("close", hpc[h]) /\ hpc[h] \in HandlerPc /\ hpc[h] \notin Reply \cup {"none"}
      BY <1>0, <1>5, Turned DEF Stages, Typed
    <3> QED
      BY <3>1 DEF Serves, HandlerPc
  <2>2. hpc[h] # "delete"
    BY <1>3, <1>5 DEF Closing
  <2>t. ASSUME NEW to, HGoto(h, to) PROVE hpc'[h] = to
    BY <2>t DEF HGoto, Typed
  <2>3. CASE hpc[h] = "get"
    <3>1. Get(h)
      BY <2>3 DEF HandlerStep, Connect, Started, StartFails, Join, JoinFails, Drop, Clear, Forget,
                  NewContext, NewPage, Act, Snapshot, CloseContext, Delete
    <3>2. target[c] \in sessions
      BY <1>2, <1>3, <1>f DEF Registered
    <3>3. hpc'[h] \in {"act", "close"}
      <4>1. target[h[1]] \in sessions
        BY <1>0, <1>5, <3>2
      <4> QED
        BY <2>t, <3>1, <4>1 DEF Get
    <3> QED
      BY <1>5, <3>3 DEF Reply
  <2>4. CASE hpc[h] = "close"
    <3>1. CloseContext(h)
      BY <2>4 DEF HandlerStep, Connect, Started, StartFails, Join, JoinFails, Drop, Clear, Forget,
                  NewContext, NewPage, Get, Act, Snapshot, Delete
    <3>2. on[target[h[1]]] \in browsers /\ h[1] = c
      BY <1>0, <1>2, <1>3, <1>5 DEF Contexts
    <3>3. Fails(h) => "raised" \in faults'[target[c]]
      BY <1>2, <3>2 DEF Fails, Fault
    <3>4. hpc'[h] = "delete" \/ Fails(h)
      BY <2>t, <3>1, <3>2 DEF CloseContext
    <3> QED
      BY <1>5, <3>3, <3>4 DEF Reply
  <2> QED
    BY <2>1, <2>2, <2>3, <2>4
<1> QED
  BY <1>4, <1>5

\* While replies come from where they were and contexts open not, Ended stays.
LEMMA EndedStay ==
  ASSUME Ended, HistoryTypes, Kinds,
         \A s \in Call : faults[s] \subseteq faults'[s],
         \A s \in Call : context'[s] = "open" => context[s] = "open",
         \A c \in Call : hpc'[<<c, "create">>] \in Reply => hpc[<<c, "create">>] = hpc'[<<c, "create">>],
         \A c \in Call : hpc'[<<c, "close">>] \in Reply =>
           hpc[<<c, "close">>] = hpc'[<<c, "close">>] /\ target'[c] = target[c]
  PROVE  Ended'
<1>1. ASSUME NEW s \in Call PROVE CreateEnded(s)'
  BY DEF Ended, CreateEnded, Reply
<1>2. ASSUME NEW c \in Call PROVE CloseEnded(c)'
  <2>1. hpc[<<c, "close">>] # "none" => target[c] \in Call
    BY KindFrom DEF Kinds, KindOf
  <2> QED
    BY <2>1 DEF Ended, CloseEnded, Reply
<1> QED
  BY <1>1, <1>2 DEF Ended

\* The close handlers that reply after a step of a call replied before it.
LEMMA CallsKeepReplies ==
  ASSUME Typed, Stages, HistoryTypes, NEW c \in Call, Begins(c) \/ GoesOn(c), NEW d \in Call,
         hpc'[<<d, "close">>] \notin {"none", "get"}
  PROVE  hpc[<<d, "close">>] = hpc'[<<d, "close">>] /\ target'[d] = target[d]
<1>1. CASE Begins(c)
  <2>1. PICK op \in Op : \A e \in Call, o \in Op : hpc'[<<e, o>>] =
          IF e = c /\ o = op THEN IF op \in {"create", "probe"} THEN "connect" ELSE "get"
                             ELSE hpc[<<e, o>>]
    BY <1>1, Began
  <2>2. hpc'[<<d, "close">>] = IF d = c /\ "close" = op THEN "get" ELSE hpc[<<d, "close">>]
    BY <2>1, Ops
  <2>3. hpc[<<c, "close">>] = "none"
    BY <1>1, Began, Ops, ZenonT(60)
  <2>4. d # c
    BY <2>2, <2>3
  <2> QED
    BY <1>1, <2>2, <2>4, Began
<1>2. CASE GoesOn(c)
  BY <1>2, WentOn, WentOnHandlers
<1> QED
  BY <1>1, <1>2

\* Every step keeps Ended.
LEMMA NextEnded ==
  Typed /\ Stages /\ Closing /\ HistoryTypes /\ Kinds /\ Contexts /\ Reached /\ Registered /\ Ended
    /\ [Next]_vars => Ended'
<1> SUFFICES ASSUME Typed, Stages, Closing, HistoryTypes, Kinds, Contexts, Reached, Registered,
                    Ended, [Next]_vars
             PROVE  Ended'
  OBVIOUS
<1>0. \A s \in Call : faults[s] \subseteq faults'[s]
  BY FaultsGrow
<1>1. ASSUME NEW c \in Call, Begins(c) \/ GoesOn(c) PROVE Ended'
  <2>1. context' = context
    BY <1>1, CallsKeepRegistry
  <2>2. \A d \in Call : hpc'[<<d, "create">>] \in Reply => hpc[<<d, "create">>] = hpc'[<<d, "create">>]
    BY <1>1, CallsKeepRegistry DEF Reply
  <2>3. \A d \in Call : hpc'[<<d, "close">>] \in Reply =>
          hpc[<<d, "close">>] = hpc'[<<d, "close">>] /\ target'[d] = target[d]
    BY <1>1, CallsKeepReplies DEF Reply
  <2> QED
    BY <1>0, <2>1, <2>2, <2>3, EndedStay
<1>2. ASSUME NEW h \in Handler, HandlerStep(h) PROVE Ended'
  BY <1>2, HandlerCreateEnded, HandlerCloseEnded DEF Ended
<1>3. CASE GatewayRestarts
  <2>1. \A s \in Call : context'[s] # "open"
    BY <1>3, SurroundingsClose
  <2>2. \A c \in Call : hpc'[<<c, "close">>] \in Reply => target'[c] \in Call
    <3>1. \A c \in Call : <<c, "close">> \in Handler
      BY HandlerFacts DEF Op
    <3>2. \A c \in Call : hpc'[<<c, "close">>] \in Reply => hpc[<<c, "close">>] # "none"
      BY <1>3, <3>1, Restarted DEF Reply
    <3> QED
      BY <1>3, <3>2, ClosesWhatIs, Restarted
  <2> QED
    BY <2>1, <2>2 DEF Ended, CreateEnded, CloseEnded
<1>4. ASSUME NEW d \in browsers, BrowserLost(d) PROVE Ended'
  <2>1. UNCHANGED <<hpc, target>>
    BY <1>4 DEF BrowserLost, calls
  <2> QED
    BY <1>0, <1>4, <2>1, SurroundingsClose, EndedStay
<1>5. CASE UNCHANGED vars
  BY <1>0, <1>5, EndedStay DEF vars, registry, calls
<1> QED
  BY <1>1, <1>2, <1>3, <1>4, <1>5 DEF Next, Begins, GoesOn

\* An open context without a row belongs to the call that creates it.
KeptBy(s) ==
  context[s] = "open" /\ row[s] = "none" /\ faults[s] \cap {"timeout", "died", "raised"} = {} =>
    pc[s] \notin Over

Kept == \A s \in Call : KeptBy(s)

\* A call that is over leaves no context behind: it was refused after the gateway undid
\* what it did, or it has a row.
LEMMA KeptGoOn ==
  ASSUME Typed, Stages, HistoryTypes, Kinds, Contexts, Reached, Ended, Kept, NEW c \in Call, GoesOn(c)
  PROVE  Kept'
<1>1. UNCHANGED <<context, kind, target>> /\ \A d \in Call : d # c => pc'[d] = pc[d]
  BY WentOn DEF registry
<1>2. \A s \in Call : row[s] # "none" => row'[s] # "none"
  BY RowsStay
<1>3. \A s \in Call : faults[s] \subseteq faults'[s]
  <2>1. [Next]_vars
    BY StepsAreNext
  <2> QED
    BY <2>1, FaultsGrow
<1>4. ASSUME NEW d \in Call, d # c PROVE KeptBy(d)'
  BY <1>1, <1>2, <1>3, <1>4 DEF Kept, KeptBy
<1>5. KeptBy(c)'
  <2> SUFFICES ASSUME context[c] = "open", row'[c] = "none",
                      faults'[c] \cap {"timeout", "died", "raised"} = {}, pc'[c] \in Over
               PROVE  FALSE
    BY <1>1 DEF KeptBy
  <2>1. row[c] = "none" /\ faults[c] \cap {"timeout", "died", "raised"} = {}
    BY <1>2, <1>3
  <2>2. kind[c] = "create" /\ target[c] = c
    <3>1. hpc[<<c, "create">>] # "none"
      BY DEF Contexts, Reply
    <3>2. kind[c] = "create"
      BY <3>1 DEF Kinds, KindOf
    <3> QED
      BY <3>2, KindFrom
  <2>3. pc[c] \in Over \cup {"create", "navigate", "undo", "insert", "record"}
    BY <2>2 DEF Kinds, KindOf
  <2>4. /\ hpc[<<c, "close">>] \notin Reply
        /\ hpc[<<c, "create">>] \notin {"denied", "error", "lost"}
    BY <2>1, <2>2 DEF Ended, CreateEnded, CloseEnded
  <2>5. CASE Proceed(c)
    BY <2>2, <2>3, <2>4, <2>5, Proceeded DEF Over, Reply
  <2>6. CASE Refused(c)
    BY <2>2, <2>3, <2>4, <2>6, WasRefused DEF Over, Reply
  <2>7. CASE TimeOut(c) \/ ApiDies(c)
    BY <2>2, <2>7, WentWrong
  <2>8. CASE InsertRow(c)
    BY <2>8 DEF InsertRow, Typed
  <2>9. CASE Record(c)
    <3>1. pc[c] = "record" /\ pc'[c] = "done" /\ row' = row /\ kind' = kind
      BY <2>9 DEF Record, Goto, Typed
    <3>2. row[c] # "none"
      BY <2>2, <3>1 DEF Reached, ReachedBy
    <3> QED
      BY <2>1, <3>2
  <2>10. CASE MarkClosed(c)
    BY <2>3, <2>10 DEF MarkClosed, Over
  <2>11. CASE DatabaseFails(c)
    <3>1. Raise(c) /\ pc[c] \in {"insert", "record"}
      BY <2>3, <2>11 DEF DatabaseFails, Over
    <3>2. pc'[c] = "undo"
      BY <2>2, <3>1, Raised
    <3> QED
      BY <3>2 DEF Over
  <2> QED
    BY <2>5, <2>6, <2>7, <2>8, <2>9, <2>10, <2>11 DEF GoesOn, ApiStep
<1> QED
  BY <1>4, <1>5 DEF Kept

\* Every step keeps Kept.
LEMMA NextKept ==
  Typed /\ Stages /\ HistoryTypes /\ Kinds /\ Contexts /\ Reached /\ Waits /\ Ended /\ Kept
    /\ [Next]_vars => Kept'
<1> SUFFICES ASSUME Typed, Stages, HistoryTypes, Kinds, Contexts, Reached, Waits, Ended, Kept,
                    [Next]_vars
             PROVE  Kept'
  OBVIOUS
<1>0. \A s \in Call : faults[s] \subseteq faults'[s]
  BY FaultsGrow
<1>s. ASSUME \A s \in Call : context'[s] = "open" => context[s] = "open", UNCHANGED <<row, pc>>
      PROVE  Kept'
  BY <1>0, <1>s DEF Kept, KeptBy
<1>1. ASSUME NEW c \in Call, Begins(c) PROVE Kept'
  <2>1. UNCHANGED <<context, row>> /\ \A d \in Call : d # c => pc'[d] = pc[d]
    BY <1>1, Began DEF registry, database
  <2>2. pc'[c] \notin Over
    BY <1>1, Began DEF Op, Over
  <2> QED
    BY <1>0, <2>1, <2>2 DEF Kept, KeptBy
<1>2. ASSUME NEW c \in Call, GoesOn(c) PROVE Kept'
  BY <1>2, KeptGoOn
<1>3. ASSUME NEW h \in Handler, HandlerStep(h) PROVE Kept'
  <2>1. UNCHANGED <<row, pc>>
    BY <1>3, Turned
  <2>2. CASE ~NewContext(h)
    BY <1>3, <1>s, <2>1, <2>2, HandlerOpens
  <2>3. CASE NewContext(h)
    <3>1. h[1] \in Call /\ h = <<h[1], "create">> /\ hpc[<<h[1], "create">>] = "context"
      BY <2>3, OpensOwn
    <3>2. target[h[1]] = h[1]
      BY <3>1 DEF Kinds, KindOf
    <3>3. faults[h[1]] \cap {"timeout", "died"} = {} => pc[h[1]] = "create"
      BY <3>1, <3>2 DEF Waits, WaitsFor, Patient, Running, Reply
    <3>4. KeptBy(h[1])'
      BY <1>0, <2>1, <3>1, <3>3 DEF KeptBy, Over
    <3>5. ASSUME NEW s \in Call, s # h[1] PROVE KeptBy(s)'
      <4>1. context'[s] = "open" => context[s] = "open"
        BY <1>3, <3>5, HandlerOpens
      <4> QED
        BY <1>0, <2>1, <4>1 DEF Kept, KeptBy
    <3> QED
      BY <3>4, <3>5 DEF Kept
  <2> QED
    BY <2>2, <2>3
<1>4. CASE GatewayRestarts
  BY <1>4, <1>s, SurroundingsClose, Restarted
<1>5. ASSUME NEW d \in browsers, BrowserLost(d) PROVE Kept'
  BY <1>5, <1>s, SurroundingsClose DEF BrowserLost, database, calls
<1>6. CASE UNCHANGED vars
  BY <1>6, <1>s DEF vars, database, calls, registry
<1> QED
  BY <1>1, <1>2, <1>3, <1>4, <1>5, <1>6 DEF Next, Begins, GoesOn

----------------------------------------------------------------------------
(* The life of a session.                                                  *)

\* Nothing but an error of Playwright went wrong with a session.
Sound(s) == faults[s] \subseteq {"raised"}

Live(s) == s \in sessions /\ context[s] = "open"

Unclosed(s) == \A c \in Call : target[c] = s => hpc[<<c, "close">>] = "none"

Closer(c, s) == target[c] = s /\ kind[c] = "close" /\ pc[c] \notin Over

\* A session that nobody closes is alive from its create handler's reply on; while its row
\* says active, whoever took it from the registry, or closed its context, is still to mark
\* the row.
LivesOn(s) ==
  Sound(s) =>
    /\ hpc[<<s, "create">>] = "ok" /\ Unclosed(s) => Live(s)
    /\ row[s] = "active" => hpc[<<s, "close">>] = "none"
    /\ row[s] = "active" /\ s \notin sessions =>
         \E c \in Call : Closer(c, s) /\ hpc[<<c, "close">>] = "ok"
    /\ row[s] = "active" /\ context[s] # "open" =>
         \E c \in Call : Closer(c, s) /\ hpc[<<c, "close">>] \in {"delete", "ok"}

Lives == \A s \in Call : LivesOn(s)

\* What was sound after a step was sound before it.
LEMMA SoundBefore ==
  ASSUME Typed, HistoryTypes, [Next]_vars, NEW s \in Call, Sound(s)'
  PROVE  Sound(s)
  BY FaultsGrow DEF Sound

\* A handler of a close that is at work on a session, not by the session's own creator,
\* belongs to a call that is to mark the row.
LEMMA IsCloser ==
  ASSUME HistoryTypes, Kinds, Waits, NEW s \in Call, Sound(s), hpc[<<s, "close">>] = "none",
         NEW c \in Call, target[c] = s, Running(<<c, "close">>)
  PROVE  Closer(c, s)
<1>1. pc[c] \in {"close", "undo"}
  BY DEF Waits, WaitsFor, Patient, Sound
<1>2. kind[c] \in {"create", "close"} /\ (kind[c] = "create" => target[c] = c)
  BY DEF Kinds, KindOf, Running
<1>3. kind[c] = "close"
  BY <1>2 DEF Running
<1> QED
  BY <1>1, <1>3 DEF Closer, Over

\* Only a close takes a session from the registry, and only a close ends its context.
LEMMA HandlerKills ==
  ASSUME Typed, Stages, NEW h \in Handler, HandlerStep(h), NEW s \in Call, Sound(s)'
  PROVE  /\ s \in sessions /\ s \notin sessions' =>
              /\ target[h[1]] = s /\ h = <<h[1], "close">>
              /\ hpc[h] = "delete" /\ hpc'[h] = "ok"
         /\ context[s] = "open" /\ context'[s] # "open" =>
              /\ target[h[1]] = s /\ h = <<h[1], "close">>
              /\ hpc[h] = "close" /\ hpc'[h] = "delete"
<1>h. h[1] \in Call /\ h = <<h[1], h[2]>> /\ Serves(h[2], hpc[h])
  BY HandlerFacts DEF Stages
<1>t. ASSUME NEW to, HGoto(h, to) PROVE hpc'[h] = to
  BY <1>t DEF HGoto, Typed
<1>1. CASE Drop(h) \/ Clear(h)
  <2>1. sessions' = sessions
    BY <1>1 DEF Drop, Clear
  <2>2. faults'[s] = IF context'[s] # context[s] THEN faults[s] \cup {"collateral"} ELSE faults[s]
    BY <1>1 DEF Drop, Clear
  <2>3. context'[s] = context[s]
    BY <2>2 DEF Sound
  <2> QED
    BY <2>1, <2>3
<1>2. CASE CloseContext(h)
  <2>1. /\ hpc[h] = "close" /\ sessions' = sessions
        /\ \/ HGoto(h, "delete") /\ context' = [context EXCEPT ![target[h[1]]] = "closed"]
           \/ context' = context
    BY <1>2 DEF CloseContext
  <2>2. h[2] = "close"
    BY <1>h, <2>1 DEF Serves
  <2>3. context'[s] # context[s] => target[h[1]] = s /\ HGoto(h, "delete")
    BY <2>1 DEF Typed
  <2> QED
    BY <1>h, <1>t, <2>1, <2>2, <2>3
<1>3. CASE Delete(h)
  <2>1. /\ hpc[h] = "delete" /\ sessions' = sessions \ {target[h[1]]} /\ context' = context
        /\ HGoto(h, IF target[h[1]] \in sessions THEN "ok" ELSE "error")
    BY <1>3 DEF Delete
  <2>2. h[2] = "close"
    BY <1>h, <2>1 DEF Serves
  <2>3. hpc'[h] = IF target[h[1]] \in sessions THEN "ok" ELSE "error"
    BY <1>t, <2>1
  <2> QED
    BY <1>h, <2>1, <2>2, <2>3
<1>4. CASE NewContext(h) \/ NewPage(h)
  <2>1. sessions \subseteq sessions'
    BY <1>4 DEF NewContext, NewPage
  <2>2. context[s] = "open" => context'[s] = "open"
    BY <1>4 DEF NewContext, NewPage, Typed
  <2> QED
    BY <2>1, <2>2
<1>5. CASE \/ Connect(h) \/ Started(h) \/ StartFails(h) \/ Join(h) \/ JoinFails(h) \/ Forget(h)
           \/ Get(h) \/ Act(h) \/ Snapshot(h)
  BY <1>5 DEF Connect, Started, StartFails, Join, JoinFails, Forget, Get, Act, Snapshot, registry
<1> QED
  BY <1>1, <1>2, <1>3, <1>4, <1>5 DEF HandlerStep

\* A create handler replies when it has found its session alive.
LEMMA CreateReplies ==
  ASSUME Typed, Stages, Kinds, NEW h \in Handler, HandlerStep(h), NEW s \in Call,
         h = <<s, "create">>, hpc'[h] = "ok"
  PROVE  Live(s) /\ Live(s)'
<1>h. h[1] = s /\ h[2] = "create" /\ Serves("create", hpc[h])
  BY HandlerFacts DEF Stages, Op
<1>1. target[s] = s
  <2>1. hpc[<<s, "create">>] # "none"
    BY Turned
  <2> QED
    BY <2>1 DEF Kinds, KindOf
<1>t. ASSUME NEW to, HGoto(h, to) PROVE to = "ok"
  BY <1>t DEF HGoto, Typed
<1>2. Snapshot(h)
  <2>1. ~(Connect(h) \/ Join(h))
    <3>1. Connected(h) => HGoto(h, "context")
      BY <1>h DEF Connected
    <3> QED
      BY <1>t, <3>1 DEF Connect, Join
  <2>2. ~(Started(h) \/ StartFails(h) \/ JoinFails(h) \/ Drop(h) \/ Clear(h) \/ Forget(h))
    <3>1. ~Stop(h)
      BY <1>t DEF Stop
    <3> QED
      BY <1>t, <3>1 DEF Started, StartFails, JoinFails, Drop, Clear, Forget
  <2>3. ~(NewContext(h) \/ NewPage(h))
    BY <1>t DEF NewContext, NewPage, Fails
  <2>4. ~(Get(h) \/ Act(h) \/ CloseContext(h) \/ Delete(h))
    BY <1>h DEF Get, Act, CloseContext, Delete, Serves
  <2> QED
    BY <2>1, <2>2, <2>3, <2>4 DEF HandlerStep
<1>3. Live(s)
  BY <1>h, <1>1, <1>t, <1>2 DEF Snapshot, Fails, Live
<1> QED
  BY <1>2, <1>3 DEF Snapshot, Live, registry

\* A step of a handler keeps Lives: a close that takes a session away has its call.
LEMMA HandlerLives ==
  ASSUME Typed, Stages, HistoryTypes, Kinds, Waits, Lives, NEW h \in Handler, HandlerStep(h)
  PROVE  Lives'
<1> SUFFICES ASSUME NEW s \in Call, Sound(s)'
             PROVE  LivesOn(s)'
  BY DEF Lives, LivesOn
<1>0. Sound(s)
  <2>1. [Next]_vars
    BY StepsAreNext
  <2> QED
    BY <2>1, SoundBefore
<1>i. LivesOn(s)
  BY DEF Lives
<1>u. /\ UNCHANGED <<row, pc, kind, target>>
      /\ hpc[h] \notin Reply \cup {"none"} /\ hpc'[h] # "none"
      /\ \A g \in Handler : g # h => hpc'[g] = hpc[g]
  BY Turned
<1>c. \A c \in Call : <<c, "close">> \in Handler /\ <<c, "create">> \in Handler /\ <<c, "close">>[1] = c
  BY HandlerFacts DEF Op
<1>n. \A c \in Call : hpc'[<<c, "close">>] = "none" <=> hpc[<<c, "close">>] = "none"
  BY <1>c, <1>u
<1>h. h[1] \in Call
  BY HandlerFacts
<1>d. /\ s \in sessions /\ s \notin sessions' =>
           target[h[1]] = s /\ h = <<h[1], "close">> /\ hpc[h] = "delete" /\ hpc'[h] = "ok"
      /\ context[s] = "open" /\ context'[s] # "open" =>
           target[h[1]] = s /\ h = <<h[1], "close">> /\ hpc[h] = "close" /\ hpc'[h] = "delete"
  BY HandlerKills
<1>w. row[s] = "active" /\ h = <<h[1], "close">> /\ target[h[1]] = s => Closer(h[1], s)
  <2>1. hpc[h] \notin Reply \cup {"none"}
    BY <1>u
  <2> QED
    BY <1>0, <1>h, <1>i, <2>1, IsCloser DEF LivesOn, Running
<1>1. hpc'[<<s, "create">>] = "ok" /\ Unclosed(s)' => Live(s)'
  <2> SUFFICES ASSUME hpc'[<<s, "create">>] = "ok", Unclosed(s)' PROVE Live(s)'
    OBVIOUS
  <2>1. CASE h = <<s, "create">>
    BY <2>1, CreateReplies
  <2>2. CASE h # <<s, "create">>
    <3>1. hpc[<<s, "create">>] = "ok"
      BY <1>c, <1>u, <2>2
    <3>2. Unclosed(s)
      BY <1>n, <1>u DEF Unclosed
    <3>3. Live(s)
      BY <1>0, <1>i, <3>1, <3>2 DEF LivesOn
    <3>4. ~(target[h[1]] = s /\ h = <<h[1], "close">>)
      BY <1>h, <1>u, <3>2 DEF Unclosed
    <3> QED
      BY <1>d, <3>3, <3>4 DEF Live
  <2> QED
    BY <2>1, <2>2
<1>2. row'[s] = "active" => hpc'[<<s, "close">>] = "none"
  BY <1>0, <1>i, <1>n, <1>u DEF LivesOn
<1>k. \A c \in Call : Closer(c, s)' <=> Closer(c, s)
  BY <1>u DEF Closer
<1>r. \A c \in Call : hpc[<<c, "close">>] = "ok" => hpc'[<<c, "close">>] = "ok"
  BY <1>c, <1>u DEF Reply
<1>3. row'[s] = "active" /\ s \notin sessions' =>
        \E c \in Call : Closer(c, s)' /\ hpc'[<<c, "close">>] = "ok"
  <2> SUFFICES ASSUME row'[s] = "active", s \notin sessions'
               PROVE  \E c \in Call : Closer(c, s)' /\ hpc'[<<c, "close">>] = "ok"
    OBVIOUS
  <2>1. CASE s \in sessions
    BY <1>d, <1>h, <1>k, <1>u, <1>w, <2>1
  <2>2. CASE s \notin sessions
    BY <1>0, <1>i, <1>k, <1>r, <1>u, <2>2 DEF LivesOn
  <2> QED
    BY <2>1, <2>2
<1>4. row'[s] = "active" /\ context'[s] # "open" =>
        \E c \in Call : Closer(c, s)' /\ hpc'[<<c, "close">>] \in {"delete", "ok"}
  <2> SUFFICES ASSUME row'[s] = "active", context'[s] # "open"
               PROVE  \E c \in Call : Closer(c, s)' /\ hpc'[<<c, "close">>] \in {"delete", "ok"}
    OBVIOUS
  <2>1. CASE context[s] = "open"
    BY <1>d, <1>h, <1>k, <1>u, <1>w, <2>1
  <2>2. CASE context[s] # "open"
    <3>1. PICK c \in Call : Closer(c, s) /\ hpc[<<c, "close">>] \in {"delete", "ok"}
      BY <1>0, <1>i, <1>u, <2>2 DEF LivesOn
    <3>2. CASE h # <<c, "close">>
      <4>1. hpc'[<<c, "close">>] = hpc[<<c, "close">>]
        BY <1>c, <1>u, <3>2
      <4> QED
        BY <1>k, <3>1, <4>1
    <3>3. CASE h = <<c, "close">>
      <4>1. hpc[h] = "delete" /\ h[1] = c
        BY <1>c, <1>u, <3>1, <3>3 DEF Reply
      <4>2. Delete(h)
        BY <4>1 DEF HandlerStep, Connect, Started, StartFails, Join, JoinFails, Drop, Clear, Forget,
                    NewContext, NewPage, Get, Act, Snapshot, CloseContext
      <4>3. target[c] = s
        BY <3>1 DEF Closer
      <4>4. s \notin sessions'
        BY <4>1, <4>2, <4>3 DEF Delete
      <4> QED
        BY <1>3, <1>u, <4>4
    <3> QED
      BY <3>2, <3>3
  <2> QED
    BY <2>1, <2>2
<1> QED
  BY <1>1, <1>2, <1>3, <1>4 DEF LivesOn

\* A restart that does not harm a session finds it gone, and its close done.
LEMMA RestartLives ==
  ASSUME Typed, HistoryTypes, Kinds, Waits, Lives, GatewayRestarts
  PROVE  Lives'
<1> SUFFICES ASSUME NEW s \in Call, Sound(s)'
             PROVE  LivesOn(s)'
  BY DEF Lives, LivesOn
<1>f. faults' = [t \in Call |->
        IF t \in Alive \cup {target[c] : c \in {d \in Call : Waiting(d)}}
          THEN faults[t] \cup {"restart"} ELSE faults[t]]
  BY DEF GatewayRestarts, Fault
<1>0. /\ Sound(s) /\ context[s] # "open"
      /\ \A c \in Call : Waiting(c) => target[c] # s
  BY <1>f DEF Sound, Alive
<1>i. LivesOn(s)
  BY DEF Lives
<1>u. /\ UNCHANGED <<row, pc, kind, target>>
      /\ \A g \in Handler : hpc'[g] = IF hpc[g] \in Reply \cup {"none"} THEN hpc[g] ELSE "lost"
  BY Restarted
<1>c. \A c \in Call : <<c, "close">> \in Handler /\ <<c, "create">> \in Handler
  BY HandlerFacts DEF Op
<1>r. \A c \in Call : /\ hpc'[<<c, "close">>] = "none" <=> hpc[<<c, "close">>] = "none"
                      /\ hpc'[<<c, "close">>] = "ok" <=> hpc[<<c, "close">>] = "ok"
                      /\ hpc'[<<c, "create">>] = "ok" => hpc[<<c, "create">>] = "ok"
  BY <1>c, <1>u DEF Reply
<1>1. hpc'[<<s, "create">>] = "ok" => ~Unclosed(s)'
  <2>1. hpc[<<s, "create">>] = "ok" => ~Unclosed(s)
    BY <1>0, <1>i DEF LivesOn, Live
  <2> QED
    BY <1>r, <1>u, <2>1 DEF Unclosed
<1>2. row'[s] = "active" => hpc'[<<s, "close">>] = "none"
  BY <1>0, <1>i, <1>r, <1>u DEF LivesOn
<1>3. row'[s] = "active" => \E c \in Call : Closer(c, s)' /\ hpc'[<<c, "close">>] = "ok"
  <2> SUFFICES ASSUME row[s] = "active"
               PROVE  \E c \in Call : Closer(c, s)' /\ hpc'[<<c, "close">>] = "ok"
    BY <1>u
  <2>1. PICK c \in Call : Closer(c, s) /\ hpc[<<c, "close">>] \in {"delete", "ok"}
    BY <1>0, <1>i DEF LivesOn
  <2>2. hpc[<<c, "close">>] # "delete"
    <3>1. target[c] = s
      BY <2>1 DEF Closer
    <3>2. hpc[<<c, "close">>] = "delete" => pc[c] \in {"close", "undo"}
      BY <1>0, <3>1, ZenonT(60) DEF Waits, WaitsFor, Patient, Running, Reply, Sound
    <3> QED
      BY <1>0, <3>1, <3>2 DEF Waiting
  <2>3. hpc'[<<c, "close">>] = "ok"
    BY <1>r, <2>1, <2>2
  <2>4. Closer(c, s)'
    BY <1>u, <2>1 DEF Closer
  <2> QED
    BY <2>3, <2>4
<1> QED
  BY <1>1, <1>2, <1>3 DEF LivesOn

\* The loss of a browser harms the sessions it held and no other.
LEMMA BrowserLostLives ==
  ASSUME Typed, HistoryTypes, Lives, NEW d, BrowserLost(d)
  PROVE  Lives'
<1> SUFFICES ASSUME NEW s \in Call, Sound(s)'
             PROVE  LivesOn(s)'
  BY DEF Lives, LivesOn
<1>1. UNCHANGED <<row, pc, kind, target, hpc, sessions>>
  BY DEF BrowserLost, database, calls
<1>2. faults'[s] = IF s \in Alive /\ on[s] = d THEN faults[s] \cup {"lost"} ELSE faults[s]
  BY DEF BrowserLost, Fault
<1>3. context'[s] = IF context[s] = "open" /\ on[s] = d THEN "closed" ELSE context[s]
  BY DEF BrowserLost, LoseBrowsers
<1>4. context'[s] = context[s] /\ Sound(s)
  BY <1>2, <1>3 DEF Sound, Alive
<1>5. LivesOn(s)
  BY DEF Lives
<1> QED
  BY <1>1, <1>4, <1>5 DEF LivesOn, Unclosed, Live, Closer

\* A call that goes on takes no close handler away, and moves none of another call's.
LEMMA CallsKeepClosers ==
  ASSUME Typed, Stages, HistoryTypes, Kinds, NEW c \in Call, Begins(c) \/ GoesOn(c), NEW d \in Call,
         hpc[<<d, "close">>] # "none"
  PROVE  /\ target'[d] = target[d] /\ kind'[d] = kind[d] /\ hpc'[<<d, "close">>] # "none"
         /\ kind[d] = "close" => hpc'[<<d, "close">>] = hpc[<<d, "close">>]
<1>1. CASE Begins(c)
  <2>1. hpc[<<c, "close">>] = "none"
    BY <1>1, Began, Ops
  <2>2. d # c
    BY <2>1
  <2>3. \E op \in Op : hpc'[<<d, "close">>] = IF d = c /\ "close" = op THEN "get" ELSE hpc[<<d, "close">>]
    <3>1. PICK op \in Op : \A e \in Call, o \in Op : hpc'[<<e, o>>] =
            IF e = c /\ o = op THEN IF op \in {"create", "probe"} THEN "connect" ELSE "get"
                               ELSE hpc[<<e, o>>]
      BY <1>1, Began
    <3> QED
      BY <2>2, <3>1, Ops
  <2> QED
    BY <1>1, <2>2, <2>3, Began
<1>2. CASE GoesOn(c)
  <2>1. UNCHANGED <<kind, target>>
    BY <1>2, WentOn
  <2>2. hpc'[<<d, "close">>] = IF d = c /\ pc'[c] = "undo" THEN "get" ELSE hpc[<<d, "close">>]
    BY <1>2, WentOnHandlers
  <2>3. kind[d] = "close" => pc'[d] # "undo"
    <3>1. Kinds'
      BY <1>2, KindsGoOn
    <3>2. KindOf(d)'
      BY <3>1 DEF Kinds
    <3> QED
      BY <2>1, <3>2 DEF KindOf, Over
  <2> QED
    BY <2>1, <2>2, <2>3
<1> QED
  BY <1>1, <1>2

\* The call that is to mark a row goes on to mark it.
LEMMA CloserGoesOn ==
  ASSUME Typed, Stages, HistoryTypes, Kinds, NEW c \in Call, GoesOn(c),
         NEW s \in Call, Sound(s)', row'[s] = "active",
         NEW d \in Call, Closer(d, s), hpc[<<d, "close">>] \in {"delete", "ok"}
  PROVE  Closer(d, s)' /\ hpc'[<<d, "close">>] = hpc[<<d, "close">>]
<1>1. target'[d] = s /\ kind'[d] = "close" /\ hpc'[<<d, "close">>] = hpc[<<d, "close">>]
  BY CallsKeepClosers DEF Closer
<1>2. pc'[d] \notin Over
  <2>1. CASE d # c
    BY <2>1, WentOn DEF Closer
  <2>2. CASE d = c
    <3>1. target[c] = s /\ pc[c] \in {"close", "mark"}
      BY <2>2 DEF Closer, Kinds, KindOf
    <3>2. CASE Proceed(c)
      BY <2>2, <3>1, <3>2, Proceeded DEF Over
    <3>3. CASE Refused(c)
      BY <2>2, <3>1, <3>3, WasRefused DEF Over, Reply
    <3>4. CASE InsertRow(c) \/ Record(c)
      BY <3>1, <3>4 DEF InsertRow, Record
    <3>5. CASE MarkClosed(c)
      BY <3>1, <3>5 DEF MarkClosed, Typed
    <3>6. CASE TimeOut(c) \/ DatabaseFails(c) \/ ApiDies(c)
      <4>1. faults'[s] \cap {"timeout", "died", "database"} # {}
        BY <3>1, <3>6, WentWrong
      <4> QED
        BY <4>1 DEF Sound
    <3> QED
      BY <3>2, <3>3, <3>4, <3>5, <3>6 DEF GoesOn, ApiStep
  <2> QED
    BY <2>1, <2>2
<1> QED
  BY <1>1, <1>2 DEF Closer

\* A row becomes active by its insertion, when nobody closes the session.
LEMMA Inserted ==
  ASSUME Typed, HistoryTypes, Kinds, Reached, NEW c \in Call, GoesOn(c),
         NEW s \in Call, Sound(s)', row'[s] = "active", row[s] # "active"
  PROVE  s = c /\ InsertRow(c) /\ hpc[<<s, "create">>] = "ok" /\ Unclosed(s)
<1>1. s = c /\ pc[c] = "insert"
  <2>1. CASE MarkClosed(c)
    BY <2>1 DEF MarkClosed, Typed
  <2>2. CASE InsertRow(c)
    BY <2>2 DEF InsertRow, Typed
  <2>3. CASE DatabaseFails(c)
    BY <2>3 DEF DatabaseFails, Typed
  <2>4. CASE Proceed(c) \/ Refused(c) \/ TimeOut(c) \/ Record(c) \/ ApiDies(c)
    BY <2>4 DEF Proceed, Refused, TimeOut, Record, ApiDies, database
  <2> QED
    BY <2>1, <2>2, <2>3, <2>4 DEF GoesOn, ApiStep
<1>2. kind[c] = "create" /\ target[c] = c
  BY <1>1, KindFrom
<1>3. InsertRow(c)
  <2>1. ~(TimeOut(c) \/ DatabaseFails(c) \/ ApiDies(c))
    <3>1. TimeOut(c) \/ DatabaseFails(c) \/ ApiDies(c) =>
            faults'[c] \cap {"timeout", "died", "database"} # {}
      BY <1>2, WentWrong
    <3> QED
      BY <1>1, <3>1 DEF Sound
  <2>2. ~Proceed(c) /\ ~Refused(c)
    BY <1>1, Proceeded, WasRefused
  <2>3. ~Record(c) /\ ~MarkClosed(c)
    BY <1>1 DEF Record, MarkClosed
  <2> QED
    BY <2>1, <2>2, <2>3 DEF GoesOn, ApiStep
<1>4. hpc[<<c, "create">>] = "ok" /\ row[c] = "none" /\ hpc[<<c, "close">>] = "none"
  BY <1>1, <1>2 DEF Reached, ReachedBy
<1>5. ASSUME NEW d \in Call, target[d] = c, hpc[<<d, "close">>] # "none" PROVE FALSE
  <2>1. kind[d] \in {"create", "close"}
    BY <1>5 DEF Kinds, KindOf
  <2>2. kind[d] # "create"
    BY <1>4, <1>5, KindFrom
  <2>3. row[target[d]] # "none"
    BY <2>1, <2>2 DEF Reached, ReachedBy
  <2> QED
    BY <1>4, <1>5, <2>3
<1> QED
  BY <1>1, <1>3, <1>4, <1>5 DEF Unclosed

\* A call that goes on keeps Lives.
LEMMA GoOnLives ==
  ASSUME Typed, Stages, HistoryTypes, Kinds, Reached, Lives, NEW c \in Call, GoesOn(c)
  PROVE  Lives'
<1> SUFFICES ASSUME NEW s \in Call, Sound(s)'
             PROVE  LivesOn(s)'
  BY DEF Lives, LivesOn
<1>0. Sound(s)
  <2>1. [Next]_vars
    BY StepsAreNext
  <2> QED
    BY <2>1, SoundBefore
<1>i. LivesOn(s)
  BY DEF Lives
<1>u. UNCHANGED <<kind, target, sessions, context>>
  BY WentOn DEF registry
<1>p. /\ \A d \in Call : hpc'[<<d, "create">>] = hpc[<<d, "create">>]
      /\ \A d \in Call : hpc'[<<d, "close">>] =
           IF d = c /\ pc'[c] = "undo" THEN "get" ELSE hpc[<<d, "close">>]
  BY WentOnHandlers
<1>1. hpc'[<<s, "create">>] = "ok" /\ Unclosed(s)' => Live(s)'
  <2>1. Unclosed(s)' => Unclosed(s)
    BY <1>u, <1>p DEF Unclosed
  <2> QED
    BY <1>0, <1>i, <1>p, <1>u, <2>1 DEF LivesOn, Live
<1>2. CASE row'[s] = "active" /\ row[s] # "active"
  <2>1. s = c /\ InsertRow(c) /\ hpc[<<s, "create">>] = "ok" /\ Unclosed(s)
    BY <1>2, Inserted
  <2>2. Live(s)'
    BY <1>0, <1>i, <1>u, <2>1 DEF LivesOn, Live
  <2>3. hpc'[<<s, "close">>] = "none"
    <3>1. hpc' = hpc
      BY <2>1 DEF InsertRow
    <3>2. hpc[<<s, "close">>] = "none"
      <4>1. kind[s] = "create"
        BY <2>1 DEF Kinds, KindOf
      <4>2. target[s] = s
        BY <4>1, KindFrom
      <4> QED
        BY <2>1, <4>2 DEF Unclosed
    <3> QED
      BY <3>1, <3>2
  <2> QED
    BY <1>1, <2>2, <2>3 DEF LivesOn, Live
<1>3. CASE row[s] = "active" /\ row'[s] = "active"
  <2>1. hpc'[<<s, "close">>] = "none"
    <3>1. hpc[<<s, "close">>] = "none"
      BY <1>0, <1>3, <1>i DEF LivesOn
    <3>2. hpc[<<s, "create">>] = "ok" /\ pc[s] \notin {"create", "navigate", "insert"}
      BY <1>3 DEF Reached, ReachedBy
    <3>3. kind[s] = "create" /\ target[s] = s
      <4>1. kind[s] = "create"
        BY <3>2 DEF Kinds, KindOf
      <4> QED
        BY <4>1, KindFrom
    <3>4. ASSUME s = c, pc'[c] = "undo" PROVE FALSE
      <4>1. ~(TimeOut(c) \/ DatabaseFails(c) \/ ApiDies(c))
        <5>1. TimeOut(c) \/ DatabaseFails(c) \/ ApiDies(c) =>
                faults'[c] \cap {"timeout", "died", "database"} # {}
          BY <3>3, <3>4, WentWrong
        <5> QED
          BY <3>4, <5>1 DEF Sound
      <4>2. ~Proceed(c) /\ ~Refused(c)
        BY <3>2, <3>4, Proceeded, WasRefused
      <4>3. ~(InsertRow(c) \/ Record(c) \/ MarkClosed(c))
        BY <3>4 DEF InsertRow, Record, MarkClosed, Goto, Typed
      <4> QED
        BY <4>1, <4>2, <4>3 DEF GoesOn, ApiStep
    <3> QED
      BY <1>p, <3>1, <3>4
  <2>2. ASSUME s \notin sessions'
        PROVE  \E d \in Call : Closer(d, s)' /\ hpc'[<<d, "close">>] = "ok"
    <3>1. PICK d \in Call : Closer(d, s) /\ hpc[<<d, "close">>] = "ok"
      BY <1>0, <1>3, <1>i, <1>u, <2>2 DEF LivesOn
    <3> QED
      BY <1>3, <3>1, CloserGoesOn
  <2>3. ASSUME context'[s] # "open"
        PROVE  \E d \in Call : Closer(d, s)' /\ hpc'[<<d, "close">>] \in {"delete", "ok"}
    <3>1. PICK d \in Call : Closer(d, s) /\ hpc[<<d, "close">>] \in {"delete", "ok"}
      BY <1>0, <1>3, <1>i, <1>u, <2>3 DEF LivesOn
    <3> QED
      BY <1>3, <3>1, CloserGoesOn
  <2> QED
    BY <1>1, <2>1, <2>2, <2>3 DEF LivesOn
<1>4. CASE row'[s] # "active"
  BY <1>1, <1>4 DEF LivesOn
<1> QED
  BY <1>2, <1>3, <1>4

\* A call that begins keeps Lives.
LEMMA BeginLives ==
  ASSUME Typed, Stages, HistoryTypes, Kinds, Reached, Lives, NEW c \in Call, Begins(c)
  PROVE  Lives'
<1> SUFFICES ASSUME NEW s \in Call, Sound(s)'
             PROVE  LivesOn(s)'
  BY DEF Lives, LivesOn
<1>u. UNCHANGED <<row, sessions, context, faults>> /\ hpc[<<c, "close">>] = "none"
      /\ hpc[<<c, "create">>] = "none"
      /\ \A d \in Call : d # c => pc'[d] = pc[d] /\ kind'[d] = kind[d] /\ target'[d] = target[d]
  BY Began, Ops, ZenonT(60) DEF registry, database, history
<1>i. LivesOn(s) /\ Sound(s)
  BY <1>u DEF Lives, Sound
<1>k. \A d \in Call : hpc[<<d, "close">>] # "none" =>
        /\ d # c /\ target'[d] = target[d] /\ hpc'[<<d, "close">>] # "none"
        /\ kind[d] = "close" => hpc'[<<d, "close">>] = hpc[<<d, "close">>]
  BY <1>u, CallsKeepClosers
<1>1. hpc'[<<s, "create">>] = "ok" /\ Unclosed(s)' => Live(s)'
  <2>1. hpc'[<<s, "create">>] = "ok" => hpc[<<s, "create">>] = "ok"
    BY CallsKeepRegistry
  <2>2. Unclosed(s)' => Unclosed(s)
    BY <1>k DEF Unclosed
  <2> QED
    BY <1>i, <1>u, <2>1, <2>2 DEF LivesOn, Live
<1>2. row[s] = "active" => hpc'[<<s, "close">>] = "none"
  <2> SUFFICES ASSUME row[s] = "active" PROVE hpc'[<<s, "close">>] = "none"
    OBVIOUS
  <2>1. s # c
    BY <1>u DEF Reached, ReachedBy
  <2>2. hpc[<<s, "close">>] = "none"
    BY <1>i DEF LivesOn
  <2>3. PICK op \in Op : \A e \in Call, o \in Op : hpc'[<<e, o>>] =
          IF e = c /\ o = op THEN IF op \in {"create", "probe"} THEN "connect" ELSE "get"
                             ELSE hpc[<<e, o>>]
    BY Began
  <2> QED
    BY <2>1, <2>2, <2>3, Ops
<1>3. \A d \in Call : Closer(d, s) /\ hpc[<<d, "close">>] \in {"delete", "ok"} =>
        Closer(d, s)' /\ hpc'[<<d, "close">>] = hpc[<<d, "close">>]
  BY <1>k, <1>u DEF Closer
<1> QED
  BY <1>1, <1>2, <1>3, <1>i, <1>u DEF LivesOn

\* Every step keeps Lives.
LEMMA NextLives ==
  Typed /\ Stages /\ HistoryTypes /\ Kinds /\ Reached /\ Waits /\ Lives /\ [Next]_vars => Lives'
<1> SUFFICES ASSUME Typed, Stages, HistoryTypes, Kinds, Reached, Waits, Lives, [Next]_vars
             PROVE  Lives'
  OBVIOUS
<1>1. ASSUME NEW c \in Call, Begins(c) PROVE Lives'
  BY <1>1, BeginLives
<1>2. ASSUME NEW c \in Call, GoesOn(c) PROVE Lives'
  BY <1>2, GoOnLives
<1>3. ASSUME NEW h \in Handler, HandlerStep(h) PROVE Lives'
  BY <1>3, HandlerLives
<1>4. CASE GatewayRestarts
  BY <1>4, RestartLives
<1>5. ASSUME NEW d \in browsers, BrowserLost(d) PROVE Lives'
  BY <1>5, BrowserLostLives
<1>6. CASE UNCHANGED vars
  BY <1>6 DEF vars, database, calls, registry, history, Lives, LivesOn, Sound, Unclosed, Live, Closer
<1> QED
  BY <1>1, <1>2, <1>3, <1>4, <1>5, <1>6 DEF Next, Begins, GoesOn

----------------------------------------------------------------------------
(* The list of actions.                                                    *)

\* No call at the session failed in a way that keeps an action out of the list.
Written(s) == s \in Call => faults[s] \cap {"timeout", "died", "database"} = {}

\* What is listed, or about to be, was done; and what was done is listed, or a call is on
\* its way to list it.
AuditedBy(c) ==
  /\ hpc[<<c, "perform">>] \in {"snapshot", "ok"} \/ pc[c] = "record" \/ c \in recorded =>
       c \in performed
  /\ hpc[<<c, "perform">>] = "ok" /\ Written(target[c]) =>
       pc[c] \in {"perform", "navigate", "insert", "record"} \/ c \in recorded

Audited == \A c \in Call : AuditedBy(c)

\* A handler of an action answers ok after a snapshot, and takes it after the action.
LEMMA PerformReplies ==
  ASSUME Typed, Stages, NEW h \in Handler, HandlerStep(h), NEW c \in Call, h = <<c, "perform">>
  PROVE  /\ hpc'[h] = "snapshot" => c \in performed'
         /\ hpc'[h] = "ok" => hpc[h] = "snapshot"
<1>h. h[1] = c /\ h[2] = "perform" /\ Serves("perform", hpc[h])
  BY HandlerFacts DEF Stages, Op
<1>t. ASSUME NEW to, HGoto(h, to) PROVE hpc'[h] = to
  BY <1>t DEF HGoto, Typed
<1>1. Get(h) \/ Act(h) \/ Snapshot(h)
  BY <1>h DEF HandlerStep, Connect, Started, StartFails, Join, JoinFails, Drop, Clear, Forget,
              NewContext, NewPage, CloseContext, Delete, Serves, Connecting
<1>2. CASE Get(h)
  BY <1>2, <1>h, <1>t DEF Get
<1>3. CASE Act(h)
  BY <1>3, <1>h, <1>t DEF Act
<1>4. CASE Snapshot(h)
  BY <1>4, <1>t DEF Snapshot, Fails
<1> QED
  BY <1>1, <1>2, <1>3, <1>4

\* Handlers forget no action.
LEMMA ActionsStay ==
  ASSUME NEW h \in Handler, HandlerStep(h)
  PROVE  performed \subseteq performed'
  BY DEF HandlerStep, Connect, Started, StartFails, Join, JoinFails, Drop, Clear, Forget,
         NewContext, NewPage, Get, Act, Snapshot, CloseContext, Delete, history

\* Unless something is forgotten or a handler answers, Audited stays.
LEMMA AuditedStay ==
  ASSUME Audited, \A s \in Call : faults[s] \subseteq faults'[s],
         UNCHANGED <<pc, target, recorded>>, performed \subseteq performed', NEW c \in Call,
         hpc'[<<c, "perform">>] \in {"snapshot", "ok"} => hpc[<<c, "perform">>] = hpc'[<<c, "perform">>]
  PROVE  AuditedBy(c)'
<1>1. AuditedBy(c)
  BY DEF Audited
<1>2. Written(target[c])' => Written(target[c])
  BY DEF Written
<1> QED
  BY <1>1, <1>2 DEF AuditedBy

\* A step of a handler keeps Audited.
LEMMA HandlerAudited ==
  ASSUME Typed, Stages, HistoryTypes, Kinds, Waits, Audited, NEW h \in Handler, HandlerStep(h)
  PROVE  Audited'
<1> SUFFICES ASSUME NEW c \in Call PROVE AuditedBy(c)'
  BY DEF Audited
<1>0. \A s \in Call : faults[s] \subseteq faults'[s]
  <2>1. [Next]_vars
    BY StepsAreNext
  <2> QED
    BY <2>1, FaultsGrow
<1>u. UNCHANGED <<pc, target, recorded>> /\ performed \subseteq performed'
  BY Turned, ActionsStay
<1>p. <<c, "perform">> \in Handler
  BY HandlerFacts DEF Op
<1>1. CASE h # <<c, "perform">>
  <2>1. hpc'[<<c, "perform">>] = hpc[<<c, "perform">>]
    BY <1>1, <1>p, Turned
  <2> QED
    BY <1>0, <1>u, <2>1, AuditedStay
<1>2. CASE h = <<c, "perform">>
  <2>1. /\ hpc'[<<c, "perform">>] = "snapshot" => c \in performed'
        /\ hpc'[<<c, "perform">>] = "ok" => hpc[<<c, "perform">>] = "snapshot"
    BY <1>2, PerformReplies
  <2>2. AuditedBy(c)
    BY DEF Audited
  <2>3. hpc'[<<c, "perform">>] = "ok" /\ Written(target[c])' => pc[c] \in {"perform", "navigate"}
    <3> SUFFICES ASSUME hpc'[<<c, "perform">>] = "ok", Written(target[c])'
                 PROVE  pc[c] \in {"perform", "navigate"}
      OBVIOUS
    <3>1. hpc[<<c, "perform">>] = "snapshot" /\ Running(<<c, "perform">>)
      BY <2>1 DEF Running, Reply
    <3>2. target[c] \in Call
      <4>1. kind[c] \in {"create", "act"}
        BY <3>1 DEF Kinds, KindOf
      <4> QED
        BY <4>1, KindFrom
    <3>3. Patient(c)
      BY <1>0, <1>u, <3>2 DEF Patient, Written
    <3> QED
      BY <3>1, <3>3 DEF Waits, WaitsFor
  <2> QED
    BY <1>u, <2>1, <2>2, <2>3 DEF AuditedBy
<1> QED
  BY <1>1, <1>2

\* A call that begins keeps Audited.
LEMMA BeginAudited ==
  ASSUME Typed, Stages, HistoryTypes, Kinds, Audited, NEW c \in Call, Begins(c)
  PROVE  Audited'
<1> SUFFICES ASSUME NEW d \in Call PROVE AuditedBy(d)'
  BY DEF Audited
<1>u. /\ UNCHANGED <<recorded, performed, faults>>
      /\ pc[c] = "new" /\ hpc[<<c, "perform">>] = "none"
      /\ \A e \in Call : e # c => pc'[e] = pc[e] /\ target'[e] = target[e]
  <2>1. UNCHANGED <<database, history>>
    BY Began
  <2>2. \A o \in Op : hpc[<<c, o>>] = "none"
    BY Began
  <2> QED
    BY <2>1, <2>2, Began, Ops DEF history, database
<1>1. PICK op \in Op :
        /\ pc'[c] = op
        /\ \A e \in Call, o \in Op : hpc'[<<e, o>>] =
             IF e = c /\ o = op THEN IF op \in {"create", "probe"} THEN "connect" ELSE "get"
                                ELSE hpc[<<e, o>>]
  BY Began
<1>2. hpc'[<<d, "perform">>] = IF d = c /\ "perform" = op THEN "get" ELSE hpc[<<d, "perform">>]
  BY <1>1, Ops
<1>3. pc'[c] # "record"
  BY <1>1, Ops
<1>4. AuditedBy(d)
  BY DEF Audited
<1>5. CASE d = c
  BY <1>u, <1>2, <1>3, <1>4, <1>5 DEF AuditedBy
<1>6. CASE d # c
  BY <1>u, <1>2, <1>4, <1>6 DEF AuditedBy, Written
<1> QED
  BY <1>5, <1>6

\* A call that goes on keeps Audited: it lists what was done, or fails.
LEMMA GoOnAudited ==
  ASSUME Typed, Stages, HistoryTypes, Kinds, Audited, NEW c \in Call, GoesOn(c)
  PROVE  Audited'
<1>u. UNCHANGED <<target, performed>> /\ \A d \in Call : d # c => pc'[d] = pc[d]
  BY WentOn
<1>p. \A d \in Call : hpc'[<<d, "perform">>] =
        IF d = c /\ pc'[c] = "navigate" THEN "get" ELSE hpc[<<d, "perform">>]
  BY WentOnHandlers
<1>f. \A s \in Call : faults[s] \subseteq faults'[s]
  <2>1. [Next]_vars
    BY StepsAreNext
  <2> QED
    BY <2>1, FaultsGrow
<1>g. ASSUME NEW to, Goto(c, to) PROVE pc'[c] = to
  BY <1>g DEF Goto, Typed
<1>r. recorded' = recorded \/ Record(c)
  <2>1. Proceed(c) \/ Refused(c) => recorded' = recorded
    BY Proceeded, WasRefused
  <2>2. InsertRow(c) \/ MarkClosed(c) => recorded' = recorded
    BY DEF InsertRow, MarkClosed
  <2>3. TimeOut(c) \/ DatabaseFails(c) \/ ApiDies(c) => recorded' = recorded
    BY WentWrong
  <2> QED
    BY <2>1, <2>2, <2>3 DEF GoesOn, ApiStep
<1>1. ASSUME NEW d \in Call, d # c PROVE AuditedBy(d)'
  <2>1. AuditedBy(d)
    BY DEF Audited
  <2>2. d \in recorded' <=> d \in recorded
    BY <1>1, <1>r DEF Record
  <2>3. Written(target[d])' => Written(target[d])
    BY <1>f, <1>u DEF Written
  <2> QED
    BY <1>1, <1>u, <1>p, <2>1, <2>2, <2>3 DEF AuditedBy
<1>2. AuditedBy(c)'
  <2>0. /\ AuditedBy(c)
        /\ hpc'[<<c, "perform">>] \in {"snapshot", "ok"} => hpc[<<c, "perform">>] = hpc'[<<c, "perform">>]
        /\ Written(target[c])' => Written(target[c])
    BY <1>f, <1>u, <1>p DEF Audited, Written
  <2>1. CASE Proceed(c)
    <3>1. recorded' = recorded
      BY <2>1, Proceeded
    <3>2. pc'[c] = "record" => hpc[<<c, "perform">>] = "ok"
      BY <2>1, Proceeded
    <3>3. pc[c] \in {"perform", "navigate", "insert", "record"} =>
            pc'[c] \in {"perform", "navigate", "insert", "record"}
      BY <2>1, Proceeded
    <3> QED
      BY <1>u, <2>0, <3>1, <3>2, <3>3 DEF AuditedBy
  <2>2. CASE Refused(c)
    <3>1. recorded' = recorded /\ pc'[c] # "record"
      BY <2>2, WasRefused
    <3>2. pc[c] \in {"perform", "navigate", "insert", "record"} => hpc[<<c, "perform">>] # "ok"
      BY <2>2, WasRefused
    <3> QED
      BY <1>u, <2>0, <3>1, <3>2 DEF AuditedBy
  <2>3. CASE InsertRow(c)
    <3>1. recorded' = recorded /\ pc'[c] = IF hpc[<<c, "perform">>] = "ok" THEN "record" ELSE "done"
      BY <1>g, <2>3 DEF InsertRow
    <3> QED
      BY <1>u, <2>0, <3>1 DEF AuditedBy
  <2>4. CASE Record(c)
    <3>1. pc[c] = "record" /\ c \in recorded' /\ c \in performed
      BY <2>0, <2>4 DEF Record, AuditedBy
    <3> QED
      BY <1>u, <3>1 DEF AuditedBy
  <2>5. CASE MarkClosed(c)
    <3>1. recorded' = recorded /\ pc'[c] = "done" /\ pc[c] = "mark"
      BY <1>g, <2>5 DEF MarkClosed
    <3> QED
      BY <1>u, <2>0, <3>1 DEF AuditedBy
  <2>6. CASE TimeOut(c) \/ DatabaseFails(c) \/ ApiDies(c)
    <3>1. recorded' = recorded
      BY <2>6, WentWrong
    <3>2. pc'[c] # "record"
      BY <1>g, <2>6, Raised DEF TimeOut, DatabaseFails, ApiDies
    <3>3. hpc[<<c, "perform">>] = "ok" => target[c] \in Call
      <4>1. hpc[<<c, "perform">>] = "ok" => kind[c] \in {"create", "act"}
        BY DEF Kinds, KindOf
      <4> QED
        BY <4>1, KindFrom
    <3>4. hpc[<<c, "perform">>] = "ok" => ~Written(target[c])'
      BY <1>u, <2>6, <3>3, WentWrong DEF Written
    <3> QED
      BY <1>u, <2>0, <3>1, <3>2, <3>4 DEF AuditedBy
  <2> QED
    BY <2>1, <2>2, <2>3, <2>4, <2>5, <2>6 DEF GoesOn, ApiStep
<1> QED
  BY <1>1, <1>2 DEF Audited

\* Every step keeps Audited.
LEMMA NextAudited ==
  Typed /\ Stages /\ HistoryTypes /\ Kinds /\ Waits /\ Audited /\ [Next]_vars => Audited'
<1> SUFFICES ASSUME Typed, Stages, HistoryTypes, Kinds, Waits, Audited, [Next]_vars
             PROVE  Audited'
  OBVIOUS
<1>0. \A s \in Call : faults[s] \subseteq faults'[s]
  BY FaultsGrow
<1>1. ASSUME NEW c \in Call, Begins(c) PROVE Audited'
  BY <1>1, BeginAudited
<1>2. ASSUME NEW c \in Call, GoesOn(c) PROVE Audited'
  BY <1>2, GoOnAudited
<1>3. ASSUME NEW h \in Handler, HandlerStep(h) PROVE Audited'
  BY <1>3, HandlerAudited
<1>4. CASE GatewayRestarts
  <2>1. \A c \in Call : <<c, "perform">> \in Handler
    BY HandlerFacts DEF Op
  <2>2. ASSUME NEW c \in Call PROVE AuditedBy(c)'
    BY <1>0, <1>4, <2>1, Restarted, AuditedStay DEF Reply
  <2> QED
    BY <2>2 DEF Audited
<1>5. ASSUME NEW d \in browsers, BrowserLost(d) PROVE Audited'
  BY <1>0, <1>5, AuditedStay DEF BrowserLost, calls, database, Audited
<1>6. CASE UNCHANGED vars
  BY <1>0, <1>6, AuditedStay DEF vars, calls, database, history, Audited
<1> QED
  BY <1>1, <1>2, <1>3, <1>4, <1>5, <1>6 DEF Next, Begins, GoesOn

----------------------------------------------------------------------------
(* The invariant and what it implies.                                      *)

Life == Kinds /\ Contexts /\ Reached /\ Waits /\ Registered /\ Ended /\ Kept /\ Lives /\ Audited

LInv == Typed /\ Stages /\ Closing /\ HistoryTypes /\ DriverTypes /\ Starts /\ Held /\ Life

\* LInv holds at the start.
LEMMA InitLife == Init => LInv
<1> SUFFICES ASSUME Init PROVE LInv
  OBVIOUS
<1>1. Typed /\ Stages /\ Closing
  BY InitTyped, InitClosing
<1>2. HistoryTypes
  BY FaultKinds DEF Init, HistoryTypes
<1>3. DriverTypes
  BY BrowserAssumption DEF Init, DriverTypes
<1>4. \A h \in Handler : hpc[h] = "none"
  BY DEF Init
<1>5. Starts /\ Held
  BY <1>4 DEF Starts, Held, Alone, Idle, AtRest, Connecting, Init
<1>6. \A c \in Call : /\ hpc[<<c, "create">>] = "none" /\ hpc[<<c, "perform">>] = "none"
                      /\ hpc[<<c, "close">>] = "none" /\ hpc[<<c, "probe">>] = "none"
  BY <1>4, Ops, Pairs
<1>7. Kinds /\ Contexts /\ Reached
  BY <1>6 DEF Init, Kinds, KindOf, Contexts, Reached, ReachedBy
<1>8. Waits /\ Registered /\ Ended /\ Kept
  BY <1>6 DEF Init, Waits, WaitsFor, Running, Registered, Ended, CreateEnded, CloseEnded, Reply, Kept, KeptBy
<1>9. Lives /\ Audited
  BY <1>6 DEF Init, Lives, LivesOn, Audited, AuditedBy
<1> QED
  BY <1>1, <1>2, <1>3, <1>5, <1>7, <1>8, <1>9 DEF LInv, Life

\* Every step keeps LInv.
LEMMA NextLife == LInv /\ [Next]_vars => LInv'
<1> SUFFICES ASSUME LInv, [Next]_vars PROVE LInv'
  OBVIOUS
<1>1. /\ Typed /\ Stages /\ Closing /\ HistoryTypes /\ DriverTypes /\ Starts /\ Held
      /\ Kinds /\ Contexts /\ Reached /\ Waits /\ Registered /\ Ended /\ Kept /\ Lives /\ Audited
  BY DEF LInv, Life
<1>2. Typed' /\ Stages' /\ Closing' /\ HistoryTypes'
  BY <1>1, NextTyped, NextClosing, NextHistory
<1>3. DriverTypes' /\ Starts' /\ Held'
  BY <1>1, NextDrivers, NextHeld
<1>4. Kinds' /\ Contexts' /\ Reached' /\ Waits'
  BY <1>1, NextKinds, NextContexts, NextReached, NextWaits
<1>5. Registered' /\ Ended' /\ Kept' /\ Lives' /\ Audited'
  BY <1>1, NextRegistered, NextEnded, NextKept, NextLives, NextAudited
<1> QED
  BY <1>2, <1>3, <1>4, <1>5 DEF LInv, Life

\* The inductive invariant: types; how far each handler of a call has come and what its
\* call waits for; what the connector holds; and what that says of each session's
\* registry entry, context and row.
THEOREM BrowserInvariant == Spec => []LInv
<1> QED
  BY InitLife, NextLife, PTL DEF Spec

\* Every variable of the API, the gateway and the connector keeps its type: the registry
\* holds only sessions that have a context, and a connected browser has a running driver.
THEOREM BrowserTypes == Spec => []TypeOK
<1>1. LInv => TypeOK
  <2> SUFFICES ASSUME LInv PROVE TypeOK
    OBVIOUS
  <2>1. Typed /\ HistoryTypes /\ DriverTypes /\ Contexts
    BY DEF LInv, Life
  <2>2. sessions \subseteq {s \in Call : context[s] # "none"}
    BY <2>1 DEF Typed, Contexts
  <2> QED
    BY <2>1, <2>2 DEF TypeOK, Typed, HistoryTypes, DriverTypes, ApiPc, HandlerPc
<1> QED
  BY <1>1, BrowserInvariant, PTL

\* The connector holds every driver that runs, but for one that is being started: a
\* connect that fails stops its driver, as long as no two connects overlap and no browser
\* is lost.
THEOREM ConnectorHoldsDrivers == Spec => []DriversAreHeld
<1>1. LInv => DriversAreHeld
  <2> SUFFICES ASSUME LInv, ~raced, NEW d \in drivers \ {driver}
               PROVE  \E h \in Handler : hpc[h] = "starting" /\ mine[h[1]] = d
    BY DEF DriversAreHeld
  <2>1. d # 0
    BY DEF LInv, DriverTypes
  <2>2. (Idle => AtRest) /\ \A h \in Handler : hpc[h] \in Connecting => AtWork(h)
    BY DEF LInv, Held
  <2>3. CASE Idle
    BY <2>1, <2>2, <2>3 DEF AtRest
  <2>4. CASE ~Idle
    <3>1. PICK h \in Handler : hpc[h] \in Connecting
      BY <2>4 DEF Idle
    <3>2. AtWork(h)
      BY <2>2, <3>1
    <3> QED
      BY <3>1, <3>2 DEF AtWork, Connecting
  <2> QED
    BY <2>3, <2>4
<1> QED
  BY <1>1, BrowserInvariant, PTL

\* An open context has an active row or a call that works on it: a creation that is
\* refused, or whose row cannot be written, is undone, so that only a call that gave up or
\* died, or an error of Playwright, leaves a context behind.
THEOREM ContextsAreOwned == Spec => []NothingLeaks
<1>1. LInv => NothingLeaks
  <2> SUFFICES ASSUME LInv, NEW s \in Call, context[s] = "open",
                      faults[s] \cap {"timeout", "died", "raised"} = {}, row[s] # "active"
               PROVE  s \in InFlight(s)
    BY DEF NothingLeaks
  <2>1. row[s] # "closed"
    BY DEF LInv, Closing, Dead
  <2>2. row[s] = "none"
    BY <2>1 DEF LInv, Typed
  <2>3. pc[s] \notin Over
    BY <2>2 DEF LInv, Life, Kept, KeptBy
  <2>4. target[s] = s
    <3>1. hpc[<<s, "create">>] # "none"
      BY DEF LInv, Life, Contexts, Reply
    <3> QED
      BY <3>1 DEF LInv, Life, Kinds, KindOf
  <2> QED
    BY <2>3, <2>4 DEF InFlight
<1> QED
  BY <1>1, BrowserInvariant, PTL

\* A session whose row says active is in the registry with an open context, or a call that
\* closes it is still to mark its row, unless something other than an error of Playwright
\* went wrong with it.
THEOREM ActiveSessionsLive == Spec => []ActiveIsLive
<1>1. LInv => ActiveIsLive
  <2> SUFFICES ASSUME LInv, NEW s \in Call, row[s] = "active", faults[s] \subseteq {"raised"},
                      ~(s \in sessions /\ context[s] = "open")
               PROVE  \E c \in InFlight(s) : kind[c] = "close"
    BY DEF ActiveIsLive
  <2>1. LivesOn(s)
    BY DEF LInv, Life, Lives
  <2>2. PICK c \in Call : Closer(c, s)
    BY <2>1 DEF LivesOn, Sound
  <2> QED
    BY <2>2 DEF Closer, InFlight
<1> QED
  BY <1>1, BrowserInvariant, PTL

\* Every action that is listed was done, and every action that was done is listed when its
\* call is over, unless the gateway reported an error or the call failed at the session.
THEOREM ActionsAreListed == Spec => []AuditIsTrue
<1>1. LInv => AuditIsTrue
  <2> SUFFICES ASSUME LInv, NEW c \in Call
               PROVE  /\ c \in recorded => c \in performed
                      /\ /\ c \in performed /\ pc[c] \in Over /\ hpc[<<c, "perform">>] = "ok"
                         /\ faults[target[c]] \cap {"timeout", "died", "database"} = {}
                         => c \in recorded
    BY DEF AuditIsTrue
  <2>1. AuditedBy(c)
    BY DEF LInv, Life, Audited
  <2> QED
    BY <2>1 DEF AuditedBy, Written, Over
<1> QED
  BY <1>1, BrowserInvariant, PTL
=============================================================================
