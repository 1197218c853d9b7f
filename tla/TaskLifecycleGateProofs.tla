---------------------- MODULE TaskLifecycleGateProofs ----------------------
(***************************************************************************)
(* Proofs that TaskLifecycle keeps the promise of ApprovalGate, for every  *)
(* number of workers, tasks, API calls, runs and crashes, and that one     *)
(* worker at a time has a task.  The invariants are stated per task, under *)
(* the faults each of them needs to be absent.                             *)
(***************************************************************************)
EXTENDS TaskLifecycleProofs

Unspoilt(t, kinds) == faults[t] \cap kinds = {}

----------------------------------------------------------------------------
(* The invariants.                                                         *)

\* Stamps are dealt out once.
Stamps ==
  /\ \A s \in Stamp : s >= clock => approvals[s].task = None
  /\ \A w \in Worker : pc[w] \in {"tool", "run"} =>
       mem[w].stamp \in Stamp /\ mem[w].stamp < clock /\ approvals[mem[w].stamp].task = None
  /\ \A v, w \in Worker :
       /\ pc[v] \in {"tool", "run"} /\ pc[w] \in {"tool", "run"}
       /\ mem[v].stamp = mem[w].stamp
       => v = w
  /\ \A s \in Stamp : approvals[s].task = None => ran[s] = 0

\* An approval belongs to the task of whoever names it.
Owners ==
  /\ \A w \in Worker : pc[w] = "pause" =>
       mem[w].stamp \in Stamp /\ approvals[mem[w].stamp].task = cur[w]
  /\ \A t \in Task : row[t].checkpoint # None => approvals[row[t].checkpoint].task = t
  /\ \A w \in Worker : mem[w].call # None =>
       pc[w] # "idle" /\ approvals[mem[w].call].task = cur[w]
  /\ \A r \in Request : rpc[r] \in {"decide", "decided", "requeue"} =>
       req[r].approval \in Stamp /\ approvals[req[r].approval].task = req[r].task

\* What Load found decides the branch a worker takes.
Branch ==
  \A w \in Worker :
    /\ pc[w] = "start" => mem[w].call = None
    /\ pc[w] \in {"check", "denied", "approved", "tool_started", "resume"} => mem[w].call # None

\* Worker w knows the checkpoint of task t, and dates its approval last.
HeldBy(w, t) ==
  /\ pc[w] \in Acting =>
       row[t].checkpoint = mem[w].call /\ mem[w].cache.checkpoint = mem[w].call
  /\ pc[w] \in {"tool", "run"} =>
       \A s \in Stamp : approvals[s].task = t => s < mem[w].stamp
  /\ pc[w] = "pause" => IsLatest(mem[w].stamp, t)

HeldAt(t) == \A w \in Worker : Busy(w, t) => HeldBy(w, t)
Held == \A t \in Task : Unspoilt(t, {"overlap"}) => HeldAt(t)

Granted == {"approved", "tool_started", "resume", "refresh", "tool"}

\* The checkpoint names the latest approval, unless a worker is about to replace it.
LatestAt(t) ==
  /\ row[t].checkpoint # None =>
       \/ IsLatest(row[t].checkpoint, t)
       \/ \E w \in Worker : Busy(w, t) /\ pc[w] = "pause"
  /\ \A w \in Worker : cur[w] = t /\ pc[w] \in Granted /\ mem[w].call # None =>
       mem[w].grant = mem[w].call

Latest == \A t \in Task : Unspoilt(t, {"overlap", "torn"}) => LatestAt(t)

Deciding(r, t) == req[r].task = t /\ rpc[r] \in {"decided", "requeue"}
Asks(s, t) == approvals[s].task = t /\ approvals[s].status = "pending"

\* No question of the task is open and no answer is on its way.
Quiet(t) == (\A s \in Stamp : ~Asks(s, t)) /\ \A r \in Request : ~Deciding(r, t)

\* A task has one open question, or one answer on its way to the queue, or neither.
Single(t) ==
  /\ row[t].status = "queued" => Quiet(t)
  /\ \A s, u \in Stamp : Asks(s, t) /\ Asks(u, t) => s = u
  /\ \A r \in Request : Deciding(r, t) =>
       /\ \A s \in Stamp : ~Asks(s, t)
       /\ \A q \in Request : Deciding(q, t) => q = r
       /\ rpc[r] = "requeue" =>
            /\ req[r].cache.status # "queued"
            /\ req[r].cache.lease = "free" => row[t].lease # "held"

\* A worker that has not paused has its task undisturbed.
Undisturbed(w, t) ==
  /\ pc[w] # "pause" => Quiet(t)
  /\ pc[w] \in Unread => row[t].status \in {"queued", "cancelled"}
  /\ pc[w] \in {"check", "start", "resume", "approved", "tool_started"} =>
       mem[w].cache.status = "queued"
  /\ pc[w] \in {"refresh", "started", "tool", "run"} =>
       row[t].status \in {"running", "cancelled"}

OneQuestionAt(t) == Single(t) /\ \A w \in Worker : Busy(w, t) => Undisturbed(w, t)
OneQuestion == \A t \in Task : Unspoilt(t, {"overlap", "double"}) => OneQuestionAt(t)

\* The worker is past the approved call.
Past == {"run", "fail", "tool_completed", "model_response", "deliver", "succeed"}

\* A call that was executed was approved and was not executed before; it is not
\* served again, since nothing queues its task before the next question.
ExecutedAt(t) ==
  /\ \A w \in Worker : cur[w] = t /\ pc[w] \in Granted /\ mem[w].call # None =>
       approvals[mem[w].call].status = "approved"
  /\ \A s \in Stamp : approvals[s].task = t /\ ran[s] > 0 =>
       /\ ran[s] = 1 /\ approvals[s].status = "approved"
       /\ IsLatest(s, t) =>
            /\ Quiet(t) /\ row[t].status # "queued"
            /\ \A w \in Worker : Busy(w, t) => pc[w] \in Past

Executed == \A t \in Task : Unspoilt(t, {"overlap", "torn", "double"}) => ExecutedAt(t)

\* A task that waits, or is about to, can be answered or has been.
AnswerableAt(t) ==
  /\ row[t].status = "waiting_approval" =>
       \/ \E s \in Stamp : IsLatest(s, t) /\ approvals[s].status = "pending"
       \/ \E r \in Request : Deciding(r, t)
  /\ \A w \in Worker : Busy(w, t) /\ pc[w] = "pause" =>
       \/ approvals[mem[w].stamp].status = "pending"
       \/ \E r \in Request : Deciding(r, t)

Answerable == \A t \in Task : Unspoilt(t, {"overlap", "double", "abandoned"}) => AnswerableAt(t)

----------------------------------------------------------------------------
(* What the steps change.                                                  *)

\* A step of one worker.
LEMMA StepEffect ==
  ASSUME TypeOK, NEW w \in Worker, NEW to, NEW m, Step(w, to, m)
  PROVE  /\ pc'[w] = to
         /\ cur'[w] = (IF to = "idle" THEN None ELSE cur[w])
         /\ mem'[w] = (IF to = "idle" THEN NoMem ELSE m)
         /\ \A v \in Worker : v # w => pc'[v] = pc[v] /\ cur'[v] = cur[v] /\ mem'[v] = mem[v]
  BY DEF Step, TypeOK

\* A worker goes on with its locals.
LEMMA GotoEffect ==
  ASSUME TypeOK, NEW w \in Worker, NEW to, Goto(w, to)
  PROVE  /\ pc'[w] = to
         /\ cur'[w] = (IF to = "idle" THEN None ELSE cur[w])
         /\ mem'[w] = (IF to = "idle" THEN NoMem ELSE mem[w])
         /\ \A v \in Worker : v # w => pc'[v] = pc[v] /\ cur'[v] = cur[v] /\ mem'[v] = mem[v]
  BY StepEffect DEF Goto

\* A fault is added to the history of one task.
LEMMA FaultEffect ==
  ASSUME TypeOK, NEW t, NEW kinds, Fault(t, kinds)
  PROVE  /\ \A u \in Task : faults[u] \subseteq faults'[u]
         /\ \A u \in Task : u # t => faults'[u] = faults[u]
         /\ t \in Task => faults'[t] = faults[t] \cup kinds
  BY DEF Fault, TypeOK

\* No step forgets a fault.
LEMMA FaultsGrow ==
  ASSUME TypeOK, [Next]_vars PROVE \A t \in Task : faults[t] \subseteq faults'[t]
<1>1. faults' = faults \/ \E t, kinds : Fault(t, kinds)
  BY ZenonT(60) DEF Next, WorkerStep, UserCalls, RequestStep, Claim, ReadText, Load, Cancel,
         CheckUnanswered, CheckAnswered, Start, Resume, RefreshFresh, RefreshResumed,
         AppendStarted, ExecuteTool, Answer, RunRaises, Ask, Pause, Fail, AppendEvent, Deliver,
         Succeed, Crash, LeaseLapse, CancelRead, CancelCommit, DecideRead, DecideCommit,
         RequeueRead, RequeueCommit, RequestDies, vars, historyVars
<1> QED
  BY <1>1 DEF Fault, TypeOK

----------------------------------------------------------------------------
(* Stamps and owners.                                                      *)

\* The steps of a worker that neither take a stamp nor ask nor run a tool.
Plain(w) ==
  \/ (\E t \in Task : Claim(w, t))
  \/ ReadText(w) \/ Load(w) \/ Cancel(w) \/ CheckUnanswered(w) \/ (\E s \in Stamp : CheckAnswered(w, s))
  \/ Start(w) \/ Resume(w) \/ RefreshFresh(w) \/ Answer(w) \/ RunRaises(w) \/ Pause(w) \/ Fail(w)
  \/ AppendEvent(w) \/ Deliver(w) \/ Succeed(w) \/ Crash(w)

\* A plain step of a worker moves no other worker, asks nothing and executes nothing.
LEMMA PlainEffect ==
  ASSUME TypeOK, NEW w \in Worker, Plain(w)
  PROVE  /\ UNCHANGED <<approvals, clock, ran, requestVars>>
         /\ \A v \in Worker : v # w => pc'[v] = pc[v] /\ cur'[v] = cur[v] /\ mem'[v] = mem[v]
         /\ pc'[w] \notin {"tool", "run"}
<1> USE DEF requestVars, historyVars
<1>1. ASSUME NEW t \in Task, Claim(w, t)
      PROVE  /\ UNCHANGED <<approvals, clock, ran, requestVars>>
             /\ \A v \in Worker : v # w => pc'[v] = pc[v] /\ cur'[v] = cur[v] /\ mem'[v] = mem[v]
             /\ pc'[w] \notin {"tool", "run"}
  BY <1>1 DEF Claim, TypeOK
<1>2. CASE \E t \in Task : Claim(w, t)
  BY <1>1, <1>2
<1>3. CASE ReadText(w) \/ Load(w) \/ Cancel(w) \/ CheckUnanswered(w)
  BY <1>3, StepEffect, GotoEffect DEF ReadText, Load, LoadTo, Cancel, CheckUnanswered
<1>4. ASSUME NEW s \in Stamp, CheckAnswered(w, s)
      PROVE  /\ UNCHANGED <<approvals, clock, ran, requestVars>>
             /\ \A v \in Worker : v # w => pc'[v] = pc[v] /\ cur'[v] = cur[v] /\ mem'[v] = mem[v]
             /\ pc'[w] \notin {"tool", "run"}
  <2>1. approvals[s].status \in {"pending", "approved", "denied"}
    BY DEF TypeOK, Approval
  <2> QED
    BY <1>4, <2>1, StepEffect DEF CheckAnswered
<1>5. CASE Start(w) \/ Resume(w) \/ RefreshFresh(w) \/ Answer(w) \/ RunRaises(w) \/ Pause(w)
  BY <1>5, StepEffect, GotoEffect DEF Start, Resume, RefreshFresh, Answer, RunRaises, Pause
<1>6. CASE Fail(w) \/ Deliver(w) \/ Succeed(w) \/ Crash(w)
  BY <1>6, GotoEffect DEF Fail, Deliver, Succeed, Crash
<1>7. CASE AppendEvent(w)
  <2>1. After[pc[w]] \notin {"tool", "run"}
    BY <1>7 DEF AppendEvent, After
  <2> QED
    BY <1>7, <2>1, GotoEffect DEF AppendEvent
<1> QED
  BY <1>2, <1>3, <1>4, <1>5, <1>6, <1>7 DEF Plain

\* A step of an API call or of time leaves the workers alone, and decides at most.
LEMMA OutsideEffect ==
  ASSUME TypeOK, Linked,
         \/ \E t \in Task : LeaseLapse(t)
         \/ \E r \in Request : UserCalls(r) \/ RequestStep(r) \/ RequestDies(r)
  PROVE  /\ UNCHANGED <<workerVars, clock, ran>>
         /\ \A s \in Stamp : approvals'[s].task = approvals[s].task
         /\ \A t \in Task : row'[t].checkpoint = row[t].checkpoint
<1> USE DEF workerVars, historyVars, requestVars
<1>1. ASSUME NEW t \in Task, LeaseLapse(t)
      PROVE  \A u \in Task : row'[u].checkpoint = row[u].checkpoint
  BY <1>1 DEF LeaseLapse, TypeOK, Row
<1>2. ASSUME NEW r \in Request, CancelCommit(r) \/ RequeueCommit(r)
      PROVE  \A u \in Task : row'[u].checkpoint = row[u].checkpoint
  BY <1>2, RequestEffect
<1>3. ASSUME NEW r \in Request, DecideCommit(r)
      PROVE  \A s \in Stamp : approvals'[s].task = approvals[s].task
  BY <1>3 DEF DecideCommit, TypeOK, Approval
<1>4. CASE \E t \in Task : LeaseLapse(t)
  BY <1>1, <1>4 DEF LeaseLapse
<1>5. ASSUME NEW r \in Request, UserCalls(r) \/ RequestStep(r) \/ RequestDies(r)
      PROVE  /\ UNCHANGED <<workerVars, clock, ran>>
             /\ \A s \in Stamp : approvals'[s].task = approvals[s].task
             /\ \A t \in Task : row'[t].checkpoint = row[t].checkpoint
  BY <1>2, <1>3, <1>5 DEF UserCalls, RequestStep, CancelRead, CancelCommit, DecideRead, DecideCommit,
     RequeueRead, RequeueCommit, RequestDies
<1> QED
  BY <1>4, <1>5

\* Every step keeps the stamps unique.
LEMMA NextStamps == Typed /\ Owners /\ Stamps /\ [Next]_vars => Stamps'
<1> SUFFICES ASSUME TypeOK, Linked, Owners, Stamps, [Next]_vars PROVE Stamps'
  BY DEF Typed
<1> USE NoneAssumption, BoundAssumption DEF requestVars, historyVars
<1>1. ASSUME UNCHANGED <<clock, ran>>,
             \A s \in Stamp : approvals'[s].task = approvals[s].task,
             \A w \in Worker : pc'[w] \in {"tool", "run"} => pc'[w] = pc[w] /\ mem'[w] = mem[w]
      PROVE  Stamps'
  BY <1>1 DEF Stamps
<1>2. ASSUME NEW w \in Worker, Plain(w) PROVE Stamps'
  BY <1>1, <1>2, PlainEffect
<1>3. ASSUME NEW w \in Worker, RefreshResumed(w) \/ AppendStarted(w) PROVE Stamps'
  <2>1. /\ clock \in Stamp /\ clock' = clock + 1 /\ UNCHANGED <<approvals, ran>>
        /\ \A v \in Worker : v # w => pc'[v] = pc[v] /\ mem'[v] = mem[v]
    BY <1>3, StepEffect DEF RefreshResumed, AppendStarted, TakeStamp, TypeOK, Stamp
  <2>2. pc'[w] \in {"tool", "run"} => mem'[w].stamp = clock
    <3>1. mem[w] \in Mem
      BY DEF TypeOK
    <3>2. CASE RefreshResumed(w)
      <4> DEFINE m == [mem[w] EXCEPT !.cache = row[cur[w]], !.stamp = clock]
      <4>1. m.stamp = clock
        BY <3>1 DEF Mem
      <4>2. Step(w, "tool", m)
        BY <3>2 DEF RefreshResumed
      <4> HIDE DEF m
      <4> QED
        BY <4>1, <4>2, StepEffect
    <3>3. CASE AppendStarted(w)
      BY <3>1, <3>3, StepEffect DEF AppendStarted, Mem
    <3> QED
      BY <1>3, <3>2, <3>3
  <2> QED
    BY <2>1, <2>2 DEF Stamps, Stamp
<1>4. ASSUME NEW w \in Worker, ExecuteTool(w) PROVE Stamps'
  <2>1. /\ UNCHANGED <<approvals, clock>>
        /\ \A v \in Worker : v # w => pc'[v] = pc[v] /\ mem'[v] = mem[v]
        /\ pc'[w] = "run" => mem'[w] = mem[w]
    BY <1>4, GotoEffect DEF ExecuteTool
  <2>2. pc[w] = "tool" /\ pc'[w] \in {"run", "fail"}
    BY <1>4, GotoEffect DEF ExecuteTool
  <2>3. \A s \in Stamp : approvals[s].task = None => ran'[s] = ran[s]
    <3>1. cur[w] \in Task /\ mem[w].call \in Stamp
      BY <2>2 DEF Linked
    <3>2. approvals[mem[w].call].task = cur[w]
      BY <3>1 DEF Owners, Stamp
    <3> QED
      BY <1>4, <3>1, <3>2 DEF ExecuteTool, TypeOK
  <2> QED
    BY <2>1, <2>2, <2>3 DEF Stamps
<1>5. ASSUME NEW w \in Worker, Ask(w) PROVE Stamps'
  <2>1. /\ UNCHANGED <<clock, ran>> /\ pc[w] = "run" /\ pc'[w] = "pause"
        /\ \A v \in Worker : v # w => pc'[v] = pc[v] /\ mem'[v] = mem[v]
    BY <1>5, GotoEffect DEF Ask
  <2>2. /\ \A s \in Stamp : s # mem[w].stamp => approvals'[s] = approvals[s]
        /\ cur[w] \in Task /\ approvals'[mem[w].stamp].task = cur[w]
    BY <1>5, <2>1 DEF Ask, TypeOK, Linked, Stamps
  <2>3. \A v \in Worker : pc'[v] \in {"tool", "run"} =>
          v # w /\ mem[v].stamp \in Stamp /\ mem[v].stamp # mem[w].stamp
    BY <2>1 DEF Stamps
  <2>4. mem[w].stamp \in Stamp /\ ~(mem[w].stamp >= clock)
    BY <2>1 DEF Stamps, Stamp, TypeOK
  <2> QED
    BY <2>1, <2>2, <2>3, <2>4 DEF Stamps
<1>6. CASE (\E t \in Task : LeaseLapse(t)) \/ \E r \in Request : UserCalls(r) \/ RequestStep(r) \/ RequestDies(r)
  BY <1>1, <1>6, OutsideEffect DEF workerVars
<1>7. CASE UNCHANGED vars
  BY <1>1, <1>7 DEF vars, workerVars
<1> QED
  BY <1>2, <1>3, <1>4, <1>5, <1>6, <1>7 DEF Next, WorkerStep, Plain

\* The checkpoint after a worker's commit: the new one, or what was stored.
LEMMA CheckpointEffect ==
  ASSUME TypeOK, NEW w \in Worker, cur[w] \in Task, NEW status \in Status,
         NEW checkpoint \in Stamp \cup {None}, Update(w, status, checkpoint)
  PROVE  /\ \A t \in Task : t # cur[w] => row'[t] = row[t]
         /\ row'[cur[w]].checkpoint \in {row[cur[w]].checkpoint, checkpoint}
  BY UpdateEffect DEF Keep

\* Every step keeps approvals and those who name them together.
LEMMA NextOwners == Typed /\ Stamps /\ Owners /\ [Next]_vars => Owners'
<1> SUFFICES ASSUME TypeOK, Linked, Stamps, Owners, [Next]_vars PROVE Owners'
  BY DEF Typed
<1> USE NoneAssumption, BoundAssumption DEF requestVars, historyVars, Stamp
<1>0. /\ \A v \in Worker : mem[v] \in Mem /\ mem[v].call \in Stamp \cup {None}
                           /\ mem[v].stamp \in Stamp \cup {None}
      /\ \A t \in Task : row[t] \in Row /\ row[t].checkpoint \in Stamp \cup {None}
  BY DEF TypeOK, Mem, Row
<1>1. ASSUME NEW w \in Worker, UNCHANGED requestVars,
             \A v \in Worker : v # w => pc'[v] = pc[v] /\ cur'[v] = cur[v] /\ mem'[v] = mem[v],
             \A s \in Stamp : approvals[s].task # None => approvals'[s].task = approvals[s].task,
             pc'[w] = "pause" =>
               mem'[w].stamp \in Stamp /\ approvals'[mem'[w].stamp].task = cur'[w],
             mem'[w].call # None => pc'[w] # "idle" /\ approvals'[mem'[w].call].task = cur'[w],
             \A t \in Task : \/ row'[t].checkpoint \in {row[t].checkpoint, None}
                             \/ approvals'[row'[t].checkpoint].task = t
      PROVE  Owners'
  <2>1. \A v \in Worker : v # w /\ pc'[v] = "pause" =>
          mem'[v].stamp \in Stamp /\ approvals'[mem'[v].stamp].task = cur'[v]
    BY <1>1 DEF Owners, Linked
  <2>2. \A v \in Worker : v # w /\ mem'[v].call # None =>
          pc'[v] # "idle" /\ approvals'[mem'[v].call].task = cur'[v]
    BY <1>0, <1>1 DEF Owners, Linked
  <2>3. \A t \in Task : row'[t].checkpoint # None => approvals'[row'[t].checkpoint].task = t
    BY <1>0, <1>1 DEF Owners
  <2>4. \A r \in Request : rpc'[r] \in {"decide", "decided", "requeue"} =>
          req'[r].approval \in Stamp /\ approvals'[req'[r].approval].task = req'[r].task
    BY <1>1 DEF Owners, Linked
  <2> QED
    BY <1>1, <2>1, <2>2, <2>3, <2>4 DEF Owners
<1>2. ASSUME NEW w \in Worker, Plain(w), pc'[w] # "pause",
             pc'[w] = "idle" => mem'[w] = NoMem,
             pc'[w] # "idle" => mem'[w].call = mem[w].call /\ cur'[w] = cur[w],
             \A t \in Task : \/ row'[t].checkpoint \in {row[t].checkpoint, None}
                             \/ approvals[row'[t].checkpoint].task = t
      PROVE  Owners'
  <2>1. mem'[w].call # None => pc'[w] # "idle" /\ approvals'[mem'[w].call].task = cur'[w]
    BY <1>2, PlainEffect DEF Owners, NoMem
  <2> QED
    BY <1>1, <1>2, <2>1, PlainEffect
<1>3. ASSUME NEW w \in Worker, NEW t \in Task, Claim(w, t) PROVE Owners'
  <2>1. mem' = mem /\ mem[w].call = None /\ pc'[w] = "claimed"
    BY <1>3 DEF Claim, Owners, TypeOK
  <2>2. \A u \in Task : row'[u].checkpoint = row[u].checkpoint
    BY <1>0, <1>3 DEF Claim, TypeOK, Row
  <2>3. Plain(w)
    BY <1>3 DEF Plain
  <2> QED
    BY <1>1, <2>1, <2>2, <2>3, PlainEffect
<1>4. ASSUME NEW w \in Worker, ReadText(w) PROVE Owners'
  <2> DEFINE m == [mem[w] EXCEPT !.text = row[cur[w]].checkpoint = None /\ cur[w] \notin Blank]
  <2>1. m.call = mem[w].call
    BY <1>0 DEF Mem
  <2>2. Step(w, "load", m) /\ UNCHANGED row
    BY <1>4 DEF ReadText
  <2> HIDE DEF m
  <2>3. Plain(w)
    BY <1>4 DEF Plain
  <2> QED
    BY <1>2, <2>1, <2>2, <2>3, StepEffect
<1>5. ASSUME NEW w \in Worker, Load(w) PROVE Owners'
  <2> DEFINE m == [mem[w] EXCEPT !.cache = row[cur[w]], !.call = row[cur[w]].checkpoint]
  <2>1. m.call = row[cur[w]].checkpoint
    BY <1>0 DEF Mem
  <2>2. Step(w, LoadTo(w), m) /\ UNCHANGED <<row, approvals, requestVars>> /\ cur[w] \in Task
    BY <1>5 DEF Load, Linked
  <2>3. LoadTo(w) # "pause"
    BY DEF LoadTo
  <2> HIDE DEF m
  <2>4. mem'[w].call # None => pc'[w] # "idle" /\ approvals'[mem'[w].call].task = cur'[w]
    BY <2>1, <2>2, StepEffect DEF Owners, NoMem
  <2> QED
    BY <1>1, <2>2, <2>3, <2>4, StepEffect
<1>6. ASSUME NEW w \in Worker, NEW s \in Stamp, CheckAnswered(w, s) PROVE Owners'
  <2> DEFINE m == [mem[w] EXCEPT !.grant = s]
  <2>1. m.call = mem[w].call
    BY <1>0 DEF Mem
  <2>2. Step(w, approvals[s].status, m) /\ UNCHANGED row /\ approvals[s].status # "pause"
    BY <1>6 DEF CheckAnswered, TypeOK, Approval
  <2> HIDE DEF m
  <2>3. Plain(w)
    BY <1>6 DEF Plain
  <2> QED
    BY <1>2, <2>1, <2>2, <2>3, StepEffect
<1>7. ASSUME NEW w \in Worker, RefreshFresh(w) PROVE Owners'
  <2> DEFINE m == [mem[w] EXCEPT !.cache = row[cur[w]]]
  <2>1. m.call = mem[w].call
    BY <1>0 DEF Mem
  <2>2. Step(w, "started", m) /\ UNCHANGED row
    BY <1>7 DEF RefreshFresh
  <2> HIDE DEF m
  <2>3. Plain(w)
    BY <1>7 DEF Plain
  <2> QED
    BY <1>2, <2>1, <2>2, <2>3, StepEffect
<1>8. ASSUME NEW w \in Worker,
             \/ CheckUnanswered(w) \/ Answer(w) \/ RunRaises(w) \/ AppendEvent(w) \/ Deliver(w) \/ Crash(w)
      PROVE  Owners'
  <2>1. UNCHANGED row /\ \E to : Goto(w, to) /\ to # "pause"
    BY <1>8 DEF CheckUnanswered, Answer, RunRaises, AppendEvent, After, Deliver, Crash
  <2>2. Plain(w)
    BY <1>8 DEF Plain
  <2> QED
    BY <1>2, <2>1, <2>2, GotoEffect
<1>9. ASSUME NEW w \in Worker,
             Cancel(w) \/ Start(w) \/ Resume(w) \/ Fail(w) \/ Succeed(w)
      PROVE  Owners'
  <2>1. /\ cur[w] \in Task
        /\ \E status \in Status, checkpoint \in {None, mem[w].call} : Update(w, status, checkpoint)
        /\ \E to : Goto(w, to) /\ to # "pause"
    BY <1>9 DEF Cancel, Start, Resume, Fail, Succeed, Linked, Status, Terminal
  <2>2. /\ \A t \in Task : t # cur[w] => row'[t] = row[t]
        /\ row'[cur[w]].checkpoint \in {row[cur[w]].checkpoint, None, mem[w].call}
    <3>1. PICK status \in Status, checkpoint \in {None, mem[w].call} : Update(w, status, checkpoint)
      BY <2>1
    <3>2. checkpoint \in Stamp \cup {None}
      BY <1>0
    <3> QED
      BY <2>1, <3>1, <3>2, CheckpointEffect
  <2>3. \A t \in Task : \/ row'[t].checkpoint \in {row[t].checkpoint, None}
                        \/ approvals[row'[t].checkpoint].task = t
    BY <2>1, <2>2 DEF Owners
  <2>4. Plain(w)
    BY <1>9 DEF Plain
  <2> QED
    BY <1>2, <2>1, <2>3, <2>4, GotoEffect
<1>10. ASSUME NEW w \in Worker, Pause(w) PROVE Owners'
  <2>1. /\ cur[w] \in Task /\ pc[w] = "pause" /\ Update(w, "waiting_approval", mem[w].stamp)
        /\ Goto(w, "approval_requested")
    BY <1>10 DEF Pause, Linked
  <2>2. /\ \A t \in Task : t # cur[w] => row'[t] = row[t]
        /\ row'[cur[w]].checkpoint \in {row[cur[w]].checkpoint, mem[w].stamp}
    BY <1>0, <2>1, CheckpointEffect DEF Status
  <2>3. \A t \in Task : \/ row'[t].checkpoint \in {row[t].checkpoint, None}
                        \/ approvals[row'[t].checkpoint].task = t
    BY <2>1, <2>2 DEF Owners
  <2>4. Plain(w)
    BY <1>10 DEF Plain
  <2> QED
    BY <1>2, <2>1, <2>3, <2>4, GotoEffect
<1>11. ASSUME NEW w \in Worker, RefreshResumed(w) \/ AppendStarted(w) PROVE Owners'
  <2>1. PICK to, m : /\ Step(w, to, m) /\ m.call = mem[w].call /\ to # "pause"
                     /\ UNCHANGED <<row, approvals, requestVars>>
    <3>1. CASE RefreshResumed(w)
      <4>1. [mem[w] EXCEPT !.cache = row[cur[w]], !.stamp = clock].call = mem[w].call
        BY <1>0 DEF Mem
      <4> QED
        BY <3>1, <4>1 DEF RefreshResumed
    <3>2. CASE AppendStarted(w)
      <4>1. [mem[w] EXCEPT !.stamp = clock].call = mem[w].call
        BY <1>0 DEF Mem
      <4> QED
        BY <3>2, <4>1 DEF AppendStarted
    <3> QED
      BY <1>11, <3>1, <3>2
  <2>2. mem'[w].call # None => pc'[w] # "idle" /\ approvals'[mem'[w].call].task = cur'[w]
    BY <2>1, StepEffect DEF Owners, NoMem
  <2> QED
    BY <1>1, <2>1, <2>2, StepEffect
<1>12. ASSUME NEW w \in Worker, ExecuteTool(w) PROVE Owners'
  <2>1. PICK to \in {"run", "fail"} : Goto(w, to)
    BY <1>12 DEF ExecuteTool
  <2>2. mem'[w] = mem[w] /\ pc'[w] = to /\ cur'[w] = cur[w] /\ UNCHANGED <<row, approvals, requestVars>>
    BY <1>12, <2>1, GotoEffect DEF ExecuteTool
  <2> QED
    BY <1>1, <2>1, <2>2, GotoEffect DEF Owners
<1>13. ASSUME NEW w \in Worker, Ask(w) PROVE Owners'
  <2>1. /\ pc[w] = "run" /\ Goto(w, "pause") /\ UNCHANGED <<row, requestVars>>
        /\ cur[w] \in Task /\ mem[w].stamp \in Stamp /\ approvals[mem[w].stamp].task = None
    BY <1>13 DEF Ask, Linked, Stamps
  <2>2. /\ approvals'[mem[w].stamp].task = cur[w]
        /\ \A s \in Stamp : s # mem[w].stamp => approvals'[s] = approvals[s]
    BY <1>13, <2>1 DEF Ask, TypeOK
  <2>3. mem'[w] = mem[w] /\ pc'[w] = "pause" /\ cur'[w] = cur[w]
    BY <2>1, GotoEffect
  <2>4. mem[w].call # None => mem[w].call # mem[w].stamp
    BY <1>0, <2>1 DEF Owners
  <2>5. mem'[w].call # None => pc'[w] # "idle" /\ approvals'[mem'[w].call].task = cur'[w]
    BY <1>0, <2>2, <2>3, <2>4 DEF Owners
  <2> QED
    BY <1>1, <2>1, <2>2, <2>3, <2>5, GotoEffect
<1>14. ASSUME UNCHANGED workerVars,
              \A s \in Stamp : approvals'[s].task = approvals[s].task,
              \A t \in Task : row'[t].checkpoint = row[t].checkpoint,
              \A r \in Request : rpc'[r] \in {"decide", "decided", "requeue"} =>
                \/ /\ req'[r].approval = req[r].approval /\ req'[r].task = req[r].task
                   /\ rpc[r] \in {"decide", "decided", "requeue"}
                \/ /\ req'[r].approval \in Stamp
                   /\ approvals[req'[r].approval].task = req'[r].task
       PROVE  Owners'
  <2>1. \A r \in Request : rpc'[r] \in {"decide", "decided", "requeue"} =>
          req'[r].approval \in Stamp /\ approvals'[req'[r].approval].task = req'[r].task
    BY <1>14 DEF Owners
  <2>2. \A w \in Worker : /\ pc'[w] = pc[w] /\ cur'[w] = cur[w] /\ mem'[w] = mem[w]
    BY <1>14 DEF workerVars
  <2> QED
    BY <1>0, <1>14, <2>1, <2>2 DEF Owners
<1>15. CASE \E t \in Task : LeaseLapse(t)
  BY <1>14, <1>15, OutsideEffect DEF LeaseLapse
<1>16. ASSUME NEW r \in Request, UserCalls(r) \/ RequestStep(r) \/ RequestDies(r) PROVE Owners'
  <2>1. \A q \in Request : q # r => rpc'[q] = rpc[q] /\ req'[q] = req[q]
    BY <1>16 DEF UserCalls, RequestStep, CancelRead, CancelCommit, DecideRead, DecideCommit,
                 RequeueRead, RequeueCommit, RequestDies, Respond, TypeOK
  <2>2. rpc'[r] \in {"decide", "decided", "requeue"} =>
          \/ /\ req'[r].approval = req[r].approval /\ req'[r].task = req[r].task
             /\ rpc[r] \in {"decide", "decided", "requeue"}
          \/ /\ req'[r].approval \in Stamp
             /\ approvals[req'[r].approval].task = req'[r].task
    <3>1. CASE \E t \in Task : CancelRead(r, t)
      BY <3>1 DEF CancelRead, TypeOK
    <3>2. ASSUME NEW s \in Stamp, NEW d \in {"approved", "denied"}, DecideRead(r, s, d)
          PROVE  req'[r].approval = s /\ req'[r].task = approvals[s].task
      BY <3>2 DEF DecideRead, NoReq, TypeOK
    <3>3. CASE CancelCommit(r) \/ RequeueCommit(r) \/ RequestDies(r)
      BY <3>3 DEF CancelCommit, RequeueCommit, RequestDies, Respond, TypeOK
    <3>4. CASE DecideCommit(r)
      BY <3>4 DEF DecideCommit
    <3>5. CASE RequeueRead(r)
      BY <3>5 DEF RequeueRead, TypeOK, Req
    <3> QED
      BY <1>16, <3>1, <3>2, <3>3, <3>4, <3>5 DEF UserCalls, RequestStep
  <2> QED
    BY <1>14, <1>16, <2>1, <2>2, OutsideEffect
<1>17. CASE UNCHANGED vars
  BY <1>14, <1>17 DEF vars
<1> QED
  BY <1>3, <1>4, <1>5, <1>6, <1>7, <1>8, <1>9, <1>10, <1>11, <1>12, <1>13, <1>15, <1>16, <1>17
     DEF Next, WorkerStep

----------------------------------------------------------------------------
(* A worker's steps, sorted by what they touch.                            *)

Others(w) == \A v \in Worker : v # w => pc'[v] = pc[v] /\ cur'[v] = cur[v] /\ mem'[v] = mem[v]
Leaves(w) == pc'[w] = "idle" /\ cur'[w] = None /\ mem'[w] = NoMem
SameCall(w) == mem'[w].call = mem[w].call /\ mem'[w].grant = mem[w].grant

\* The steps that write no table but events.
Local(w) ==
  \/ ReadText(w) \/ Load(w) \/ CheckUnanswered(w) \/ (\E s \in Stamp : CheckAnswered(w, s))
  \/ RefreshFresh(w) \/ RefreshResumed(w) \/ AppendStarted(w) \/ Answer(w) \/ RunRaises(w)
  \/ AppendEvent(w) \/ Deliver(w) \/ Crash(w)

\* How they move worker w on.
Loads(w) ==
  /\ pc[w] = "load" /\ pc'[w] \in {"cancel", "check", "start"}
  /\ row[cur[w]].status \notin Terminal
  /\ mem'[w].cache = row[cur[w]] /\ mem'[w].call = row[cur[w]].checkpoint
  /\ pc'[w] = "start" => mem'[w].call = None
  /\ pc'[w] = "check" => mem'[w].call # None

Checks(w) ==
  /\ pc[w] = "check" /\ mem'[w].cache = mem[w].cache /\ mem'[w].call = mem[w].call
  /\ \E s \in Stamp : /\ IsLatest(s, cur[w]) /\ approvals[s].status \in {"approved", "denied"}
                      /\ pc'[w] = approvals[s].status /\ mem'[w].grant = s

Refreshes(w) ==
  /\ pc[w] = "refresh" /\ SameCall(w) /\ mem'[w].cache = row[cur[w]]
  /\ \/ pc'[w] = "started"
     \/ pc'[w] = "tool" /\ mem[w].call # None /\ mem'[w].stamp = clock

Runs(w) ==
  /\ pc[w] = "started" /\ pc'[w] = "run"
  /\ SameCall(w) /\ mem'[w].cache = mem[w].cache /\ mem'[w].stamp = clock

Proceeds(w) ==
  /\ <<pc[w], pc'[w]>> \in
       {<<"run", "tool_completed">>, <<"run", "model_response">>, <<"run", "fail">>,
        <<"denied", "fail">>, <<"approved", "tool_started">>, <<"tool_started", "resume">>,
        <<"tool_completed", "model_response">>, <<"model_response", "deliver">>,
        <<"deliver", "succeed">>}
  /\ mem'[w] = mem[w]

LocalMove(w) ==
  /\ UNCHANGED <<row, approvals, ran, requestVars>> /\ Others(w) /\ pc[w] # "idle"
  /\ \/ Leaves(w)
     \/ /\ cur'[w] = cur[w] /\ pc'[w] # "idle"
        /\ \/ pc[w] = "claimed" /\ pc'[w] = "load"
           \/ Loads(w) \/ Checks(w) \/ Refreshes(w) \/ Runs(w) \/ Proceeds(w)

\* A local step of a worker is a local move.
LEMMA LocalMoves ==
  ASSUME TypeOK, Linked, NEW w \in Worker, Local(w) PROVE LocalMove(w)
<1> USE DEF requestVars, historyVars, Others, Leaves
<1>0. mem[w] \in Mem
  BY DEF TypeOK
<1>1. CASE ReadText(w)
  <2>1. \E m : Step(w, "load", m)
    BY <1>1 DEF ReadText
  <2> QED
    BY <1>1, <2>1, StepEffect DEF ReadText, LocalMove
<1>2. CASE Load(w)
  <2> DEFINE m == [mem[w] EXCEPT !.cache = row[cur[w]], !.call = row[cur[w]].checkpoint]
  <2>1. m.cache = row[cur[w]] /\ m.call = row[cur[w]].checkpoint
    BY <1>0 DEF Mem
  <2>2. Step(w, LoadTo(w), m) /\ UNCHANGED <<row, approvals, ran, requestVars>> /\ pc[w] = "load"
    BY <1>2 DEF Load
  <2> HIDE DEF m
  <2>3. LoadTo(w) # "idle" =>
          /\ LoadTo(w) \in {"cancel", "check", "start"} /\ row[cur[w]].status \notin Terminal
          /\ LoadTo(w) = "start" => row[cur[w]].checkpoint = None
          /\ LoadTo(w) = "check" => row[cur[w]].checkpoint # None
    BY DEF LoadTo
  <2> QED
    BY <2>1, <2>2, <2>3, StepEffect DEF LocalMove, Loads
<1>3. ASSUME NEW s \in Stamp, CheckAnswered(w, s) PROVE LocalMove(w)
  <2> DEFINE m == [mem[w] EXCEPT !.grant = s]
  <2>1. m.cache = mem[w].cache /\ m.call = mem[w].call /\ m.grant = s
    BY <1>0 DEF Mem
  <2>2. /\ Step(w, approvals[s].status, m) /\ UNCHANGED <<row, approvals, ran, requestVars>>
        /\ pc[w] = "check" /\ IsLatest(s, cur[w]) /\ approvals[s].status \in {"approved", "denied"}
    BY <1>3 DEF CheckAnswered, TypeOK, Approval
  <2> HIDE DEF m
  <2> QED
    BY <2>1, <2>2, StepEffect DEF LocalMove, Checks
<1>4. CASE RefreshFresh(w)
  <2> DEFINE m == [mem[w] EXCEPT !.cache = row[cur[w]]]
  <2>1. m.cache = row[cur[w]] /\ m.call = mem[w].call /\ m.grant = mem[w].grant
    BY <1>0 DEF Mem
  <2>2. /\ Step(w, "started", m) /\ UNCHANGED <<row, approvals, ran, requestVars>>
        /\ pc[w] = "refresh"
    BY <1>4 DEF RefreshFresh
  <2> HIDE DEF m
  <2> QED
    BY <2>1, <2>2, StepEffect DEF LocalMove, Refreshes, SameCall
<1>5. CASE RefreshResumed(w)
  <2> DEFINE m == [mem[w] EXCEPT !.cache = row[cur[w]], !.stamp = clock]
  <2>1. m.cache = row[cur[w]] /\ m.call = mem[w].call /\ m.grant = mem[w].grant /\ m.stamp = clock
    BY <1>0 DEF Mem
  <2>2. /\ Step(w, "tool", m) /\ UNCHANGED <<row, approvals, ran, requestVars>>
        /\ pc[w] = "refresh" /\ mem[w].call # None
    BY <1>5 DEF RefreshResumed
  <2> HIDE DEF m
  <2> QED
    BY <2>1, <2>2, StepEffect DEF LocalMove, Refreshes, SameCall
<1>6. CASE AppendStarted(w)
  <2> DEFINE m == [mem[w] EXCEPT !.stamp = clock]
  <2>1. m.cache = mem[w].cache /\ m.call = mem[w].call /\ m.grant = mem[w].grant /\ m.stamp = clock
    BY <1>0 DEF Mem
  <2>2. /\ Step(w, "run", m) \/ Step(w, "idle", m)
        /\ UNCHANGED <<row, approvals, ran, requestVars>> /\ pc[w] = "started"
    BY <1>6 DEF AppendStarted
  <2> HIDE DEF m
  <2> QED
    BY <2>1, <2>2, StepEffect DEF LocalMove, Runs, SameCall
<1>7. CASE CheckUnanswered(w) \/ Crash(w)
  BY <1>7, GotoEffect DEF CheckUnanswered, Crash, LocalMove
<1>8. CASE Answer(w) \/ RunRaises(w) \/ Deliver(w)
  BY <1>8, GotoEffect DEF Answer, RunRaises, Deliver, LocalMove, Proceeds
<1>9. CASE AppendEvent(w)
  <2>1. /\ Goto(w, After[pc[w]]) /\ UNCHANGED <<row, approvals, ran, requestVars>>
        /\ After[pc[w]] = "idle" \/ <<pc[w], After[pc[w]]>> \in
             {<<"denied", "fail">>, <<"approved", "tool_started">>, <<"tool_started", "resume">>,
              <<"tool_completed", "model_response">>, <<"model_response", "deliver">>}
        /\ pc[w] # "idle"
    BY <1>9 DEF AppendEvent, After
  <2> QED
    BY <2>1, GotoEffect DEF LocalMove, Proceeds
<1> QED
  BY <1>1, <1>2, <1>3, <1>4, <1>5, <1>6, <1>7, <1>8, <1>9 DEF Local
\* What a commit of update_execution writes into the task's row.
Written(w, status, checkpoint) ==
  LET old == row[cur[w]]
      new == row'[cur[w]]
  IN /\ new.status = Keep(old.status, mem[w].cache.status, status)
     /\ new.checkpoint = Keep(old.checkpoint, mem[w].cache.checkpoint, checkpoint)
     /\ new.lease \in {old.lease, "free"}

\* An update writes the row of the worker's task, from the worker's copy of it.
LEMMA WrittenEffect ==
  ASSUME TypeOK, NEW w \in Worker, cur[w] \in Task, NEW status \in Status,
         NEW checkpoint \in Stamp \cup {None}, Update(w, status, checkpoint)
  PROVE  Written(w, status, checkpoint) /\ \A t \in Task : t # cur[w] => row'[t] = row[t]
<1> DEFINE new == Updated(mem[w].cache, status, checkpoint)
<1>1. mem[w].cache \in Row
  BY DEF TypeOK, Mem
<1>2. new.status = status
  BY <1>1 DEF Updated, Row
<1>3. row'[cur[w]] = Flush(row[cur[w]], mem[w].cache, new)
  BY DEF Update, TypeOK
<1>4. row'[cur[w]].status = Keep(row[cur[w]].status, mem[w].cache.status, status)
  <2> HIDE DEF new
  <2> QED
    BY <1>2, <1>3 DEF Flush
<1> QED
  BY <1>4, UpdateEffect DEF Written

\* The steps that commit the row.
Commit(w) == Cancel(w) \/ Start(w) \/ Resume(w) \/ Pause(w) \/ Fail(w) \/ Succeed(w)

CommitMove(w) ==
  /\ UNCHANGED <<approvals, ran, requestVars>> /\ Others(w) /\ cur[w] \in Task
  /\ \A t \in Task : t # cur[w] => row'[t] = row[t]
  /\ \/ pc[w] = "cancel" /\ Leaves(w) /\ Written(w, "cancelled", None)
     \/ /\ cur'[w] = cur[w] /\ mem'[w] = mem[w]
        /\ \/ pc[w] = "start" /\ pc'[w] = "refresh" /\ Written(w, "running", None)
           \/ pc[w] = "resume" /\ pc'[w] = "refresh" /\ Written(w, "running", mem[w].call)
           \/ /\ pc[w] = "pause" /\ pc'[w] = "approval_requested"
              /\ Written(w, "waiting_approval", mem[w].stamp)
           \/ pc[w] = "fail" /\ pc'[w] = "failed" /\ Written(w, "failed", None)
           \/ pc[w] = "succeed" /\ pc'[w] = "completed" /\ Written(w, "succeeded", None)

\* A commit of a worker is a commit's move.
LEMMA CommitMoves ==
  ASSUME TypeOK, Linked, NEW w \in Worker, Commit(w) PROVE CommitMove(w)
<1> USE DEF requestVars, historyVars, Others, Leaves
<1>1. mem[w].call \in Stamp \cup {None} /\ mem[w].stamp \in Stamp \cup {None}
  BY DEF TypeOK, Mem
<1>2. cur[w] \in Task /\ UNCHANGED <<approvals, ran, requestVars>>
  BY DEF Commit, Cancel, Start, Resume, Pause, Fail, Succeed, Linked
<1>3. {"cancelled", "running", "waiting_approval", "failed", "succeeded"} \subseteq Status
  BY DEF Status, Terminal
<1>4. CASE Cancel(w)
  BY <1>2, <1>3, <1>4, GotoEffect, WrittenEffect DEF Cancel, CommitMove
<1>5. CASE Start(w)
  BY <1>2, <1>3, <1>5, GotoEffect, WrittenEffect DEF Start, CommitMove
<1>6. CASE Resume(w)
  BY <1>1, <1>2, <1>3, <1>6, GotoEffect, WrittenEffect DEF Resume, CommitMove
<1>7. CASE Pause(w)
  BY <1>1, <1>2, <1>3, <1>7, GotoEffect, WrittenEffect DEF Pause, CommitMove
<1>8. CASE Fail(w)
  BY <1>2, <1>3, <1>8, GotoEffect, WrittenEffect DEF Fail, CommitMove
<1>9. CASE Succeed(w)
  BY <1>2, <1>3, <1>9, GotoEffect, WrittenEffect DEF Succeed, CommitMove
<1> QED
  BY <1>4, <1>5, <1>6, <1>7, <1>8, <1>9 DEF Commit

\* The three remaining steps of a worker.
ClaimMove(w, t) ==
  /\ UNCHANGED <<approvals, ran, mem, requestVars>> /\ Others(w)
  /\ pc[w] = "idle" /\ cur[w] \notin Task /\ pc'[w] = "claimed" /\ cur'[w] = t
  /\ Claimable(row[t]) /\ row'[t].lease = "held"
  /\ row'[t].status = row[t].status /\ row'[t].checkpoint = row[t].checkpoint
  /\ \A u \in Task : u # t => row'[u] = row[u]

\* A claim is a claim's move.
LEMMA ClaimMoves ==
  ASSUME TypeOK, Linked, NEW w \in Worker, NEW t \in Task, Claim(w, t) PROVE ClaimMove(w, t)
  BY DEF Claim, ClaimMove, Others, Linked, TypeOK, Row, requestVars, historyVars

ExecuteMove(w) ==
  /\ UNCHANGED <<row, approvals, requestVars>> /\ Others(w) /\ cur[w] \in Task
  /\ pc[w] = "tool" /\ pc'[w] \in {"run", "fail"} /\ cur'[w] = cur[w] /\ mem'[w] = mem[w]
  /\ mem[w].call \in Stamp /\ approvals[mem[w].call].task = cur[w]
  /\ ran'[mem[w].call] = ran[mem[w].call] + 1
  /\ \A s \in Stamp : s # mem[w].call => ran'[s] = ran[s]

\* The execution of the approved tool is an execution's move.
LEMMA ExecuteMoves ==
  ASSUME TypeOK, Linked, Owners, NEW w \in Worker, ExecuteTool(w) PROVE ExecuteMove(w)
<1> USE NoneAssumption DEF requestVars, Others
<1>1. pc[w] = "tool" /\ cur[w] \in Task /\ mem[w].call \in Stamp
  BY DEF ExecuteTool, Linked
<1>2. approvals[mem[w].call].task = cur[w]
  BY <1>1 DEF Owners, Stamp
<1>3. /\ ran'[mem[w].call] = ran[mem[w].call] + 1
      /\ \A s \in Stamp : s # mem[w].call => ran'[s] = ran[s]
  BY <1>1 DEF ExecuteTool, TypeOK
<1>4. /\ pc'[w] \in {"run", "fail"} /\ cur'[w] = cur[w] /\ mem'[w] = mem[w] /\ Others(w)
      /\ UNCHANGED <<row, approvals, requestVars>>
  BY GotoEffect DEF ExecuteTool
<1> QED
  BY <1>1, <1>2, <1>3, <1>4 DEF ExecuteMove

AskMove(w) ==
  /\ UNCHANGED <<row, ran, requestVars>> /\ Others(w) /\ cur[w] \in Task
  /\ pc[w] = "run" /\ pc'[w] = "pause" /\ cur'[w] = cur[w] /\ mem'[w] = mem[w]
  /\ mem[w].stamp \in Stamp /\ approvals[mem[w].stamp].task = None /\ ran[mem[w].stamp] = 0
  /\ approvals'[mem[w].stamp].task = cur[w] /\ approvals'[mem[w].stamp].status = "pending"
  /\ \A s \in Stamp : s # mem[w].stamp => approvals'[s] = approvals[s]

\* A pause that asks for an approval is a pause's move.
LEMMA AskMoves ==
  ASSUME TypeOK, Linked, Stamps, NEW w \in Worker, Ask(w) PROVE AskMove(w)
<1> USE DEF requestVars, historyVars, Others
<1>1. pc[w] = "run" /\ cur[w] \in Task /\ mem[w].stamp \in Stamp
  BY DEF Ask, Linked, Stamps
<1>2. approvals[mem[w].stamp].task = None /\ ran[mem[w].stamp] = 0
  BY <1>1 DEF Stamps
<1>3. /\ approvals'[mem[w].stamp].task = cur[w] /\ approvals'[mem[w].stamp].status = "pending"
      /\ \A s \in Stamp : s # mem[w].stamp => approvals'[s] = approvals[s]
  BY <1>1 DEF Ask, TypeOK
<1>4. /\ pc'[w] = "pause" /\ cur'[w] = cur[w] /\ mem'[w] = mem[w] /\ Others(w)
      /\ UNCHANGED <<row, ran, requestVars>>
  BY GotoEffect DEF Ask
<1> QED
  BY <1>1, <1>2, <1>3, <1>4 DEF AskMove
----------------------------------------------------------------------------
(* Steps that have nothing to do with a task leave all of it as it is.     *)

Untouched(t) ==
  /\ row'[t] = row[t]
  /\ \A s \in Stamp : approvals[s].task = t \/ approvals'[s].task = t =>
       approvals'[s] = approvals[s] /\ ran'[s] = ran[s]
  /\ \A w \in Worker : cur[w] = t \/ cur'[w] = t =>
       pc'[w] = pc[w] /\ cur'[w] = cur[w] /\ mem'[w] = mem[w]
  /\ \A r \in Request : Deciding(r, t) \/ Deciding(r, t)' =>
       rpc'[r] = rpc[r] /\ req'[r] = req[r]

\* A worker's step and the tasks of others.
LEMMA WorkerElsewhere ==
  ASSUME TypeOK, Linked, Stamps, Owners, NEW w \in Worker, WorkerStep(w) \/ Crash(w),
         NEW t \in Task, t # cur[w], ~Claim(w, t)
  PROVE  Untouched(t)
<1> USE NoneAssumption DEF requestVars
<1>1. CASE Local(w)
  BY <1>1, LocalMoves DEF LocalMove, Others, Leaves, Untouched, Deciding
<1>2. CASE Commit(w)
  BY <1>2, CommitMoves DEF CommitMove, Others, Leaves, Untouched, Deciding
<1>3. ASSUME NEW u \in Task, Claim(w, u) PROVE Untouched(t)
  BY <1>3, ClaimMoves DEF ClaimMove, Others, Untouched, Deciding
<1>4. CASE ExecuteTool(w)
  BY <1>4, ExecuteMoves DEF ExecuteMove, Others, Untouched, Deciding
<1>5. CASE Ask(w)
  BY <1>5, AskMoves DEF AskMove, Others, Untouched, Deciding
<1> QED
  BY <1>1, <1>2, <1>3, <1>4, <1>5 DEF WorkerStep, Local, Commit

\* An API call's step and the tasks it is not about.
LEMMA RequestElsewhere ==
  ASSUME TypeOK, Linked, Owners, NEW r \in Request, NEW t \in Task,
         \/ UserCalls(r)
         \/ t # req[r].task /\ (RequestStep(r) \/ RequestDies(r))
  PROVE  Untouched(t)
<1> USE DEF historyVars, workerVars
<1>1. CASE UserCalls(r)
  <2>1. /\ UNCHANGED <<row, approvals, ran, workerVars>> /\ rpc[r] = "idle"
        /\ rpc'[r] \in {"cancel", "decide"}
        /\ \A q \in Request : q # r => rpc'[q] = rpc[q] /\ req'[q] = req[q]
    BY <1>1 DEF UserCalls, CancelRead, DecideRead, TypeOK
  <2> QED
    BY <2>1 DEF Untouched, Deciding
<1>2. ASSUME t # req[r].task, UNCHANGED workerVars, row'[t] = row[t],
             \A s \in Stamp : approvals[s].task # req[r].task => approvals'[s] = approvals[s],
             \A s \in Stamp : approvals'[s].task = approvals[s].task,
             UNCHANGED ran, req'[r].task # t,
             \A q \in Request : q # r => rpc'[q] = rpc[q] /\ req'[q] = req[q]
      PROVE  Untouched(t)
  BY <1>2 DEF Untouched, Deciding
<1>3. ASSUME t # req[r].task, RequestStep(r) \/ RequestDies(r) PROVE Untouched(t)
  <2>1. UNCHANGED <<workerVars, ran>> /\ \A s \in Stamp : approvals'[s].task = approvals[s].task
    BY <1>3, OutsideEffect
  <2>2. /\ \A q \in Request : q # r => rpc'[q] = rpc[q] /\ req'[q] = req[q]
        /\ req'[r] = NoReq \/ req'[r].task = req[r].task
    BY <1>3 DEF RequestStep, RequestDies, CancelCommit, DecideCommit, RequeueRead, RequeueCommit,
                Respond, TypeOK, Req
  <2>3. row'[t] = row[t]
    <3>1. CASE CancelCommit(r) \/ RequeueCommit(r)
      BY <1>3, <3>1, RequestEffect
    <3> QED
      BY <1>3, <3>1 DEF RequestStep, RequestDies, DecideCommit, RequeueRead
  <2>4. \A s \in Stamp : approvals[s].task # req[r].task => approvals'[s] = approvals[s]
    <3>1. CASE DecideCommit(r)
      <4>1. approvals[req[r].approval].task = req[r].task /\ req[r].approval \in Stamp
        BY <3>1 DEF DecideCommit, Owners
      <4> QED
        BY <3>1, <4>1 DEF DecideCommit, TypeOK
    <3> QED
      BY <1>3, <3>1 DEF RequestStep, RequestDies, CancelCommit, RequeueRead, RequeueCommit
  <2>5. req'[r].task # t
    BY <1>3, <2>2, NoneAssumption DEF NoReq
  <2> QED
    BY <1>2, <1>3, <2>1, <2>2, <2>3, <2>4, <2>5
<1> QED
  BY <1>1, <1>3

\* The lapse of another task's lease, and no step at all.
LEMMA OtherElsewhere ==
  ASSUME TypeOK, NEW t \in Task,
         UNCHANGED vars \/ \E u \in Task : u # t /\ LeaseLapse(u)
  PROVE  Untouched(t)
  BY DEF LeaseLapse, TypeOK, vars, workerVars, requestVars, historyVars, Untouched, Deciding

\* Each invariant of a task that is left as it is.
LEMMA UntouchedTask ==
  ASSUME TypeOK, Owners, NEW t \in Task, Untouched(t)
  PROVE  /\ HeldAt(t) => HeldAt(t)'
         /\ LatestAt(t) => LatestAt(t)'
         /\ OneQuestionAt(t) => OneQuestionAt(t)'
         /\ ExecutedAt(t) => ExecutedAt(t)'
         /\ AnswerableAt(t) => AnswerableAt(t)'
<1> USE NoneAssumption
<1>1. /\ row'[t] = row[t]
      /\ \A w \in Worker : Busy(w, t)' <=> Busy(w, t)
      /\ \A w \in Worker : Busy(w, t) \/ cur[w] = t \/ cur'[w] = t =>
           cur'[w] = cur[w] /\ pc'[w] = pc[w] /\ mem'[w] = mem[w]
      /\ \A s \in Stamp : (Asks(s, t)' <=> Asks(s, t)) /\ (IsLatest(s, t)' <=> IsLatest(s, t))
      /\ \A r \in Request : Deciding(r, t)' <=> Deciding(r, t)
      /\ \A s \in Stamp : approvals'[s].task = t <=> approvals[s].task = t
      /\ \A s \in Stamp : approvals[s].task = t => approvals'[s] = approvals[s] /\ ran'[s] = ran[s]
      /\ \A r \in Request : Deciding(r, t) => rpc'[r] = rpc[r] /\ req'[r] = req[r]
  BY DEF Untouched, Busy, Asks, IsLatest, Deciding
<1>2. /\ row[t].checkpoint \in Stamp \cup {None}
      /\ \A w \in Worker : cur[w] = t /\ mem[w].call # None =>
           mem[w].call \in Stamp /\ approvals[mem[w].call].task = t
      /\ \A w \in Worker : cur[w] = t /\ pc[w] = "pause" =>
           mem[w].stamp \in Stamp /\ approvals[mem[w].stamp].task = t
  BY DEF TypeOK, Row, Mem, Owners
<1>3. Quiet(t)' <=> Quiet(t)
  BY <1>1 DEF Quiet
<1>4. HeldAt(t) => HeldAt(t)'
  BY <1>1, <1>2 DEF HeldAt, HeldBy, Busy
<1>5. LatestAt(t) => LatestAt(t)'
  <2> SUFFICES ASSUME LatestAt(t) PROVE LatestAt(t)'
    OBVIOUS
  <2>1. row'[t].checkpoint # None =>
          \/ IsLatest(row[t].checkpoint, t)'
          \/ \E w \in Worker : Busy(w, t)' /\ pc'[w] = "pause"
    BY <1>1, <1>2 DEF LatestAt
  <2>2. \A w \in Worker : cur'[w] = t /\ pc'[w] \in Granted /\ mem'[w].call # None =>
          mem'[w].grant = mem'[w].call
    BY <1>1 DEF LatestAt
  <2> QED
    BY <1>1, <2>1, <2>2 DEF LatestAt, IsLatest
<1>6. OneQuestionAt(t) => OneQuestionAt(t)'
  BY <1>1, <1>3 DEF OneQuestionAt, Single, Undisturbed
<1>7. ExecutedAt(t) => ExecutedAt(t)'
  <2> SUFFICES ASSUME ExecutedAt(t) PROVE ExecutedAt(t)'
    OBVIOUS
  <2>1. \A w \in Worker : cur'[w] = t /\ pc'[w] \in Granted /\ mem'[w].call # None =>
          approvals'[mem'[w].call].status = "approved"
    BY <1>1, <1>2 DEF ExecutedAt
  <2>2. ASSUME NEW s \in Stamp, approvals'[s].task = t, ran'[s] > 0
        PROVE  /\ ran'[s] = 1 /\ approvals'[s].status = "approved"
               /\ IsLatest(s, t)' =>
                    /\ Quiet(t)' /\ row'[t].status # "queued"
                    /\ \A w \in Worker : Busy(w, t)' => pc'[w] \in Past
    <3>1. approvals[s].task = t /\ ran[s] > 0 /\ ran'[s] = ran[s] /\ approvals'[s] = approvals[s]
      BY <1>1, <2>2
    <3>2. IsLatest(s, t)' => IsLatest(s, t)
      BY <1>1
    <3> QED
      BY <1>1, <1>3, <3>1, <3>2 DEF ExecutedAt
  <2> QED
    BY <2>1, <2>2 DEF ExecutedAt
<1>8. AnswerableAt(t) => AnswerableAt(t)'
  <2> SUFFICES ASSUME AnswerableAt(t) PROVE AnswerableAt(t)'
    OBVIOUS
  <2>1. row'[t].status = "waiting_approval" =>
          \/ \E s \in Stamp : IsLatest(s, t)' /\ approvals'[s].status = "pending"
          \/ \E r \in Request : Deciding(r, t)'
    <3>1. \A s \in Stamp : IsLatest(s, t) => approvals[s].task = t
      BY DEF IsLatest
    <3> QED
      BY <1>1, <3>1 DEF AnswerableAt
  <2>2. \A w \in Worker : Busy(w, t)' /\ pc'[w] = "pause" =>
          \/ approvals'[mem'[w].stamp].status = "pending"
          \/ \E r \in Request : Deciding(r, t)'
    <3>1. \A w \in Worker : Busy(w, t) => cur[w] = t
      BY DEF Busy
    <3> QED
      BY <1>1, <1>2, <3>1 DEF AnswerableAt
  <2> QED
    BY <2>1, <2>2 DEF AnswerableAt
<1> QED
  BY <1>4, <1>5, <1>6, <1>7, <1>8
----------------------------------------------------------------------------
(* A worker's step and its own task.                                       *)

\* Nobody else is busy with the task of a busy worker, before and after its step.
LEMMA Alone ==
  ASSUME ExclusiveInv, NEW w \in Worker, NEW t \in Task, "overlap" \notin faults[t],
         cur[w] = t, pc[w] \notin Tail, Others(w)
  PROVE  \A v \in Worker : v # w => ~Busy(v, t) /\ ~Busy(v, t)'
  BY DEF ExclusiveInv, Separate, Others, Busy

\* Nobody is busy with a claimable task.
LEMMA Unclaimed ==
  ASSUME ExclusiveInv, NEW t \in Task, "overlap" \notin faults[t], Claimable(row[t])
  PROVE  \A v \in Worker : ~Busy(v, t)
  BY DEF ExclusiveInv

\* A worker that leaves its task leaves the rest of it as it is.
LEMMA LeavesTask ==
  ASSUME NEW w \in Worker, NEW t \in Task, Leaves(w), Others(w),
         UNCHANGED <<row, approvals, ran, requestVars>>
  PROVE  /\ HeldAt(t) => HeldAt(t)'
         /\ LatestAt(t) /\ ~(cur[w] = t /\ pc[w] = "pause") => LatestAt(t)'
         /\ OneQuestionAt(t) => OneQuestionAt(t)'
         /\ ExecutedAt(t) => ExecutedAt(t)'
         /\ AnswerableAt(t) => AnswerableAt(t)'
<1> USE NoneAssumption DEF Leaves, Others, requestVars
<1>1. \A v \in Worker : cur'[v] = t => v # w /\ cur[v] = t /\ pc'[v] = pc[v] /\ mem'[v] = mem[v]
  OBVIOUS
<1>2. \A v \in Worker : Busy(v, t)' => v # w /\ Busy(v, t) /\ pc'[v] = pc[v] /\ mem'[v] = mem[v]
  BY <1>1 DEF Busy
<1>3. HeldAt(t) => HeldAt(t)'
  BY <1>2 DEF HeldAt, HeldBy, IsLatest
<1>4. LatestAt(t) /\ ~(cur[w] = t /\ pc[w] = "pause") => LatestAt(t)'
  BY <1>1 DEF LatestAt, IsLatest, Busy
<1>5. Quiet(t)' <=> Quiet(t)
  BY DEF Quiet, Asks, Deciding
<1>6. OneQuestionAt(t) => OneQuestionAt(t)'
  <2>1. Single(t) => Single(t)'
    BY <1>5 DEF Single, Asks, Deciding
  <2>2. \A v \in Worker : Busy(v, t)' /\ Undisturbed(v, t) => Undisturbed(v, t)'
    BY <1>2, <1>5 DEF Undisturbed
  <2> QED
    BY <1>2, <2>1, <2>2 DEF OneQuestionAt
<1>7. ExecutedAt(t) => ExecutedAt(t)'
  BY <1>1, <1>2, <1>5 DEF ExecutedAt, IsLatest
<1>8. AnswerableAt(t) => AnswerableAt(t)'
  BY <1>2 DEF AnswerableAt, IsLatest, Deciding
<1> QED
  BY <1>3, <1>4, <1>6, <1>7, <1>8

\* Every step keeps the branch a worker has taken.
LEMMA NextBranch == Typed /\ Stamps /\ Owners /\ Branch /\ [Next]_vars => Branch'
<1> SUFFICES ASSUME TypeOK, Linked, Stamps, Owners, Branch, [Next]_vars PROVE Branch'
  BY DEF Typed
<1>1. ASSUME NEW w \in Worker, Others(w),
             /\ pc'[w] = "start" => mem'[w].call = None
             /\ pc'[w] \in {"check", "denied", "approved", "tool_started", "resume"} => mem'[w].call # None
      PROVE  Branch'
  BY <1>1 DEF Branch, Others
<1>2. ASSUME NEW w \in Worker, Local(w) PROVE Branch'
  <2>1. LocalMove(w)
    BY <1>2, LocalMoves
  <2> QED
    BY <1>1, <2>1 DEF LocalMove, Leaves, Loads, Checks, Refreshes, Runs, Proceeds, Branch
<1>3. ASSUME NEW w \in Worker, Commit(w) PROVE Branch'
  BY <1>1, <1>3, CommitMoves DEF CommitMove, Leaves
<1>4. ASSUME NEW w \in Worker, NEW t \in Task, Claim(w, t) PROVE Branch'
  BY <1>1, <1>4, ClaimMoves DEF ClaimMove
<1>5. ASSUME NEW w \in Worker, ExecuteTool(w) \/ Ask(w) PROVE Branch'
  BY <1>1, <1>5, ExecuteMoves, AskMoves DEF ExecuteMove, AskMove
<1>6. ASSUME UNCHANGED workerVars PROVE Branch'
  BY <1>6 DEF workerVars, Branch
<1>7. CASE (\E t \in Task : LeaseLapse(t)) \/ \E r \in Request : UserCalls(r) \/ RequestStep(r) \/ RequestDies(r)
  BY <1>6, <1>7, OutsideEffect
<1>8. CASE UNCHANGED vars
  BY <1>6, <1>8 DEF vars
<1> QED
  BY <1>2, <1>3, <1>4, <1>5, <1>7, <1>8 DEF Next, WorkerStep, Local, Commit

\* Every step keeps what a lone worker knows of its task.
LEMMA NextHeld ==
  Typed /\ Stamps /\ Owners /\ Branch /\ ExclusiveInv /\ Held /\ [Next]_vars => Held'
<1> SUFFICES ASSUME TypeOK, Linked, Stamps, Owners, Branch, ExclusiveInv, Held, [Next]_vars,
                    NEW t \in Task, Unspoilt(t, {"overlap"})'
             PROVE  HeldAt(t)'
  BY DEF Typed, Held
<1> USE NoneAssumption
<1>1. "overlap" \notin faults[t] /\ HeldAt(t)
  BY FaultsGrow DEF Unspoilt, Held
<1>2. ASSUME Untouched(t) PROVE HeldAt(t)'
  BY <1>1, <1>2, UntouchedTask
<1>3. ASSUME NEW w \in Worker, cur[w] = t, pc[w] \notin Tail, Others(w), HeldBy(w, t)'
      PROVE  HeldAt(t)'
  BY <1>1, <1>3, Alone DEF HeldAt
<1>4. ASSUME NEW w \in Worker, cur[w] = t, pc[w] \notin Tail, pc[w] # "idle"
      PROVE  HeldBy(w, t)
  BY <1>1, <1>4 DEF HeldAt, Busy
<1>5. ASSUME NEW w \in Worker, cur[w] = t, Local(w) PROVE HeldAt(t)'
  <2>1. LocalMove(w)
    BY <1>5, LocalMoves
  <2>2. CASE Leaves(w)
    BY <1>1, <2>1, <2>2, LeavesTask DEF LocalMove
  <2>3. CASE ~Leaves(w)
    <3>1. /\ UNCHANGED <<row, approvals>> /\ Others(w)
          /\ \/ pc[w] = "claimed" /\ pc'[w] = "load"
             \/ Loads(w) \/ Checks(w) \/ Refreshes(w) \/ Runs(w) \/ Proceeds(w)
      BY <2>1, <2>3 DEF LocalMove
    <3>2. pc[w] \notin Tail /\ HeldBy(w, t)
      BY <1>4, <1>5, <3>1 DEF Loads, Checks, Refreshes, Runs, Proceeds, Tail
    <3>3. pc'[w] \in Acting => row[t].checkpoint = mem'[w].call /\ mem'[w].cache.checkpoint = mem'[w].call
      BY <1>5, <3>1, <3>2
         DEF HeldBy, Loads, Checks, Refreshes, Runs, Proceeds, SameCall, Acting
    <3>4. pc'[w] \in {"tool", "run"} => \A s \in Stamp : approvals[s].task = t => s < mem'[w].stamp
      <4>1. \A s \in Stamp : approvals[s].task = t => s < clock
        BY DEF Stamps, Stamp, TypeOK
      <4> QED
        BY <3>1, <4>1 DEF Loads, Checks, Refreshes, Runs, Proceeds
    <3>5. pc'[w] # "pause"
      BY <3>1 DEF Loads, Checks, Refreshes, Runs, Proceeds
    <3> QED
      BY <1>3, <1>5, <3>1, <3>2, <3>3, <3>4, <3>5 DEF HeldBy
  <2> QED
    BY <2>2, <2>3
<1>6. ASSUME NEW w \in Worker, cur[w] = t, Commit(w) PROVE HeldAt(t)'
  <2>1. CommitMove(w)
    BY <1>6, CommitMoves
  <2>2. pc[w] \notin Tail /\ pc[w] # "idle" /\ Others(w)
    BY <2>1 DEF CommitMove, Tail
  <2>3. pc'[w] \in Acting => pc[w] \in {"start", "resume"} /\ pc'[w] = "refresh"
    BY <2>1 DEF CommitMove, Leaves, Acting
  <2>4. ASSUME pc[w] \in {"start", "resume"}, pc'[w] = "refresh"
        PROVE  row'[t].checkpoint = mem'[w].call /\ mem'[w].cache.checkpoint = mem'[w].call
    <3>1. HeldBy(w, t) /\ mem'[w] = mem[w] /\ Written(w, "running", mem[w].call)
      BY <1>4, <1>6, <2>1, <2>2, <2>4 DEF CommitMove, Leaves, Branch
    <3>2. row[t].checkpoint = mem[w].call /\ mem[w].cache.checkpoint = mem[w].call
      BY <2>4, <3>1 DEF HeldBy, Acting
    <3> QED
      BY <1>6, <3>1, <3>2 DEF Written, Keep
  <2> QED
    BY <1>3, <1>6, <2>1, <2>2, <2>3, <2>4 DEF HeldBy, CommitMove, Leaves
<1>7. ASSUME NEW w \in Worker, Claim(w, t) PROVE HeldAt(t)'
  <2>1. ClaimMove(w, t) /\ \A v \in Worker : ~Busy(v, t)
    BY <1>1, <1>7, ClaimMoves, Unclaimed DEF Claim
  <2> QED
    BY <2>1 DEF ClaimMove, Others, HeldAt, HeldBy, Busy, Acting
<1>8. ASSUME NEW w \in Worker, cur[w] = t, ExecuteTool(w) PROVE HeldAt(t)'
  <2>1. ExecuteMove(w)
    BY <1>8, ExecuteMoves
  <2>2. pc[w] = "tool" /\ HeldBy(w, t) /\ Others(w)
    BY <1>4, <1>8, <2>1 DEF ExecuteMove, Tail
  <2>3. HeldBy(w, t)'
    BY <2>1, <2>2 DEF ExecuteMove, HeldBy, Acting
  <2> QED
    BY <1>3, <1>8, <2>2, <2>3 DEF Tail
<1>9. ASSUME NEW w \in Worker, cur[w] = t, Ask(w) PROVE HeldAt(t)'
  <2>1. AskMove(w)
    BY <1>9, AskMoves
  <2>2. pc[w] = "run" /\ HeldBy(w, t) /\ Others(w)
    BY <1>4, <1>9, <2>1 DEF AskMove, Tail
  <2>3. IsLatest(mem[w].stamp, t)'
    <3>1. /\ mem[w].stamp \in Stamp
          /\ \A s \in Stamp : approvals[s].task = t => s < mem[w].stamp
      BY <2>1, <2>2 DEF AskMove, HeldBy
    <3>2. \A s \in Stamp : approvals'[s].task = t => s = mem[w].stamp \/ s < mem[w].stamp
      BY <2>1, <3>1 DEF AskMove
    <3>3. approvals'[mem[w].stamp].task = t /\ mem'[w] = mem[w]
      BY <1>9, <2>1 DEF AskMove
    <3>4. \A s \in Stamp : approvals'[s].task = t => s <= mem[w].stamp
      BY <3>1, <3>2 DEF Stamp
    <3> QED
      BY <3>3, <3>4 DEF IsLatest
  <2>4. HeldBy(w, t)'
    BY <2>1, <2>2, <2>3 DEF AskMove, HeldBy, Acting
  <2> QED
    BY <1>3, <1>9, <2>2, <2>4 DEF Tail
<1>10. ASSUME NEW w \in Worker, WorkerStep(w) \/ Crash(w) PROVE HeldAt(t)'
  <2>1. CASE cur[w] = t
    <3>1. ~\E u \in Task : u # t /\ Claim(w, u)
      BY <2>1 DEF Claim, Linked
    <3> QED
      BY <1>5, <1>6, <1>7, <1>8, <1>9, <1>10, <2>1, <3>1 DEF WorkerStep, Local, Commit
  <2> QED
    BY <1>2, <1>7, <1>10, <2>1, WorkerElsewhere
<1>11. ASSUME UNCHANGED workerVars, \A s \in Stamp : approvals'[s].task = approvals[s].task,
              \A u \in Task : row'[u].checkpoint = row[u].checkpoint
       PROVE  HeldAt(t)'
  <2>1. \A w \in Worker : cur'[w] = cur[w] /\ pc'[w] = pc[w] /\ mem'[w] = mem[w]
    BY <1>11 DEF workerVars
  <2>2. \A w \in Worker : Busy(w, t) /\ pc[w] = "pause" => mem[w].stamp \in Stamp
    BY DEF Owners
  <2> QED
    BY <1>1, <1>11, <2>1, <2>2 DEF HeldAt, HeldBy, Busy, IsLatest
<1>12. CASE (\E u \in Task : LeaseLapse(u)) \/ \E r \in Request : UserCalls(r) \/ RequestStep(r) \/ RequestDies(r)
  BY <1>11, <1>12, OutsideEffect
<1>13. CASE UNCHANGED vars
  BY <1>2, <1>13, OtherElsewhere
<1> QED
  BY <1>10, <1>12, <1>13 DEF Next
\* Every step keeps the checkpoint and the latest approval together.
LEMMA NextLatest ==
  /\ Typed /\ Stamps /\ Owners /\ Branch /\ ExclusiveInv /\ Held /\ Latest /\ [Next]_vars
  => Latest'
<1> SUFFICES ASSUME TypeOK, Linked, Stamps, Owners, Branch, ExclusiveInv, Held, Latest, [Next]_vars,
                    NEW t \in Task, Unspoilt(t, {"overlap", "torn"})'
             PROVE  LatestAt(t)'
  BY DEF Typed, Latest
<1> USE NoneAssumption
<1>1. "overlap" \notin faults[t] /\ HeldAt(t) /\ LatestAt(t)
  BY FaultsGrow DEF Unspoilt, Held, Latest
<1>2. ASSUME Untouched(t) PROVE LatestAt(t)'
  BY <1>1, <1>2, UntouchedTask
<1>3. row[t].checkpoint \in Stamp \cup {None}
  BY DEF TypeOK, Row
<1>4. ASSUME NEW w \in Worker, cur[w] = t, pc[w] \notin Tail, pc[w] # "idle", Others(w)
      PROVE  /\ HeldBy(w, t)
             /\ \A v \in Worker : v # w => ~Busy(v, t) /\ ~Busy(v, t)'
             /\ pc[w] # "pause" /\ row[t].checkpoint # None => IsLatest(row[t].checkpoint, t)
  <2>1. HeldBy(w, t)
    BY <1>1, <1>4 DEF HeldAt, Busy
  <2>2. \A v \in Worker : v # w => ~Busy(v, t) /\ ~Busy(v, t)'
    BY <1>1, <1>4, Alone
  <2> QED
    BY <1>1, <1>4, <2>1, <2>2 DEF LatestAt
<1>5. ASSUME NEW w \in Worker, cur[w] = t, Others(w), approvals' = approvals,
             row'[t].checkpoint # None => IsLatest(row'[t].checkpoint, t),
             cur'[w] = t /\ pc'[w] \in Granted /\ mem'[w].call # None => mem'[w].grant = mem'[w].call
      PROVE  LatestAt(t)'
  BY <1>1, <1>5 DEF LatestAt, Others, IsLatest
<1>6. ASSUME NEW w \in Worker, cur[w] = t, Local(w) PROVE LatestAt(t)'
  <2>1. LocalMove(w)
    BY <1>6, LocalMoves
  <2>2. ASSUME Leaves(w), pc[w] = "pause" PROVE LatestAt(t)'
    <3>1. Crash(w) /\ "torn" \notin faults'[t]
      BY <1>6, <2>2 DEF Local, ReadText, Load, CheckUnanswered, CheckAnswered, RefreshFresh,
           RefreshResumed, AppendStarted, Answer, RunRaises, AppendEvent, After, Deliver, Unspoilt
    <3>2. mem[w].call = None
      BY <1>6, <2>2, <3>1, FaultEffect DEF Crash, Kind
    <3>3. HeldBy(w, t) /\ row' = row /\ approvals' = approvals /\ Others(w)
      BY <1>4, <1>6, <2>1, <2>2 DEF LocalMove, Tail
    <3>4. row[t].checkpoint = None
      BY <2>2, <3>2, <3>3 DEF HeldBy, Acting
    <3> QED
      BY <1>5, <1>6, <2>2, <3>3, <3>4 DEF Leaves
  <2>3. CASE Leaves(w) /\ pc[w] # "pause"
    BY <1>1, <2>1, <2>3, LeavesTask DEF LocalMove
  <2>4. ASSUME ~Leaves(w) PROVE LatestAt(t)'
    <3>1. /\ row' = row /\ approvals' = approvals /\ Others(w)
          /\ \/ pc[w] = "claimed" /\ pc'[w] = "load"
             \/ Loads(w) \/ Checks(w) \/ Refreshes(w) \/ Runs(w) \/ Proceeds(w)
      BY <2>1, <2>4 DEF LocalMove
    <3>2. pc[w] \notin Tail /\ pc[w] # "idle" /\ pc[w] # "pause"
      BY <3>1 DEF Loads, Checks, Refreshes, Runs, Proceeds, Tail
    <3>3. HeldBy(w, t) /\ (row[t].checkpoint # None => IsLatest(row[t].checkpoint, t))
      BY <1>4, <1>6, <3>1, <3>2
    <3>4. pc'[w] \in Granted /\ mem'[w].call # None => mem'[w].grant = mem'[w].call
      <4>1. ASSUME Checks(w) PROVE mem'[w].grant = mem'[w].call
        <5>1. PICK s \in Stamp : IsLatest(s, t) /\ mem'[w].grant = s
          BY <1>6, <4>1 DEF Checks
        <5>2. mem'[w].call = mem[w].call /\ mem[w].call # None /\ mem[w].call = row[t].checkpoint
          BY <3>3, <4>1 DEF Checks, Branch, HeldBy, Acting
        <5>3. IsLatest(mem[w].call, t) /\ mem[w].call \in Stamp
          BY <1>3, <3>3, <5>2
        <5>4. s <= mem[w].call /\ mem[w].call <= s
          BY <5>1, <5>3 DEF IsLatest
        <5> QED
          BY <5>1, <5>2, <5>3, <5>4 DEF Stamp
      <4>2. ASSUME ~Checks(w), pc'[w] \in Granted, mem'[w].call # None
            PROVE  mem'[w].grant = mem'[w].call
        <5>1. /\ pc[w] \in Granted
              /\ mem'[w].call = mem[w].call /\ mem'[w].grant = mem[w].grant
          BY <3>1, <4>2 DEF Loads, Refreshes, Runs, Proceeds, SameCall, Granted
        <5> QED
          BY <1>1, <1>6, <4>2, <5>1 DEF LatestAt
      <4> QED
        BY <4>1, <4>2
    <3> QED
      BY <1>5, <1>6, <3>1, <3>3, <3>4
  <2> QED
    BY <2>2, <2>3, <2>4
<1>7. ASSUME NEW w \in Worker, cur[w] = t, Commit(w) PROVE LatestAt(t)'
  <2>1. CommitMove(w)
    BY <1>7, CommitMoves
  <2>2. pc[w] \notin Tail /\ pc[w] # "idle" /\ Others(w) /\ approvals' = approvals
    BY <2>1 DEF CommitMove, Tail
  <2>3. /\ HeldBy(w, t)
        /\ pc[w] # "pause" /\ row[t].checkpoint # None => IsLatest(row[t].checkpoint, t)
    BY <1>4, <1>7, <2>2
  <2>4. CASE pc[w] = "pause"
    <3>1. /\ pc'[w] \notin Granted /\ Written(w, "waiting_approval", mem[w].stamp)
          /\ IsLatest(mem[w].stamp, t) /\ row[t].checkpoint = mem[w].cache.checkpoint
      BY <2>1, <2>3, <2>4 DEF CommitMove, HeldBy, Granted, Acting
    <3>2. row'[t].checkpoint = mem[w].stamp
      BY <1>7, <3>1 DEF Written, Keep
    <3> QED
      BY <1>5, <1>7, <2>2, <3>1, <3>2
  <2>5. CASE pc[w] # "pause"
    <3>1. row'[t].checkpoint \in {row[t].checkpoint, None}
      <4>1. CASE pc[w] = "resume"
        BY <1>7, <2>1, <2>3, <4>1 DEF CommitMove, Written, Keep, HeldBy, Acting
      <4> QED
        BY <1>7, <2>1, <2>5, <4>1 DEF CommitMove, Written, Keep
    <3>2. pc'[w] \in Granted => pc[w] \in {"start", "resume"} /\ mem'[w] = mem[w]
      BY <2>1, <2>5 DEF CommitMove, Leaves, Granted
    <3>3. pc'[w] \in Granted /\ mem'[w].call # None => mem'[w].grant = mem'[w].call
      BY <1>1, <1>7, <3>2 DEF LatestAt, Branch, Granted
    <3> QED
      BY <1>5, <1>7, <2>2, <2>3, <2>5, <3>1, <3>3
  <2> QED
    BY <2>4, <2>5
<1>8. ASSUME NEW w \in Worker, Claim(w, t) PROVE LatestAt(t)'
  <2>1. ClaimMove(w, t) /\ \A v \in Worker : ~Busy(v, t)
    BY <1>1, <1>8, ClaimMoves, Unclaimed DEF Claim
  <2> QED
    BY <1>1, <2>1 DEF ClaimMove, Others, LatestAt, IsLatest, Granted
<1>9. ASSUME NEW w \in Worker, cur[w] = t, ExecuteTool(w) PROVE LatestAt(t)'
  <2>1. ExecuteMove(w)
    BY <1>9, ExecuteMoves
  <2>2. row[t].checkpoint # None => IsLatest(row[t].checkpoint, t)
    BY <1>4, <1>9, <2>1 DEF ExecuteMove, Tail
  <2> QED
    BY <1>5, <1>9, <2>1, <2>2 DEF ExecuteMove, Granted
<1>10. ASSUME NEW w \in Worker, cur[w] = t, Ask(w) PROVE LatestAt(t)'
  <2>1. AskMove(w)
    BY <1>10, AskMoves
  <2>2. Busy(w, t)' /\ pc'[w] = "pause"
    BY <1>10, <2>1 DEF AskMove, Busy, Tail
  <2>3. \A v \in Worker : v # w => cur'[v] = cur[v] /\ pc'[v] = pc[v] /\ mem'[v] = mem[v]
    BY <2>1 DEF AskMove, Others
  <2> QED
    BY <1>1, <2>2, <2>3 DEF LatestAt, Granted
<1>11. ASSUME NEW w \in Worker, WorkerStep(w) \/ Crash(w) PROVE LatestAt(t)'
  <2>1. CASE cur[w] = t
    <3>1. ~\E u \in Task : u # t /\ Claim(w, u)
      BY <2>1 DEF Claim, Linked
    <3> QED
      BY <1>6, <1>7, <1>8, <1>9, <1>10, <1>11, <2>1, <3>1 DEF WorkerStep, Local, Commit
  <2> QED
    BY <1>2, <1>8, <1>11, <2>1, WorkerElsewhere
<1>12. ASSUME UNCHANGED workerVars, \A s \in Stamp : approvals'[s].task = approvals[s].task,
              \A u \in Task : row'[u].checkpoint = row[u].checkpoint
       PROVE  LatestAt(t)'
  <2>1. \A w \in Worker : cur'[w] = cur[w] /\ pc'[w] = pc[w] /\ mem'[w] = mem[w]
    BY <1>12 DEF workerVars
  <2> QED
    BY <1>1, <1>3, <1>12, <2>1 DEF LatestAt, Busy, IsLatest
<1>13. CASE (\E u \in Task : LeaseLapse(u)) \/ \E r \in Request : UserCalls(r) \/ RequestStep(r) \/ RequestDies(r)
  BY <1>12, <1>13, OutsideEffect
<1>14. CASE UNCHANGED vars
  BY <1>2, <1>14, OtherElsewhere
<1> QED
  BY <1>11, <1>13, <1>14 DEF Next
----------------------------------------------------------------------------
(* An API call's step and the task it is about.                            *)

\* The other calls go on; this one has responded, or goes on with its task.
OtherCalls(r) == \A q \in Request : q # r => rpc'[q] = rpc[q] /\ req'[q] = req[q]
Responds(r) == rpc'[r] = "idle" /\ req'[r] = NoReq

CallMove(r) ==
  LET t == req[r].task
      s == req[r].approval
  IN /\ UNCHANGED <<workerVars, ran>> /\ OtherCalls(r) /\ t \in Task
     /\ row'[t].checkpoint = row[t].checkpoint
     /\ \/ /\ rpc[r] = "cancel" /\ Responds(r) /\ approvals' = approvals
           /\ row'[t].status \in {"cancelled", row[t].status} /\ row'[t].lease = row[t].lease
        \/ /\ rpc[r] = "decide" /\ rpc'[r] = "decided" /\ req' = req /\ row' = row
           /\ s \in Stamp /\ approvals[s].task = t /\ approvals'[s].task = t
           /\ approvals'[s].status \in {"approved", "denied"}
           /\ \A u \in Stamp : u # s => approvals'[u] = approvals[u]
           /\ "double" \notin faults'[t] => approvals[s].status = "pending"
        \/ /\ rpc[r] = "decided" /\ rpc'[r] = "requeue" /\ row' = row /\ approvals' = approvals
           /\ req'[r].task = t /\ req'[r].cache = row[t]
        \/ /\ rpc[r] = "requeue" /\ Responds(r) /\ approvals' = approvals
           /\ row'[t].status = Keep(row[t].status, req[r].cache.status, "queued")
           /\ row'[t].lease = Keep(row[t].lease, req[r].cache.lease, "free")
           /\ "overlap" \notin faults'[t] /\ Claimable(row'[t]) => \A w \in Worker : ~Busy(w, t)
        \/ /\ Responds(r) /\ row' = row /\ approvals' = approvals
           /\ "abandoned" \notin faults'[t] => rpc[r] \notin {"decided", "requeue"}

\* A step of an API call is a call's move.
LEMMA CallMoves ==
  ASSUME TypeOK, Linked, Owners, NEW r \in Request, RequestStep(r) \/ RequestDies(r)
  PROVE  CallMove(r)
<1> USE DEF historyVars, OtherCalls, Responds
<1>1. /\ UNCHANGED <<workerVars, ran>> /\ req[r].task \in Task
      /\ row'[req[r].task].checkpoint = row[req[r].task].checkpoint
  <2>1. req[r].task \in Task
    BY DEF RequestStep, RequestDies, CancelCommit, DecideCommit, RequeueRead, RequeueCommit, Linked
  <2> QED
    BY <2>1, OutsideEffect
<1>2. ASSUME Respond(r) PROVE Responds(r) /\ OtherCalls(r)
  BY <1>2 DEF Respond, TypeOK
<1>3. CASE CancelCommit(r)
  BY <1>1, <1>2, <1>3, RequestEffect DEF CancelCommit, CallMove
<1>4. CASE DecideCommit(r)
  <2>1. req[r].approval \in Stamp /\ approvals[req[r].approval].task = req[r].task
    BY <1>4 DEF DecideCommit, Owners
  <2>2. /\ approvals'[req[r].approval].task = req[r].task
        /\ approvals'[req[r].approval].status \in {"approved", "denied"}
        /\ \A u \in Stamp : u # req[r].approval => approvals'[u] = approvals[u]
    BY <1>4, <2>1 DEF DecideCommit, TypeOK, Approval, Req
  <2>3. "double" \notin faults'[req[r].task] => approvals[req[r].approval].status = "pending"
    BY <1>1, <1>4, FaultEffect DEF DecideCommit, Kind
  <2>4. rpc[r] = "decide" /\ rpc'[r] = "decided" /\ req' = req /\ row' = row /\ OtherCalls(r)
    BY <1>4 DEF DecideCommit, TypeOK
  <2> QED
    BY <1>1, <2>1, <2>2, <2>3, <2>4 DEF CallMove
<1>5. CASE RequeueRead(r)
  <2>1. req'[r].task = req[r].task /\ req'[r].cache = row[req[r].task]
    BY <1>5 DEF RequeueRead, TypeOK, Req
  <2>2. /\ rpc[r] = "decided" /\ rpc'[r] = "requeue" /\ row' = row /\ approvals' = approvals
        /\ OtherCalls(r)
    BY <1>5 DEF RequeueRead, TypeOK
  <2> QED
    BY <1>1, <2>1, <2>2 DEF CallMove
<1>6. CASE RequeueCommit(r)
  <2> DEFINE new == [req[r].cache EXCEPT !.status = "queued", !.lease = "free"]
  <2>1. new.status = "queued" /\ new.lease = "free"
    BY DEF TypeOK, Req, Row
  <2>2. row'[req[r].task] = Flush(row[req[r].task], req[r].cache, new)
    BY <1>1, <1>6 DEF RequeueCommit, TypeOK
  <2> HIDE DEF new
  <2>3. /\ row'[req[r].task].status = Keep(row[req[r].task].status, req[r].cache.status, "queued")
        /\ row'[req[r].task].lease = Keep(row[req[r].task].lease, req[r].cache.lease, "free")
    BY <2>1, <2>2 DEF Flush
  <2>4. "overlap" \notin faults'[req[r].task] /\ Claimable(row'[req[r].task])
          => \A w \in Worker : ~Busy(w, req[r].task)
    BY <1>1, <1>6, FaultEffect DEF RequeueCommit, Kind
  <2> QED
    BY <1>1, <1>2, <1>6, <2>3, <2>4 DEF RequeueCommit, CallMove
<1>7. CASE RequestDies(r)
  <2>1. "abandoned" \notin faults'[req[r].task] => rpc[r] \notin {"decided", "requeue"}
    BY <1>1, <1>7, FaultEffect DEF RequestDies, Kind
  <2> QED
    BY <1>1, <1>2, <1>7, <2>1 DEF RequestDies, CallMove
<1> QED
  BY <1>3, <1>4, <1>5, <1>6, <1>7 DEF RequestStep

\* The lapse of the task's own lease.
LapseMove(t) ==
  /\ UNCHANGED <<workerVars, requestVars, approvals, ran>>
  /\ row'[t].status = row[t].status /\ row'[t].checkpoint = row[t].checkpoint
  /\ row'[t].lease = "lapsed"

\* A lease that lapses is a lapse's move.
LEMMA LapseMoves ==
  ASSUME TypeOK, NEW t \in Task, LeaseLapse(t) PROVE LapseMove(t)
  BY DEF LeaseLapse, LapseMove, TypeOK, Row, historyVars

\* Every step keeps the questions of a task one at a time.
LEMMA NextOneQuestion ==
  /\ Typed /\ Stamps /\ Owners /\ Branch /\ ExclusiveInv /\ OneQuestion /\ [Next]_vars
  => OneQuestion'
<1> SUFFICES ASSUME TypeOK, Linked, Stamps, Owners, Branch, ExclusiveInv, OneQuestion, [Next]_vars,
                    NEW t \in Task, Unspoilt(t, {"overlap", "double"})'
             PROVE  OneQuestionAt(t)'
  BY DEF Typed, OneQuestion
<1> USE NoneAssumption
<1>1. /\ "overlap" \notin faults[t] /\ "overlap" \notin faults'[t] /\ "double" \notin faults'[t]
      /\ OneQuestionAt(t) /\ Single(t)
  BY FaultsGrow DEF Unspoilt, OneQuestion, OneQuestionAt
<1>2. ASSUME Untouched(t) PROVE OneQuestionAt(t)'
  BY <1>1, <1>2, UntouchedTask
<1>3. ASSUME NEW w \in Worker, cur[w] = t, pc[w] \notin Tail, Others(w),
             Single(t)', Busy(w, t)' => Undisturbed(w, t)'
      PROVE  OneQuestionAt(t)'
  BY <1>1, <1>3, Alone DEF OneQuestionAt
<1>4. ASSUME NEW w \in Worker, cur[w] = t, pc[w] \notin Tail
      PROVE  Undisturbed(w, t)
  BY <1>1, <1>4 DEF OneQuestionAt, Busy
<1>5. ASSUME UNCHANGED <<approvals, requestVars>>
      PROVE  (Quiet(t)' <=> Quiet(t)) /\ (Quiet(t) => Single(t)')
  BY <1>5 DEF Quiet, Single, Asks, Deciding, requestVars
<1>6. ASSUME NEW w \in Worker, cur[w] = t, Local(w) PROVE OneQuestionAt(t)'
  <2>1. LocalMove(w)
    BY <1>6, LocalMoves
  <2>2. CASE Leaves(w)
    BY <1>1, <2>1, <2>2, LeavesTask DEF LocalMove
  <2>3. ASSUME ~Leaves(w) PROVE OneQuestionAt(t)'
    <3>1. /\ UNCHANGED <<row, approvals, requestVars>> /\ Others(w)
          /\ \/ pc[w] = "claimed" /\ pc'[w] = "load"
             \/ Loads(w) \/ Checks(w) \/ Refreshes(w) \/ Runs(w) \/ Proceeds(w)
      BY <2>1, <2>3 DEF LocalMove
    <3>2. pc[w] \notin Tail /\ pc[w] # "pause"
      BY <3>1 DEF Loads, Checks, Refreshes, Runs, Proceeds, Tail
    <3>3. Undisturbed(w, t) /\ Quiet(t) /\ Quiet(t)'
      BY <1>4, <1>5, <1>6, <3>1, <3>2 DEF Undisturbed
    <3>4. pc'[w] \in Unread => row[t].status \in {"queued", "cancelled"}
      BY <3>1, <3>3 DEF Loads, Checks, Refreshes, Runs, Proceeds, Unread, Undisturbed
    <3>5. pc'[w] \in {"check", "start", "resume", "approved", "tool_started"} =>
            mem'[w].cache.status = "queued"
      BY <1>6, <3>1, <3>3 DEF Loads, Checks, Refreshes, Runs, Proceeds, Unread, Undisturbed, Terminal
    <3>6. pc'[w] \in {"refresh", "started", "tool", "run"} =>
            row[t].status \in {"running", "cancelled"}
      BY <3>1, <3>3 DEF Loads, Checks, Refreshes, Runs, Proceeds, Undisturbed
    <3>7. Undisturbed(w, t)'
      BY <3>1, <3>3, <3>4, <3>5, <3>6 DEF Undisturbed
    <3> QED
      BY <1>3, <1>5, <1>6, <3>1, <3>2, <3>3, <3>7
  <2> QED
    BY <2>2, <2>3
<1>7. ASSUME NEW w \in Worker, cur[w] = t, Commit(w) PROVE OneQuestionAt(t)'
  <2>1. CommitMove(w)
    BY <1>7, CommitMoves
  <2>2. pc[w] \notin Tail /\ Others(w) /\ UNCHANGED <<approvals, requestVars>>
    BY <2>1 DEF CommitMove, Tail
  <2>3. Undisturbed(w, t)
    BY <1>4, <1>7, <2>2
  <2>4. CASE pc[w] = "pause"
    <3>1. /\ ~Busy(w, t)'
          /\ row'[t].status \in {row[t].status, "waiting_approval"}
          /\ row'[t].lease \in {row[t].lease, "free"}
      BY <1>7, <2>1, <2>4 DEF CommitMove, Busy, Tail, Written, Keep
    <3>2. Single(t)'
      BY <1>1, <1>5, <2>2, <3>1 DEF Single, Asks, Deciding, requestVars
    <3> QED
      BY <1>3, <1>7, <2>2, <3>1, <3>2
  <2>5. CASE pc[w] # "pause"
    <3>1. Quiet(t) /\ Quiet(t)' /\ Single(t)'
      BY <1>5, <2>2, <2>3, <2>5 DEF Undisturbed
    <3>2. Busy(w, t)' => pc[w] \in {"start", "resume"} /\ pc'[w] = "refresh"
      BY <1>7, <2>1, <2>5 DEF CommitMove, Leaves, Busy, Tail
    <3>3. pc[w] \in {"start", "resume"} /\ pc'[w] = "refresh" => row'[t].status = "running"
      BY <1>7, <2>1, <2>3 DEF CommitMove, Leaves, Written, Keep, Undisturbed
    <3>4. Busy(w, t)' => Undisturbed(w, t)'
      BY <3>1, <3>2, <3>3 DEF Undisturbed, Unread
    <3> QED
      BY <1>3, <1>7, <2>2, <3>1, <3>4
  <2> QED
    BY <2>4, <2>5
<1>8. ASSUME NEW w \in Worker, Claim(w, t) PROVE OneQuestionAt(t)'
  <2>1. ClaimMove(w, t) /\ \A v \in Worker : ~Busy(v, t)
    BY <1>1, <1>8, ClaimMoves, Unclaimed DEF Claim
  <2>2. Quiet(t) /\ Quiet(t)' /\ Single(t)'
    BY <1>1, <1>5, <2>1 DEF ClaimMove, Claimable, Single
  <2>3. \A v \in Worker : Busy(v, t)' => v = w
    BY <2>1 DEF ClaimMove, Others, Busy
  <2>4. Undisturbed(w, t)'
    BY <2>1, <2>2 DEF ClaimMove, Claimable, Undisturbed, Unread
  <2> QED
    BY <2>2, <2>3, <2>4 DEF OneQuestionAt
<1>9. ASSUME NEW w \in Worker, cur[w] = t, ExecuteTool(w) PROVE OneQuestionAt(t)'
  <2>1. ExecuteMove(w)
    BY <1>9, ExecuteMoves
  <2>2. pc[w] \notin Tail /\ Others(w) /\ UNCHANGED <<row, approvals, requestVars>> /\ pc[w] = "tool"
    BY <2>1 DEF ExecuteMove, Tail
  <2>3. Undisturbed(w, t) /\ Quiet(t) /\ Quiet(t)' /\ Single(t)'
    BY <1>4, <1>5, <1>9, <2>2 DEF Undisturbed
  <2>4. Undisturbed(w, t)'
    BY <2>1, <2>2, <2>3 DEF ExecuteMove, Undisturbed, Unread
  <2> QED
    BY <1>3, <1>9, <2>2, <2>3, <2>4
<1>10. ASSUME NEW w \in Worker, cur[w] = t, Ask(w) PROVE OneQuestionAt(t)'
  <2>1. AskMove(w)
    BY <1>10, AskMoves
  <2>2. pc[w] \notin Tail /\ Others(w) /\ UNCHANGED <<row, requestVars>> /\ pc[w] = "run"
    BY <2>1 DEF AskMove, Tail
  <2>3. Undisturbed(w, t) /\ Quiet(t) /\ row[t].status # "queued"
    BY <1>4, <1>10, <2>2 DEF Undisturbed
  <2>4. \A s \in Stamp : Asks(s, t)' => s = mem[w].stamp
    BY <2>1, <2>3 DEF AskMove, Asks, Quiet
  <2>5. \A r \in Request : ~Deciding(r, t)'
    BY <2>2, <2>3 DEF Quiet, Deciding, requestVars
  <2>6. Single(t)'
    BY <2>2, <2>3, <2>4, <2>5 DEF Single
  <2>7. Undisturbed(w, t)'
    BY <2>1 DEF AskMove, Undisturbed, Unread
  <2> QED
    BY <1>3, <1>10, <2>2, <2>6, <2>7
<1>11. ASSUME NEW w \in Worker, WorkerStep(w) \/ Crash(w) PROVE OneQuestionAt(t)'
  <2>1. CASE cur[w] = t
    <3>1. ~\E u \in Task : u # t /\ Claim(w, u)
      BY <2>1 DEF Claim, Linked
    <3> QED
      BY <1>6, <1>7, <1>8, <1>9, <1>10, <1>11, <2>1, <3>1 DEF WorkerStep, Local, Commit
  <2> QED
    BY <1>2, <1>8, <1>11, <2>1, WorkerElsewhere
<1>12. ASSUME NEW r \in Request, req[r].task = t, RequestStep(r) \/ RequestDies(r)
       PROVE  OneQuestionAt(t)'
  <2>1. CallMove(r)
    BY <1>12, CallMoves
  <2>2. /\ OtherCalls(r)
        /\ \A w \in Worker : pc'[w] = pc[w] /\ cur'[w] = cur[w] /\ mem'[w] = mem[w]
        /\ \A w \in Worker : Busy(w, t)' <=> Busy(w, t)
    BY <2>1 DEF CallMove, workerVars, Busy
  <2>3. ASSUME \A q \in Request : Deciding(q, t)' => Deciding(q, t) /\ rpc'[q] = rpc[q] /\ req'[q] = req[q],
               approvals' = approvals, row'[t].status \in {"cancelled", row[t].status},
               row'[t].lease = row[t].lease
        PROVE  OneQuestionAt(t)'
    <3>1. Quiet(t) => Quiet(t)'
      BY <2>3 DEF Quiet, Asks
    <3>2. Single(t)'
      BY <1>1, <2>3, <3>1 DEF Single, Asks
    <3>3. \A w \in Worker : Busy(w, t) => Undisturbed(w, t)'
      BY <1>1, <2>2, <2>3, <3>1 DEF OneQuestionAt, Undisturbed
    <3> QED
      BY <2>2, <3>2, <3>3 DEF OneQuestionAt
  <2>4. ASSUME Responds(r), approvals' = approvals, row'[t].status \in {"cancelled", row[t].status},
               row'[t].lease = row[t].lease
        PROVE  OneQuestionAt(t)'
    BY <2>2, <2>3, <2>4 DEF Responds, OtherCalls, Deciding
  <2>5. CASE rpc[r] = "cancel" /\ Responds(r) /\ approvals' = approvals
             /\ row'[t].status \in {"cancelled", row[t].status} /\ row'[t].lease = row[t].lease
    BY <2>4, <2>5
  <2>6. ASSUME rpc[r] = "decide", rpc'[r] = "decided", req' = req, row' = row,
               NEW s \in Stamp, approvals[s].task = t, approvals[s].status = "pending",
               approvals'[s].status \in {"approved", "denied"},
               \A u \in Stamp : u # s => approvals'[u] = approvals[u]
        PROVE  OneQuestionAt(t)'
    <3>1. Asks(s, t) /\ ~Quiet(t) /\ \A q \in Request : ~Deciding(q, t)
      BY <1>1, <2>6 DEF Asks, Quiet, Single
    <3>2. \A u \in Stamp : ~Asks(u, t)'
      BY <1>1, <2>6, <3>1 DEF Single, Asks
    <3>3. \A q \in Request : Deciding(q, t)' => q = r
      BY <2>2, <2>6, <3>1 DEF OtherCalls, Deciding
    <3>4. row'[t].status # "queued" /\ \A w \in Worker : Busy(w, t) => pc[w] = "pause"
      BY <1>1, <2>6, <3>1 DEF Single, OneQuestionAt, Undisturbed
    <3>5. Single(t)'
      BY <2>6, <3>2, <3>3, <3>4 DEF Single
    <3>6. \A w \in Worker : Busy(w, t)' => Undisturbed(w, t)'
      BY <2>2, <3>4 DEF Undisturbed, Unread
    <3> QED
      BY <3>5, <3>6 DEF OneQuestionAt
  <2>7. ASSUME rpc[r] = "decided", rpc'[r] = "requeue", row' = row, approvals' = approvals,
               req'[r].task = t, req'[r].cache = row[t]
        PROVE  OneQuestionAt(t)'
    <3>1. Deciding(r, t) /\ ~Quiet(t) /\ row[t].status # "queued"
      BY <1>1, <1>12, <2>7 DEF Deciding, Quiet, Single
    <3>2. \A q \in Request : Deciding(q, t)' => q = r
      BY <1>1, <2>2, <3>1 DEF Single, OtherCalls, Deciding
    <3>3. \A u \in Stamp : ~Asks(u, t)'
      BY <1>1, <2>7, <3>1 DEF Single, Asks
    <3>4. Single(t)'
      BY <2>7, <3>1, <3>2, <3>3 DEF Single
    <3>5. \A w \in Worker : Busy(w, t)' => Undisturbed(w, t)'
      BY <1>1, <2>2, <2>7, <3>1 DEF OneQuestionAt, Undisturbed, Unread
    <3> QED
      BY <3>4, <3>5 DEF OneQuestionAt
  <2>8. ASSUME rpc[r] = "requeue", Responds(r), approvals' = approvals,
               row'[t].status = Keep(row[t].status, req[r].cache.status, "queued"),
               row'[t].lease = Keep(row[t].lease, req[r].cache.lease, "free"),
               Claimable(row'[t]) => \A w \in Worker : ~Busy(w, t)
        PROVE  OneQuestionAt(t)'
    <3>1. Deciding(r, t)
      BY <1>12, <2>8 DEF Deciding
    <3>2. Quiet(t)'
      BY <1>1, <2>2, <2>8, <3>1 DEF Single, Quiet, OtherCalls, Responds, Deciding, Asks
    <3>3. Single(t)'
      BY <3>2 DEF Single, Quiet
    <3>4. Claimable(row'[t])
      BY <1>1, <2>8, <3>1 DEF Single, Claimable, Keep
    <3> QED
      BY <2>2, <2>8, <3>3, <3>4 DEF OneQuestionAt
  <2>9. CASE Responds(r) /\ row' = row /\ approvals' = approvals
    BY <2>4, <2>9
  <2>10. ASSUME rpc[r] = "decide", ~Responds(r) PROVE OneQuestionAt(t)'
    <3>1. /\ rpc'[r] = "decided" /\ req' = req /\ row' = row /\ req[r].approval \in Stamp
          /\ approvals[req[r].approval].task = t /\ approvals[req[r].approval].status = "pending"
          /\ approvals'[req[r].approval].status \in {"approved", "denied"}
          /\ \A u \in Stamp : u # req[r].approval => approvals'[u] = approvals[u]
      BY <1>1, <1>12, <2>1, <2>10 DEF CallMove
    <3> QED
      BY <2>6, <2>10, <3>1
  <2>11. ASSUME rpc[r] = "requeue", ~(row' = row) PROVE OneQuestionAt(t)'
    <3>1. /\ Responds(r) /\ approvals' = approvals
          /\ row'[t].status = Keep(row[t].status, req[r].cache.status, "queued")
          /\ row'[t].lease = Keep(row[t].lease, req[r].cache.lease, "free")
          /\ Claimable(row'[t]) => \A w \in Worker : ~Busy(w, t)
      BY <1>1, <1>12, <2>1, <2>11 DEF CallMove
    <3> QED
      BY <2>8, <2>11, <3>1
  <2>12. \/ rpc[r] = "cancel" /\ Responds(r) /\ approvals' = approvals
            /\ row'[t].status \in {"cancelled", row[t].status} /\ row'[t].lease = row[t].lease
         \/ rpc[r] = "decide" /\ ~Responds(r)
         \/ /\ rpc[r] = "decided" /\ rpc'[r] = "requeue" /\ row' = row /\ approvals' = approvals
            /\ req'[r].task = t /\ req'[r].cache = row[t]
         \/ rpc[r] = "requeue" /\ ~(row' = row)
         \/ Responds(r) /\ row' = row /\ approvals' = approvals
    BY <1>12, <2>1 DEF CallMove, Responds
  <2> QED
    BY <2>5, <2>7, <2>9, <2>10, <2>11, <2>12
<1>13. ASSUME LeaseLapse(t) PROVE OneQuestionAt(t)'
  <2>1. LapseMove(t)
    BY <1>13, LapseMoves
  <2>2. Single(t)' /\ (Quiet(t)' <=> Quiet(t))
    BY <1>1, <1>5, <2>1 DEF LapseMove, Single, Asks, Deciding, requestVars
  <2> QED
    BY <1>1, <2>1, <2>2 DEF LapseMove, workerVars, OneQuestionAt, Undisturbed, Busy
<1>14. CASE \E u \in Task : LeaseLapse(u)
  BY <1>2, <1>13, <1>14, OtherElsewhere
<1>15. ASSUME NEW r \in Request, UserCalls(r) \/ RequestStep(r) \/ RequestDies(r)
       PROVE  OneQuestionAt(t)'
  <2>1. CASE UserCalls(r) \/ t # req[r].task
    BY <1>2, <1>15, <2>1, RequestElsewhere
  <2> QED
    BY <1>12, <1>15, <2>1
<1>16. CASE UNCHANGED vars
  BY <1>2, <1>16, OtherElsewhere
<1> QED
  BY <1>11, <1>14, <1>15, <1>16 DEF Next
----------------------------------------------------------------------------
(* Executions and answers.                                                 *)

\* What is known of an executed call.
Spent(s, t) ==
  /\ ran[s] = 1 /\ approvals[s].status = "approved"
  /\ IsLatest(s, t) =>
       /\ Quiet(t) /\ row[t].status # "queued"
       /\ \A w \in Worker : Busy(w, t) => pc[w] \in Past

\* Every step keeps executed calls approved and executed once.
LEMMA NextExecuted ==
  /\ Typed /\ Stamps /\ Owners /\ Branch /\ ExclusiveInv /\ Held /\ Latest /\ OneQuestion
  /\ Executed /\ [Next]_vars
  => Executed'
<1> SUFFICES ASSUME TypeOK, Linked, Stamps, Owners, Branch, ExclusiveInv, Held, Latest, OneQuestion,
                    Executed, [Next]_vars, Latest',
                    NEW t \in Task, Unspoilt(t, {"overlap", "torn", "double"})'
             PROVE  ExecutedAt(t)'
  BY NextLatest DEF Typed, Executed
<1> USE NoneAssumption
<1>1. /\ "overlap" \notin faults[t] /\ "overlap" \notin faults'[t] /\ "double" \notin faults'[t]
      /\ HeldAt(t) /\ LatestAt(t) /\ OneQuestionAt(t) /\ ExecutedAt(t) /\ LatestAt(t)'
  BY FaultsGrow DEF Unspoilt, Held, Latest, OneQuestion, Executed
<1>2. ASSUME Untouched(t) PROVE ExecutedAt(t)'
  BY <1>1, <1>2, UntouchedTask
<1>3. \A s \in Stamp : approvals[s].task = t /\ ran[s] > 0 => Spent(s, t)
  BY <1>1 DEF ExecutedAt, Spent
<1>4. ASSUME \A w \in Worker : cur'[w] = t /\ pc'[w] \in Granted /\ mem'[w].call # None =>
               approvals'[mem'[w].call].status = "approved",
             \A s \in Stamp : approvals'[s].task = t /\ ran'[s] > 0 => Spent(s, t)'
      PROVE  ExecutedAt(t)'
  BY <1>4 DEF ExecutedAt, Spent, IsLatest, Busy, Quiet, Asks, Deciding
<1>5. ASSUME NEW w \in Worker, cur[w] = t, pc[w] \notin Tail, pc[w] # "idle", Others(w)
      PROVE  /\ HeldBy(w, t) /\ Undisturbed(w, t)
             /\ \A v \in Worker : v # w => ~Busy(v, t) /\ ~Busy(v, t)'
             /\ pc[w] \notin Past =>
                  \A s \in Stamp : approvals[s].task = t /\ ran[s] > 0 => ~IsLatest(s, t)
  <2>1. Busy(w, t)
    BY <1>5 DEF Busy
  <2> QED
    BY <1>1, <1>3, <1>5, <2>1, Alone DEF HeldAt, OneQuestionAt, Spent
<1>6. ASSUME NEW w \in Worker, cur[w] = t, Others(w), approvals' = approvals,
             cur'[w] = t /\ pc'[w] \in Granted /\ mem'[w].call # None =>
               approvals[mem'[w].call].status = "approved"
      PROVE  \A v \in Worker : cur'[v] = t /\ pc'[v] \in Granted /\ mem'[v].call # None =>
               approvals'[mem'[v].call].status = "approved"
  BY <1>1, <1>6 DEF ExecutedAt, Others
<1>7. ASSUME NEW w \in Worker, cur[w] = t, Local(w) PROVE ExecutedAt(t)'
  <2>1. LocalMove(w)
    BY <1>7, LocalMoves
  <2>2. CASE Leaves(w)
    BY <1>1, <2>1, <2>2, LeavesTask DEF LocalMove
  <2>3. ASSUME ~Leaves(w) PROVE ExecutedAt(t)'
    <3>1. /\ UNCHANGED <<row, approvals, ran, requestVars>> /\ Others(w) /\ cur'[w] = t
          /\ \/ pc[w] = "claimed" /\ pc'[w] = "load"
             \/ Loads(w) \/ Checks(w) \/ Refreshes(w) \/ Runs(w) \/ Proceeds(w)
      BY <1>7, <2>1, <2>3 DEF LocalMove
    <3>2. pc[w] \notin Tail /\ pc[w] # "idle"
      BY <3>1 DEF Loads, Checks, Refreshes, Runs, Proceeds, Tail
    <3>3. \A v \in Worker : v # w => ~Busy(v, t) /\ ~Busy(v, t)'
      BY <1>5, <1>7, <3>1, <3>2
    <3>4. pc[w] \in Past => pc'[w] \in Past
      BY <3>1 DEF Loads, Checks, Refreshes, Runs, Proceeds, Past
    <3>5. ASSUME pc'[w] \in Granted, mem'[w].call # None
          PROVE  approvals[mem'[w].call].status = "approved"
      <4>1. CASE Checks(w)
        <5>1. mem'[w].grant = mem'[w].call
          BY <1>1, <3>1, <3>5 DEF LatestAt
        <5>2. approvals[mem'[w].grant].status = "approved"
          BY <3>5, <4>1 DEF Checks, Granted
        <5> QED
          BY <5>1, <5>2
      <4>2. CASE ~Checks(w)
        <5>1. pc[w] \in Granted /\ mem'[w].call = mem[w].call
          BY <3>1, <3>5, <4>2 DEF Loads, Refreshes, Runs, Proceeds, SameCall, Granted
        <5> QED
          BY <1>1, <1>7, <3>5, <5>1 DEF ExecutedAt
      <4> QED
        BY <4>1, <4>2
    <3>6. ASSUME NEW s \in Stamp, approvals'[s].task = t, ran'[s] > 0 PROVE Spent(s, t)'
      <4>1. Spent(s, t) /\ ran'[s] = ran[s] /\ approvals'[s] = approvals[s] /\ row' = row
        BY <1>3, <3>1, <3>6
      <4>2. (IsLatest(s, t)' <=> IsLatest(s, t)) /\ (Quiet(t)' <=> Quiet(t))
        BY <3>1 DEF IsLatest, Quiet, Asks, Deciding, requestVars
      <4>3. \A v \in Worker : Busy(v, t)' => v = w
        BY <3>3
      <4>4. Busy(w, t)
        BY <1>7, <3>2 DEF Busy
      <4> QED
        BY <3>4, <4>1, <4>2, <4>3, <4>4 DEF Spent
    <3> QED
      BY <1>4, <1>6, <1>7, <3>1, <3>5, <3>6
  <2> QED
    BY <2>2, <2>3
<1>8. ASSUME NEW w \in Worker, cur[w] = t, Commit(w) PROVE ExecutedAt(t)'
  <2>1. CommitMove(w)
    BY <1>8, CommitMoves
  <2>2. /\ pc[w] \notin Tail /\ pc[w] # "idle" /\ Others(w)
        /\ UNCHANGED <<approvals, ran, requestVars>>
    BY <2>1 DEF CommitMove, Tail
  <2>3. /\ \A v \in Worker : v # w => ~Busy(v, t) /\ ~Busy(v, t)'
        /\ pc[w] \notin Past =>
             \A s \in Stamp : approvals[s].task = t /\ ran[s] > 0 => ~IsLatest(s, t)
    BY <1>5, <1>8, <2>2
  <2>4. ASSUME cur'[w] = t, pc'[w] \in Granted, mem'[w].call # None
        PROVE  approvals[mem'[w].call].status = "approved"
    <3>1. pc[w] = "resume" /\ mem'[w] = mem[w]
      BY <2>1, <2>4 DEF CommitMove, Leaves, Granted, Branch
    <3> QED
      BY <1>1, <1>8, <2>4, <3>1 DEF ExecutedAt, Granted
  <2>5. pc[w] \in Past => row'[t].status \in {row[t].status, "failed", "succeeded"} /\ ~Busy(w, t)'
    BY <1>8, <2>1 DEF CommitMove, Past, Written, Keep, Busy, Tail
  <2>6. ASSUME NEW s \in Stamp, approvals'[s].task = t, ran'[s] > 0 PROVE Spent(s, t)'
    <3>1. Spent(s, t) /\ ran'[s] = ran[s] /\ approvals'[s] = approvals[s]
      BY <1>3, <2>2, <2>6
    <3>2. (IsLatest(s, t)' <=> IsLatest(s, t)) /\ (Quiet(t)' <=> Quiet(t))
      BY <2>2 DEF IsLatest, Quiet, Asks, Deciding, requestVars
    <3>3. IsLatest(s, t) => pc[w] \in Past
      BY <2>2, <2>3, <2>6
    <3>4. IsLatest(s, t) => \A v \in Worker : ~Busy(v, t)'
      BY <2>3, <2>5, <3>3
    <3> QED
      BY <2>5, <3>1, <3>2, <3>3, <3>4 DEF Spent
  <2> QED
    BY <1>4, <1>6, <1>8, <2>2, <2>4, <2>6
<1>9. ASSUME NEW w \in Worker, Claim(w, t) PROVE ExecutedAt(t)'
  <2>1. ClaimMove(w, t)
    BY <1>9, ClaimMoves
  <2>2. \A v \in Worker : cur'[v] = t /\ pc'[v] \in Granted /\ mem'[v].call # None =>
          approvals'[mem'[v].call].status = "approved"
    BY <1>1, <2>1 DEF ClaimMove, Others, ExecutedAt, Granted
  <2>3. \A s \in Stamp : approvals[s].task = t /\ ran[s] > 0 => ~IsLatest(s, t)
    BY <1>3, <2>1 DEF ClaimMove, Claimable, Spent
  <2>4. ASSUME NEW s \in Stamp, approvals'[s].task = t, ran'[s] > 0 PROVE Spent(s, t)'
    BY <1>3, <2>1, <2>3, <2>4 DEF ClaimMove, Spent, IsLatest
  <2> QED
    BY <1>4, <2>2, <2>4
<1>10. ASSUME NEW w \in Worker, cur[w] = t, ExecuteTool(w) PROVE ExecutedAt(t)'
  <2>1. ExecuteMove(w)
    BY <1>10, ExecuteMoves
  <2> DEFINE c == mem[w].call
  <2>2. /\ pc[w] \notin Tail /\ pc[w] # "idle" /\ pc[w] = "tool" /\ Others(w) /\ cur'[w] = t
        /\ UNCHANGED <<row, approvals, requestVars>> /\ mem'[w] = mem[w]
        /\ c \in Stamp /\ approvals[c].task = t /\ pc'[w] \in {"run", "fail"}
    BY <1>10, <2>1 DEF ExecuteMove, Tail
  <2>3. /\ HeldBy(w, t) /\ Undisturbed(w, t)
        /\ \A v \in Worker : v # w => ~Busy(v, t) /\ ~Busy(v, t)'
        /\ \A s \in Stamp : approvals[s].task = t /\ ran[s] > 0 => ~IsLatest(s, t)
    BY <1>5, <1>10, <2>2 DEF Past
  <2>4. IsLatest(c, t)
    <3>1. row[t].checkpoint = c /\ c # None
      BY <2>2, <2>3 DEF HeldBy, Acting, Stamp
    <3> QED
      BY <1>1, <2>2, <2>3, <3>1 DEF LatestAt
  <2>5. ran[c] = 0
    BY <2>2, <2>3, <2>4 DEF TypeOK
  <2>6. approvals[c].status = "approved"
    BY <1>1, <1>10, <2>2 DEF ExecutedAt, Granted, Stamp
  <2>7. Quiet(t) /\ Quiet(t)' /\ row'[t].status # "queued"
    BY <2>2, <2>3 DEF Undisturbed, Quiet, Asks, Deciding, requestVars
  <2>8. \A v \in Worker : Busy(v, t)' => pc'[v] \in Past
    BY <2>2, <2>3 DEF Past
  <2>9. ASSUME NEW s \in Stamp, approvals'[s].task = t, ran'[s] > 0 PROVE Spent(s, t)'
    <3>1. CASE s = c
      BY <2>1, <2>2, <2>5, <2>6, <2>7, <2>8, <3>1 DEF ExecuteMove, Spent
    <3>2. CASE s # c
      <4>1. ran'[s] = ran[s] /\ approvals'[s] = approvals[s] /\ Spent(s, t)
        BY <1>3, <2>1, <2>2, <2>9, <3>2 DEF ExecuteMove
      <4> QED
        BY <2>7, <2>8, <4>1 DEF Spent
    <3> QED
      BY <3>1, <3>2
  <2>10. pc'[w] \notin Granted
    BY <2>2 DEF Granted
  <2> QED
    BY <1>4, <1>6, <1>10, <2>2, <2>9, <2>10
<1>11. ASSUME NEW w \in Worker, cur[w] = t, Ask(w) PROVE ExecutedAt(t)'
  <2>1. AskMove(w)
    BY <1>11, AskMoves
  <2> DEFINE c == mem[w].stamp
  <2>2. /\ pc[w] \notin Tail /\ pc[w] # "idle" /\ pc[w] = "run" /\ Others(w) /\ pc'[w] = "pause"
        /\ c \in Stamp /\ ran[c] = 0 /\ approvals[c].task = None /\ ran' = ran /\ row' = row
        /\ approvals'[c].task = t /\ \A s \in Stamp : s # c => approvals'[s] = approvals[s]
    BY <1>11, <2>1 DEF AskMove, Tail
  <2>3. \A s \in Stamp : approvals[s].task = t => s < c
    BY <1>5, <1>11, <2>2 DEF HeldBy
  <2>4. ASSUME NEW s \in Stamp, approvals'[s].task = t, ran'[s] > 0 PROVE Spent(s, t)'
    <3>1. s # c /\ approvals'[s] = approvals[s] /\ ran'[s] = ran[s]
      BY <2>2, <2>4
    <3>2. Spent(s, t) /\ s < c
      BY <1>3, <2>3, <2>4, <3>1
    <3>3. ~(c <= s)
      BY <2>2, <3>2 DEF Stamp
    <3>4. ~IsLatest(s, t)'
      BY <2>2, <3>3 DEF IsLatest
    <3> QED
      BY <3>1, <3>2, <3>4 DEF Spent
  <2>5. ASSUME NEW v \in Worker, cur'[v] = t, pc'[v] \in Granted, mem'[v].call # None
        PROVE  approvals'[mem'[v].call].status = "approved"
    <3>1. v # w /\ cur[v] = t /\ pc[v] = pc'[v] /\ mem'[v] = mem[v]
      BY <2>2, <2>5 DEF Others, Granted
    <3>2. mem[v].call \in Stamp /\ approvals[mem[v].call].task = t
      BY <2>5, <3>1 DEF Owners, TypeOK, Mem
    <3>3. approvals'[mem[v].call] = approvals[mem[v].call]
      BY <2>2, <3>2
    <3> QED
      BY <1>1, <2>5, <3>1, <3>3 DEF ExecutedAt
  <2> QED
    BY <1>4, <2>4, <2>5
<1>12. ASSUME NEW w \in Worker, WorkerStep(w) \/ Crash(w) PROVE ExecutedAt(t)'
  <2>1. CASE cur[w] = t
    <3>1. ~\E u \in Task : u # t /\ Claim(w, u)
      BY <2>1 DEF Claim, Linked
    <3> QED
      BY <1>7, <1>8, <1>9, <1>10, <1>11, <1>12, <2>1, <3>1 DEF WorkerStep, Local, Commit
  <2> QED
    BY <1>2, <1>9, <1>12, <2>1, WorkerElsewhere
<1>13. ASSUME UNCHANGED <<workerVars, ran>>,
              \A s \in Stamp : approvals[s].status = "approved" => approvals'[s] = approvals[s],
              \A s \in Stamp : approvals'[s].task = approvals[s].task,
              Quiet(t) => Quiet(t)' /\ row'[t].status \in {row[t].status, "cancelled"}
       PROVE  ExecutedAt(t)'
  <2>1. \A w \in Worker : /\ cur'[w] = cur[w] /\ pc'[w] = pc[w] /\ mem'[w] = mem[w]
                          /\ Busy(w, t)' <=> Busy(w, t)
    BY <1>13 DEF workerVars, Busy
  <2>2. \A w \in Worker : mem[w].call \in Stamp \cup {None}
    BY DEF TypeOK, Mem
  <2>3. ASSUME NEW s \in Stamp, approvals'[s].task = t, ran'[s] > 0 PROVE Spent(s, t)'
    <3>1. Spent(s, t) /\ ran'[s] = ran[s] /\ approvals'[s] = approvals[s]
      BY <1>3, <1>13, <2>3 DEF Spent
    <3>2. IsLatest(s, t)' => IsLatest(s, t)
      BY <1>13 DEF IsLatest
    <3> QED
      BY <1>13, <2>1, <3>1, <3>2 DEF Spent
  <2>4. ASSUME NEW w \in Worker, cur'[w] = t, pc'[w] \in Granted, mem'[w].call # None
        PROVE  approvals'[mem'[w].call].status = "approved"
    <3>1. mem'[w].call \in Stamp /\ approvals[mem'[w].call].status = "approved"
      BY <1>1, <2>1, <2>2, <2>4 DEF ExecutedAt
    <3> QED
      BY <1>13, <3>1
  <2> QED
    BY <1>4, <2>3, <2>4
<1>14. ASSUME NEW r \in Request, req[r].task = t, RequestStep(r) \/ RequestDies(r)
       PROVE  ExecutedAt(t)'
  <2>1. CallMove(r)
    BY <1>14, CallMoves
  <2>2. \A s \in Stamp : approvals[s].status = "approved" => approvals'[s] = approvals[s]
    BY <1>1, <1>14, <2>1 DEF CallMove
  <2>3. \A s \in Stamp : approvals'[s].task = approvals[s].task
    BY <1>14, OutsideEffect
  <2>4. ASSUME Quiet(t) PROVE Quiet(t)' /\ row'[t].status \in {row[t].status, "cancelled"}
    <3>1. rpc[r] \notin {"decided", "requeue"}
      BY <1>14, <2>4 DEF Quiet, Deciding
    <3>2. ~(rpc[r] = "decide" /\ rpc'[r] = "decided")
      BY <1>1, <1>14, <2>1, <2>4, <3>1 DEF CallMove, Quiet, Asks, Responds
    <3>3. Responds(r) /\ approvals' = approvals /\ row'[t].status \in {row[t].status, "cancelled"}
      BY <1>14, <2>1, <3>1, <3>2 DEF CallMove
    <3>4. OtherCalls(r)
      BY <2>1 DEF CallMove
    <3> QED
      BY <2>4, <3>3, <3>4 DEF Quiet, Asks, Deciding, Responds, OtherCalls
  <2> QED
    BY <1>13, <2>1, <2>2, <2>3, <2>4 DEF CallMove
<1>15. ASSUME LeaseLapse(t) PROVE ExecutedAt(t)'
  <2>1. LapseMove(t)
    BY <1>15, LapseMoves
  <2> QED
    BY <1>13, <2>1 DEF LapseMove, Quiet, Asks, Deciding, requestVars
<1>16. CASE \E u \in Task : LeaseLapse(u)
  BY <1>2, <1>15, <1>16, OtherElsewhere
<1>17. ASSUME NEW r \in Request, UserCalls(r) \/ RequestStep(r) \/ RequestDies(r)
       PROVE  ExecutedAt(t)'
  <2>1. CASE UserCalls(r) \/ t # req[r].task
    BY <1>2, <1>17, <2>1, RequestElsewhere
  <2> QED
    BY <1>14, <1>17, <2>1
<1>18. CASE UNCHANGED vars
  BY <1>2, <1>18, OtherElsewhere
<1> QED
  BY <1>12, <1>16, <1>17, <1>18 DEF Next
\* Every step keeps waiting tasks answerable.
LEMMA NextAnswerable ==
  /\ Typed /\ Stamps /\ Owners /\ Branch /\ ExclusiveInv /\ Held /\ OneQuestion
  /\ Answerable /\ [Next]_vars
  => Answerable'
<1> SUFFICES ASSUME TypeOK, Linked, Stamps, Owners, Branch, ExclusiveInv, Held, OneQuestion,
                    Answerable, [Next]_vars,
                    NEW t \in Task, Unspoilt(t, {"overlap", "double", "abandoned"})'
             PROVE  AnswerableAt(t)'
  BY DEF Typed, Answerable
<1> USE NoneAssumption
<1>1. /\ "overlap" \notin faults[t]
      /\ {"overlap", "double", "abandoned"} \cap faults'[t] = {}
      /\ HeldAt(t) /\ OneQuestionAt(t) /\ AnswerableAt(t)
  BY FaultsGrow DEF Unspoilt, Held, OneQuestion, Answerable
<1>2. ASSUME Untouched(t) PROVE AnswerableAt(t)'
  BY <1>1, <1>2, UntouchedTask
<1>3. ASSUME UNCHANGED <<approvals, requestVars>>, row'[t].status \in Status,
             row'[t].status = "waiting_approval" => row[t].status = "waiting_approval",
             \A w \in Worker : Busy(w, t)' /\ pc'[w] = "pause" =>
               Busy(w, t) /\ pc[w] = "pause" /\ mem'[w] = mem[w]
      PROVE  AnswerableAt(t)'
  BY <1>1, <1>3 DEF AnswerableAt, IsLatest, Deciding, requestVars
<1>4. ASSUME NEW w \in Worker, cur[w] = t, pc[w] \notin Tail, pc[w] # "idle", Others(w)
      PROVE  /\ HeldBy(w, t) /\ Undisturbed(w, t)
             /\ \A v \in Worker : v # w => ~Busy(v, t) /\ ~Busy(v, t)'
  <2>1. Busy(w, t)
    BY <1>4 DEF Busy
  <2> QED
    BY <1>1, <1>4, <2>1, Alone DEF HeldAt, OneQuestionAt
<1>5. row[t].status \in Status /\ row'[t].status \in Status
  BY NextType DEF Typed, TypeOK, Row
<1>6. ASSUME NEW w \in Worker, cur[w] = t, Local(w) PROVE AnswerableAt(t)'
  <2>1. LocalMove(w)
    BY <1>6, LocalMoves
  <2>2. CASE Leaves(w)
    BY <1>1, <2>1, <2>2, LeavesTask DEF LocalMove
  <2>3. ASSUME ~Leaves(w) PROVE AnswerableAt(t)'
    <3>1. /\ UNCHANGED <<row, approvals, requestVars>> /\ Others(w) /\ pc'[w] # "pause"
      BY <2>1, <2>3 DEF LocalMove, Loads, Checks, Refreshes, Runs, Proceeds
    <3> QED
      BY <1>3, <1>5, <3>1 DEF Others, Busy
  <2> QED
    BY <2>2, <2>3
<1>7. ASSUME NEW w \in Worker, cur[w] = t, Commit(w) PROVE AnswerableAt(t)'
  <2>1. CommitMove(w)
    BY <1>7, CommitMoves
  <2>2. /\ pc[w] \notin Tail /\ pc[w] # "idle" /\ Others(w) /\ pc'[w] # "pause"
        /\ UNCHANGED <<approvals, requestVars>>
    BY <2>1 DEF CommitMove, Leaves, Tail
  <2>3. CASE pc[w] = "pause"
    <3>1. IsLatest(mem[w].stamp, t) /\ mem[w].stamp \in Stamp
      BY <1>4, <1>7, <2>2, <2>3 DEF HeldBy, Owners
    <3>2. \/ approvals[mem[w].stamp].status = "pending"
          \/ \E r \in Request : Deciding(r, t)
      BY <1>1, <1>7, <2>2, <2>3 DEF AnswerableAt, Busy
    <3>3. \A v \in Worker : ~(Busy(v, t)' /\ pc'[v] = "pause")
      BY <1>4, <1>7, <2>2
    <3> QED
      BY <2>2, <3>1, <3>2, <3>3 DEF AnswerableAt, IsLatest, Deciding, requestVars
  <2>4. CASE pc[w] # "pause"
    <3>1. row'[t].status = "waiting_approval" => row[t].status = "waiting_approval"
      BY <1>7, <2>1, <2>4 DEF CommitMove, Written, Keep
    <3> QED
      BY <1>3, <1>4, <1>5, <1>7, <2>2, <3>1
  <2> QED
    BY <2>3, <2>4
<1>8. ASSUME NEW w \in Worker, Claim(w, t) PROVE AnswerableAt(t)'
  <2>1. ClaimMove(w, t)
    BY <1>8, ClaimMoves
  <2> QED
    BY <1>3, <1>5, <2>1 DEF ClaimMove, Others, Busy
<1>9. ASSUME NEW w \in Worker, cur[w] = t, ExecuteTool(w) PROVE AnswerableAt(t)'
  <2>1. ExecuteMove(w)
    BY <1>9, ExecuteMoves
  <2> QED
    BY <1>3, <1>5, <2>1 DEF ExecuteMove, Others, Busy
<1>10. ASSUME NEW w \in Worker, cur[w] = t, Ask(w) PROVE AnswerableAt(t)'
  <2>1. AskMove(w)
    BY <1>10, AskMoves
  <2>2. /\ Undisturbed(w, t) /\ pc[w] = "run"
        /\ \A v \in Worker : v # w => ~Busy(v, t)'
    BY <1>4, <1>10, <2>1 DEF AskMove, Tail
  <2>3. row'[t].status # "waiting_approval"
    BY <2>1, <2>2 DEF AskMove, Undisturbed
  <2> QED
    BY <2>1, <2>2, <2>3 DEF AskMove, AnswerableAt
<1>11. ASSUME NEW w \in Worker, WorkerStep(w) \/ Crash(w) PROVE AnswerableAt(t)'
  <2>1. CASE cur[w] = t
    <3>1. ~\E u \in Task : u # t /\ Claim(w, u)
      BY <2>1 DEF Claim, Linked
    <3> QED
      BY <1>6, <1>7, <1>8, <1>9, <1>10, <1>11, <2>1, <3>1 DEF WorkerStep, Local, Commit
  <2> QED
    BY <1>2, <1>8, <1>11, <2>1, WorkerElsewhere
<1>12. ASSUME NEW r \in Request, req[r].task = t, RequestStep(r) \/ RequestDies(r)
       PROVE  AnswerableAt(t)'
  <2>1. CallMove(r)
    BY <1>12, CallMoves
  <2>2. /\ OtherCalls(r)
        /\ \A w \in Worker : pc'[w] = pc[w] /\ cur'[w] = cur[w] /\ mem'[w] = mem[w]
        /\ \A w \in Worker : Busy(w, t)' <=> Busy(w, t)
    BY <2>1 DEF CallMove, workerVars, Busy
  <2>3. CASE Deciding(r, t)'
    BY <2>3 DEF AnswerableAt
  <2>4. ASSUME rpc[r] \notin {"decided", "requeue"}, approvals' = approvals,
               row'[t].status \in {row[t].status, "cancelled"}
        PROVE  AnswerableAt(t)'
    <3>1. \A q \in Request : Deciding(q, t) => Deciding(q, t)'
      BY <2>2, <2>4 DEF OtherCalls, Deciding
    <3>2. \A s \in Stamp : IsLatest(s, t) => IsLatest(s, t)'
      BY <2>4 DEF IsLatest
    <3> QED
      BY <1>1, <2>2, <2>4, <3>1, <3>2 DEF AnswerableAt
  <2>5. ASSUME rpc[r] = "requeue", ~(row' = row) PROVE AnswerableAt(t)'
    <3>1. /\ row'[t].status = Keep(row[t].status, req[r].cache.status, "queued")
          /\ row'[t].lease = Keep(row[t].lease, req[r].cache.lease, "free")
          /\ Claimable(row'[t]) => \A w \in Worker : ~Busy(w, t)
      BY <1>1, <1>12, <2>1, <2>5 DEF CallMove
    <3>2. /\ req[r].cache.status # "queued"
          /\ req[r].cache.lease = "free" => row[t].lease # "held"
      BY <1>1, <1>12, <2>5 DEF OneQuestionAt, Single, Deciding
    <3>3. row'[t].status = "queued" /\ Claimable(row'[t])
      BY <3>1, <3>2 DEF Claimable, Keep
    <3> QED
      BY <2>2, <3>1, <3>3 DEF AnswerableAt
  <2>6. \/ Deciding(r, t)'
        \/ /\ rpc[r] \notin {"decided", "requeue"} /\ approvals' = approvals
           /\ row'[t].status \in {row[t].status, "cancelled"}
        \/ rpc[r] = "requeue" /\ ~(row' = row)
        \/ row' = row /\ rpc[r] = "requeue" /\ Responds(r) /\ approvals' = approvals
           /\ row'[t].status = Keep(row[t].status, req[r].cache.status, "queued")
    BY <1>1, <1>12, <2>1 DEF CallMove, Deciding
  <2>7. ASSUME row' = row, rpc[r] = "requeue", Responds(r), approvals' = approvals,
               row'[t].status = Keep(row[t].status, req[r].cache.status, "queued")
        PROVE  AnswerableAt(t)'
    <3>1. Deciding(r, t) /\ row[t].status = "queued"
      BY <1>1, <1>12, <2>7 DEF OneQuestionAt, Single, Deciding, Keep
    <3> QED
      BY <1>1, <3>1 DEF OneQuestionAt, Single, Quiet
  <2> QED
    BY <2>3, <2>4, <2>5, <2>6, <2>7
<1>13. ASSUME LeaseLapse(t) PROVE AnswerableAt(t)'
  <2>1. LapseMove(t)
    BY <1>13, LapseMoves
  <2> QED
    BY <1>3, <1>5, <2>1 DEF LapseMove, workerVars, Busy
<1>14. CASE \E u \in Task : LeaseLapse(u)
  BY <1>2, <1>13, <1>14, OtherElsewhere
<1>15. ASSUME NEW r \in Request, UserCalls(r) \/ RequestStep(r) \/ RequestDies(r)
       PROVE  AnswerableAt(t)'
  <2>1. CASE UserCalls(r) \/ t # req[r].task
    BY <1>2, <1>15, <2>1, RequestElsewhere
  <2> QED
    BY <1>12, <1>15, <2>1
<1>16. CASE UNCHANGED vars
  BY <1>2, <1>16, OtherElsewhere
<1> QED
  BY <1>11, <1>14, <1>15, <1>16 DEF Next

----------------------------------------------------------------------------
(* The theorems.                                                           *)

GateInv ==
  /\ Typed /\ Stamps /\ Owners /\ Branch /\ ExclusiveInv
  /\ Held /\ Latest /\ OneQuestion /\ Executed /\ Answerable

\* The invariants hold at the start.
LEMMA InitGate == Init => GateInv
<1> SUFFICES ASSUME Init PROVE GateInv
  OBVIOUS
<1> USE NoneAssumption DEF Init
<1>1. Typed
  BY InitType
<1>2. /\ \A w \in Worker : pc[w] = "idle" /\ cur[w] = None /\ mem[w] = NoMem
      /\ \A t \in Task, w \in Worker : ~Busy(w, t)
      /\ \A r \in Request : rpc[r] = "idle"
      /\ \A s \in Stamp : approvals[s].task = None /\ ran[s] = 0
      /\ \A t \in Task : row[t] = NewRow
  BY DEF Busy, NoApproval
<1>3. Stamps /\ Owners /\ Branch /\ ExclusiveInv
  BY <1>2 DEF Stamps, Owners, Branch, ExclusiveInv, Separate, NewRow, NoMem
<1>4. Held /\ Latest
  BY <1>2 DEF Held, HeldAt, Latest, LatestAt, NewRow
<1>5. \A t \in Task : Quiet(t)
  BY <1>2 DEF Quiet, Asks, Deciding
<1>6. OneQuestion
  BY <1>2, <1>5 DEF OneQuestion, OneQuestionAt, Single, Quiet
<1>7. Executed /\ Answerable
  BY <1>2 DEF Executed, ExecutedAt, Answerable, AnswerableAt, NewRow
<1> QED
  BY <1>1, <1>3, <1>4, <1>6, <1>7 DEF GateInv

\* The invariants hold in every state.
LEMMA GateInvariant == Spec => []GateInv
<1>1. GateInv /\ [Next]_vars => GateInv'
  BY NextType, NextLinked, NextStamps, NextOwners, NextBranch, NextExclusiveInv, NextHeld, NextLatest,
     NextOneQuestion, NextExecuted, NextAnswerable DEF GateInv, Typed
<1> QED
  BY <1>1, InitGate, PTL DEF Spec

\* The tool call a resumed run executes is the one whose approval it read, unless two
\* workers overlapped or a worker died between approval and checkpoint.
THEOREM ApprovedCallIsExecuted == Spec => []GrantMatches
<1>1. GateInv => GrantMatches
  BY NoneAssumption
     DEF GateInv, Latest, LatestAt, Unspoilt, GrantMatches, Typed, Linked, Granted, Stamp
<1> QED
  BY <1>1, GateInvariant, PTL

\* An approved call is executed at most once, across crashes, lapses and cancels.
THEOREM AtMostOnce == Spec => []RunOnce
<1>1. GateInv => RunOnce
  <2> SUFFICES ASSUME GateInv, NEW s \in Stamp, approvals[s].task # None,
                      faults[approvals[s].task] \cap {"overlap", "torn", "double"} = {}
               PROVE  ran[s] <= 1
    BY DEF RunOnce
  <2>1. approvals[s].task \in Task /\ ran[s] \in Nat
    BY DEF GateInv, Typed, TypeOK, Approval
  <2>2. ran[s] > 0 => ran[s] = 1
    BY <2>1 DEF GateInv, Executed, ExecutedAt, Unspoilt
  <2> QED
    BY <2>1, <2>2
<1> QED
  BY <1>1, GateInvariant, PTL

\* What was executed had been approved, and a denied call was not.
THEOREM DeniedNeverRuns == Spec => []OnlyApprovedRuns
<1>1. GateInv => OnlyApprovedRuns
  <2> SUFFICES ASSUME GateInv, NEW s \in Stamp, ran[s] > 0,
                      faults[approvals[s].task] \cap {"overlap", "torn", "double"} = {}
               PROVE  approvals[s].status = "approved"
    BY DEF OnlyApprovedRuns
  <2>1. approvals[s].task \in Task
    BY DEF GateInv, Typed, TypeOK, Approval, Stamps
  <2> QED
    BY <2>1 DEF GateInv, Executed, ExecutedAt, Unspoilt
<1> QED
  BY <1>1, GateInvariant, PTL

\* A task that waits has an approval the user can still decide, or a decision that is
\* on its way to the queue.
THEOREM WaitingCanBeAnswered == Spec => []WaitingIsAnswerable
<1>1. GateInv => WaitingIsAnswerable
  BY DEF GateInv, Answerable, AnswerableAt, Unspoilt, WaitingIsAnswerable, Deciding
<1> QED
  BY <1>1, GateInvariant, PTL
----------------------------------------------------------------------------
(* The refinement of ApprovalGate.                                         *)

\* What the gate sees of a call.
GateState(s) ==
  IF approvals[s].task = None THEN "unasked"
  ELSE IF Exposed(s) THEN "exposed" ELSE approvals[s].status
GateRuns(s) == IF approvals[s].task # None /\ ~Exposed(s) THEN ran[s] ELSE 0

\* A step that changes nothing the gate sees.
LEMMA GateStutters ==
  ASSUME \A s \in Stamp : /\ approvals'[s].task = approvals[s].task
                          /\ GateState(s)' = GateState(s) /\ GateRuns(s)' = GateRuns(s)
  PROVE  UNCHANGED Gate!vars
  BY DEF Gate!vars, GateState, GateRuns

\* What exposes every question of a task is a step of the gate.
LEMMA GateExposes ==
  ASSUME NEW t \in Task,
         \A s \in Stamp :
           /\ approvals'[s].task = approvals[s].task
           /\ GateState(s)' = (IF approvals[s].task = t THEN "exposed" ELSE GateState(s))
           /\ GateRuns(s)' = (IF approvals[s].task = t THEN 0 ELSE GateRuns(s))
  PROVE  Gate!Next
<1>1. Gate!Expose(t)
  BY DEF Gate!Expose, GateState, GateRuns
<1> QED
  BY <1>1 DEF Gate!Next

\* The decision of a pending question is a step of the gate.
LEMMA GateDecides ==
  ASSUME NEW c \in Stamp, NEW decision \in {"approved", "denied"}, GateState(c) = "pending",
         \A s \in Stamp :
           /\ approvals'[s].task = approvals[s].task
           /\ GateState(s)' = (IF s = c THEN decision ELSE GateState(s))
           /\ GateRuns(s)' = GateRuns(s)
  PROVE  Gate!Next
<1>1. Gate!Decide(c, decision)
  BY DEF Gate!Decide, GateState, GateRuns
<1> QED
  BY <1>1 DEF Gate!Next

\* The first execution of an approved call is a step of the gate.
LEMMA GateExecutes ==
  ASSUME NEW c \in Stamp, GateState(c) = "approved", GateRuns(c) = 0,
         \A s \in Stamp : approvals[s].task = approvals[c].task => GateState(s) # "pending",
         \A s \in Stamp :
           /\ approvals'[s].task = approvals[s].task
           /\ GateState(s)' = GateState(s)
           /\ GateRuns(s)' = (IF s = c THEN 1 ELSE GateRuns(s))
  PROVE  Gate!Next
<1>1. Gate!Execute(c)
  BY DEF Gate!Execute, Gate!Open, GateState, GateRuns
<1> QED
  BY <1>1 DEF Gate!Next

\* A new question, pending or exposed at once, is a step of the gate.
LEMMA GateAsks ==
  ASSUME NEW c \in Stamp, NEW t \in Task, GateState(c) = "unasked",
         \/ GateState(c)' = "exposed"
         \/ /\ GateState(c)' = "pending"
            /\ \A s \in Stamp : approvals[s].task = t => GateState(s) # "pending",
         \A s \in Stamp :
           /\ approvals'[s].task = (IF s = c THEN t ELSE approvals[s].task)
           /\ s # c => GateState(s)' = GateState(s)
           /\ GateRuns(s)' = GateRuns(s)
  PROVE  Gate!Next
<1>1. Gate!Ask(c, t) \/ Gate!AskExposed(c, t)
  BY DEF Gate!Ask, Gate!AskExposed, Gate!Open, GateState, GateRuns
<1> QED
  BY <1>1 DEF Gate!Next

\* The other steps record a race or a failure of one task at most.
LEMMA GateRecords ==
  ASSUME TypeOK, UNCHANGED <<approvals, ran>>,
         faults' = faults \/ \E t \in Task : \E kinds : Fault(t, kinds)
  PROVE  [Gate!Next]_(Gate!vars)
<1>1. CASE faults' = faults
  BY <1>1, GateStutters DEF GateState, GateRuns, Exposed
<1>2. ASSUME NEW t \in Task, NEW kinds, Fault(t, kinds)
      PROVE  [Gate!Next]_(Gate!vars)
  <2>1. \A u \in Task : u # t => faults'[u] = faults[u]
    BY <1>2, FaultEffect
  <2>2. faults[t] \subseteq faults'[t]
    BY <1>2, FaultEffect
  <2>3. \A s \in Stamp : approvals[s].task \in Task \cup {None}
    BY DEF TypeOK, Approval
  <2>4. CASE faults'[t] \cap {"overlap", "torn", "double"} = {}
    BY <2>1, <2>2, <2>3, <2>4, GateStutters DEF GateState, GateRuns, Exposed
  <2>5. CASE faults'[t] \cap {"overlap", "torn", "double"} # {}
    <3>1. \A s \in Stamp :
            /\ GateState(s)' = (IF approvals[s].task = t THEN "exposed" ELSE GateState(s))
            /\ GateRuns(s)' = (IF approvals[s].task = t THEN 0 ELSE GateRuns(s))
      BY <2>1, <2>3, <2>5, NoneAssumption DEF GateState, GateRuns, Exposed
    <3> QED
      BY <3>1, GateExposes
  <2> QED
    BY <2>4, <2>5
<1> QED
  BY <1>1, <1>2

\* Every step is a step of the gate or does not touch it.
LEMMA NextGate == GateInv /\ GateInv' /\ [Next]_vars => [Gate!Next]_(Gate!vars)
<1> SUFFICES ASSUME GateInv, GateInv', [Next]_vars PROVE [Gate!Next]_(Gate!vars)
  OBVIOUS
<1> USE NoneAssumption DEF historyVars
<1>0. TypeOK /\ Linked /\ Stamps /\ Owners
  BY DEF GateInv, Typed
<1>1. ASSUME NEW w \in Worker, Ask(w) PROVE Gate!Next
  <2>0. PICK c, t : c = mem[w].stamp /\ t = cur[w]
    OBVIOUS
  <2>1. AskMove(w) /\ faults' = faults
    BY <1>0, <1>1, AskMoves DEF Ask
  <2>2. /\ c \in Stamp /\ t \in Task /\ approvals[c].task = None /\ ran[c] = 0 /\ ran' = ran
        /\ approvals'[c].task = t /\ approvals'[c].status = "pending"
        /\ \A s \in Stamp : s # c => approvals'[s] = approvals[s]
    BY <2>0, <2>1 DEF AskMove
  <2>3. GateState(c) = "unasked" /\ \A s \in Stamp : GateRuns(s)' = GateRuns(s)
    BY <2>1, <2>2 DEF GateState, GateRuns, Exposed
  <2>4. \A s \in Stamp : s # c => GateState(s)' = GateState(s)
    BY <2>1, <2>2 DEF GateState, Exposed
  <2>5. CASE faults[t] \cap {"overlap", "torn", "double"} # {}
    <3>1. GateState(c)' = "exposed"
      BY <2>1, <2>2, <2>5 DEF GateState, Exposed
    <3> QED
      BY <2>2, <2>3, <2>4, <3>1, GateAsks
  <2>6. CASE faults[t] \cap {"overlap", "torn", "double"} = {}
    <3>1. GateState(c)' = "pending"
      BY <2>1, <2>2, <2>6 DEF GateState, Exposed
    <3>2. Busy(w, t) /\ pc[w] # "pause"
      BY <2>0, <2>1 DEF AskMove, Busy, Tail
    <3>3. Quiet(t)
      BY <2>2, <2>6, <3>2 DEF GateInv, OneQuestion, OneQuestionAt, Unspoilt, Undisturbed
    <3>4. \A s \in Stamp : approvals[s].task = t => GateState(s) # "pending"
      BY <2>2, <3>3 DEF Quiet, Asks, GateState
    <3> QED
      BY <2>2, <2>3, <2>4, <3>1, <3>4, GateAsks
  <2> QED
    BY <2>5, <2>6
<1>2. ASSUME NEW w \in Worker, ExecuteTool(w) PROVE [Gate!Next]_(Gate!vars)
  <2>0. PICK c, t : c = mem[w].call /\ t = cur[w]
    OBVIOUS
  <2>1. ExecuteMove(w) /\ faults' = faults
    BY <1>0, <1>2, ExecuteMoves DEF ExecuteTool
  <2>2. /\ c \in Stamp /\ t \in Task /\ approvals' = approvals /\ approvals[c].task = t
        /\ ran'[c] = ran[c] + 1 /\ \A s \in Stamp : s # c => ran'[s] = ran[s]
    BY <2>0, <2>1 DEF ExecuteMove
  <2>3. \A s \in Stamp : GateState(s)' = GateState(s)
    BY <2>1, <2>2 DEF GateState, Exposed
  <2>4. \A s \in Stamp : s # c => GateRuns(s)' = GateRuns(s)
    BY <2>1, <2>2 DEF GateRuns, Exposed
  <2>5. CASE faults[t] \cap {"overlap", "torn", "double"} # {}
    <3>1. GateRuns(c)' = GateRuns(c)
      BY <2>1, <2>2, <2>5 DEF GateRuns, Exposed
    <3> QED
      BY <2>2, <2>3, <2>4, <3>1, GateStutters
  <2>6. CASE faults[t] \cap {"overlap", "torn", "double"} = {}
    <3>1. ran[c] \in Nat /\ ran'[c] > 0
      BY <1>0, <2>2 DEF TypeOK
    <3>2. ran'[c] = 1 /\ approvals'[c].status = "approved"
      BY <2>1, <2>2, <2>6, <3>1 DEF GateInv, Executed, ExecutedAt, Unspoilt
    <3>3. /\ GateState(c) = "approved" /\ GateRuns(c) = 0 /\ GateRuns(c)' = 1
      BY <2>1, <2>2, <2>6, <3>1, <3>2 DEF GateState, GateRuns, Exposed
    <3>4. Busy(w, t) /\ pc[w] # "pause"
      BY <2>0, <2>1 DEF ExecuteMove, Busy, Tail
    <3>5. Quiet(t)
      BY <2>2, <2>6, <3>4 DEF GateInv, OneQuestion, OneQuestionAt, Unspoilt, Undisturbed
    <3>6. \A s \in Stamp : approvals[s].task = t => GateState(s) # "pending"
      BY <2>2, <3>5 DEF Quiet, Asks, GateState
    <3> QED
      BY <2>2, <2>3, <2>4, <3>3, <3>6, GateExecutes
  <2> QED
    BY <2>5, <2>6
<1>3. ASSUME NEW r \in Request, DecideCommit(r) PROVE [Gate!Next]_(Gate!vars)
  <2>0. PICK c, t : c = req[r].approval /\ t = req[r].task
    OBVIOUS
  <2>1. /\ c \in Stamp /\ t \in Task /\ approvals[c].task = t
        /\ approvals' = [approvals EXCEPT ![c].status = req[r].decision]
        /\ Fault(t, Kind("double", approvals[c].status # "pending")
                    \cup Kind("early", \E w \in Worker : Busy(w, t))) /\ ran' = ran
    BY <1>0, <1>3, <2>0 DEF DecideCommit, Owners, Linked
  <2>2. /\ approvals'[c].task = t /\ approvals'[c].status = req[r].decision
        /\ \A s \in Stamp : s # c => approvals'[s] = approvals[s]
        /\ req[r].decision \in {"approved", "denied"}
    BY <1>0, <2>1 DEF TypeOK, Approval, Req
  <2>3. \A s \in Stamp : approvals[s].task \in Task \cup {None}
    BY <1>0 DEF TypeOK, Approval
  <2>4. \A u \in Task : u # t => faults'[u] = faults[u]
    BY <1>0, <2>1, FaultEffect
  <2>5. \A s \in Stamp : approvals[s].task # t =>
          GateState(s)' = GateState(s) /\ GateRuns(s)' = GateRuns(s)
    BY <2>1, <2>2, <2>3, <2>4 DEF GateState, GateRuns, Exposed
  <2>6. CASE faults'[t] \cap {"overlap", "torn", "double"} # {}
    <3>1. \A s \in Stamp : approvals'[s].task = approvals[s].task
      BY <2>1, <2>2
    <3>2. \A s \in Stamp : approvals[s].task = t => GateState(s)' = "exposed" /\ GateRuns(s)' = 0
      BY <2>1, <2>6, <3>1 DEF GateState, GateRuns, Exposed
    <3> QED
      BY <2>1, <2>5, <3>1, <3>2, GateExposes
  <2>7. CASE faults'[t] \cap {"overlap", "torn", "double"} = {}
    <3>1. approvals[c].status = "pending"
      BY <1>0, <2>1, <2>7, FaultEffect DEF Kind
    <3>2. faults[t] \cap {"overlap", "torn", "double"} = {}
      BY <1>0, <2>1, <2>7, FaultEffect
    <3>3. GateState(c) = "pending" /\ GateState(c)' = req[r].decision
      BY <2>1, <2>2, <2>7, <3>1, <3>2 DEF GateState, Exposed
    <3>4. \A s \in Stamp : /\ s # c => GateState(s)' = GateState(s)
                           /\ GateRuns(s)' = GateRuns(s)
      <4>1. \A s \in Stamp : approvals[s].task = t =>
              /\ s # c => GateState(s)' = GateState(s)
              /\ GateRuns(s)' = GateRuns(s)
        BY <2>1, <2>2, <2>7, <3>2 DEF GateState, GateRuns, Exposed
      <4> QED
        BY <2>5, <4>1
    <3> QED
      BY <2>1, <2>2, <3>3, <3>4, GateDecides
  <2> QED
    BY <2>6, <2>7
<1>4. ASSUME NEW w \in Worker, Local(w) \/ Commit(w) \/ \E t \in Task : Claim(w, t)
      PROVE  [Gate!Next]_(Gate!vars)
  <2>1. UNCHANGED <<approvals, ran>>
    BY <1>0, <1>4, LocalMoves, CommitMoves, ClaimMoves DEF LocalMove, CommitMove, ClaimMove
  <2>2. faults' = faults \/ \E t \in Task : \E kinds : Fault(t, kinds)
    <3>1. CASE Crash(w)
      <4>1. cur[w] \in Task
        BY <1>0, <3>1 DEF Crash, Linked
      <4> QED
        BY <3>1, <4>1 DEF Crash
    <3> QED
      BY <1>4, <3>1 DEF Local, Commit, Claim, ReadText, Load, Cancel, CheckUnanswered, CheckAnswered,
         Start, Resume, RefreshFresh, RefreshResumed, AppendStarted, Answer, RunRaises, Pause, Fail,
         AppendEvent, Deliver, Succeed
  <2> QED
    BY <1>0, <2>1, <2>2, GateRecords
<1>5. ASSUME NEW t \in Task, LeaseLapse(t) PROVE [Gate!Next]_(Gate!vars)
  BY <1>0, <1>5, GateRecords DEF LeaseLapse
<1>6. ASSUME NEW r \in Request,
             UserCalls(r) \/ CancelCommit(r) \/ RequeueRead(r) \/ RequeueCommit(r) \/ RequestDies(r)
      PROVE  [Gate!Next]_(Gate!vars)
  <2>1. UNCHANGED <<approvals, ran>>
    BY <1>6 DEF UserCalls, CancelRead, DecideRead, CancelCommit, RequeueRead, RequeueCommit, RequestDies
  <2>2. faults' = faults \/ \E t \in Task : \E kinds : Fault(t, kinds)
    <3>1. CASE RequeueCommit(r) \/ RequestDies(r)
      <4>1. req[r].task \in Task
        BY <1>0, <3>1 DEF RequeueCommit, RequestDies, Linked
      <4> QED
        BY <3>1, <4>1 DEF RequeueCommit, RequestDies
    <3> QED
      BY <1>6, <3>1 DEF UserCalls, CancelRead, DecideRead, CancelCommit, RequeueRead
  <2> QED
    BY <1>0, <2>1, <2>2, GateRecords
<1>7. CASE UNCHANGED vars
  BY <1>0, <1>7, GateRecords DEF vars
<1> QED
  BY <1>1, <1>2, <1>3, <1>4, <1>5, <1>6, <1>7 DEF Next, WorkerStep, RequestStep, Local, Commit

\* The lifecycle implements ApprovalGate: whatever workers, users, lapses and crashes do,
\* a task has one open question, an answer stands, and a call runs at most once, approved.
THEOREM LifecycleKeepsGate == Spec => GateKept
<1>1. Init => Gate!Init
  BY DEF Init, NoApproval, Gate!Init, Exposed
<1>2. Spec => [][Gate!Next]_(Gate!vars)
  BY GateInvariant, NextGate, PTL DEF Spec
<1> QED
  BY <1>1, <1>2, PTL DEF Spec, GateKept, Gate!Spec

----------------------------------------------------------------------------
(* One worker at a time.  A worker's task is claimable in its hands only   *)
(* after one of three causes: before RUNNING is committed the lease alone  *)
(* guards the task; afterwards its status does, and an answer finds the    *)
(* worker gone.                                                            *)

Causes == {"late", "early", "double"}

\* A run is dated after RUNNING is committed.
Undated == \A w \in Worker : pc[w] \in Preparing \cup {"idle"} => mem[w].stamp = None

Recorded(w, t) == Busy(w, t) /\ ~Unrecorded(w, t)

\* Nobody has a task whose answer is on its way, or one that is queued after RUNNING.
GuardedAt(t) ==
  /\ "overlap" \notin faults[t]
  /\ \A r \in Request, w \in Worker : Deciding(r, t) => ~Busy(w, t)
  /\ \A w \in Worker : Recorded(w, t) => row[t].status # "queued"

Guarded == \A t \in Task : Unspoilt(t, Causes) => GuardedAt(t)

\* Every step keeps workers undated until RUNNING is committed.
LEMMA NextUndated == Typed /\ Undated /\ [Next]_vars => Undated'
<1> SUFFICES ASSUME TypeOK, Linked, Undated, [Next]_vars PROVE Undated'
  BY DEF Typed
<1>1. ASSUME NEW w \in Worker, \A v \in Worker : v # w => pc'[v] = pc[v] /\ mem'[v] = mem[v],
             pc'[w] \in Preparing \cup {"idle"} => mem'[w].stamp = None
      PROVE  Undated'
  BY <1>1 DEF Undated
<1>2. ASSUME NEW w \in Worker, NEW to, NEW m, Step(w, to, m),
             to \in Preparing => m.stamp = None
      PROVE  Undated'
  BY <1>1, <1>2, StepEffect DEF NoMem, Preparing, Unread
<1>3. ASSUME NEW w \in Worker, NEW t \in Task, Claim(w, t) PROVE Undated'
  BY <1>1, <1>3 DEF Claim, TypeOK, Undated
<1>4. ASSUME NEW w \in Worker, ReadText(w) PROVE Undated'
  <2> DEFINE m == [mem[w] EXCEPT !.text = row[cur[w]].checkpoint = None /\ cur[w] \notin Blank]
  <2>1. Step(w, "load", m) /\ pc[w] \in Preparing
    BY <1>4 DEF ReadText, Preparing, Unread
  <2>2. m.stamp = mem[w].stamp
    BY DEF TypeOK, Mem
  <2> HIDE DEF m
  <2> QED
    BY <1>2, <2>1, <2>2 DEF Undated
<1>5. ASSUME NEW w \in Worker, Load(w) PROVE Undated'
  <2> DEFINE m == [mem[w] EXCEPT !.cache = row[cur[w]], !.call = row[cur[w]].checkpoint]
  <2>1. Step(w, LoadTo(w), m) /\ pc[w] \in Preparing
    BY <1>5 DEF Load, Preparing, Unread
  <2>2. m.stamp = mem[w].stamp
    BY DEF TypeOK, Mem
  <2> HIDE DEF m
  <2> QED
    BY <1>2, <2>1, <2>2 DEF Undated
<1>6. ASSUME NEW w \in Worker, NEW s \in Stamp, CheckAnswered(w, s) PROVE Undated'
  <2> DEFINE m == [mem[w] EXCEPT !.grant = s]
  <2>1. Step(w, approvals[s].status, m) /\ pc[w] \in Preparing
    BY <1>6 DEF CheckAnswered, Preparing
  <2>2. m.stamp = mem[w].stamp
    BY DEF TypeOK, Mem
  <2> HIDE DEF m
  <2> QED
    BY <1>2, <2>1, <2>2 DEF Undated
<1>7. ASSUME NEW w \in Worker, NEW m, Step(w, "started", m) \/ Step(w, "tool", m)
                                      \/ Step(w, "run", m) \/ Step(w, "idle", m)
      PROVE  Undated'
  BY <1>2, <1>7 DEF Preparing, Unread
<1>8. ASSUME NEW w \in Worker, RefreshFresh(w) \/ RefreshResumed(w) \/ AppendStarted(w) PROVE Undated'
  BY <1>7, <1>8 DEF RefreshFresh, RefreshResumed, AppendStarted
<1>9. ASSUME NEW w \in Worker, AppendEvent(w) PROVE Undated'
  <2>1. Goto(w, After[pc[w]]) /\ (After[pc[w]] \in Preparing => pc[w] \in Preparing)
    BY <1>9 DEF AppendEvent, After, Preparing, Unread
  <2> QED
    BY <1>2, <2>1 DEF Goto, Undated
<1>10. ASSUME NEW w \in Worker,
              \/ Cancel(w) \/ CheckUnanswered(w) \/ Start(w) \/ Resume(w) \/ ExecuteTool(w)
              \/ Answer(w) \/ RunRaises(w) \/ Ask(w) \/ Pause(w) \/ Fail(w) \/ Deliver(w)
              \/ Succeed(w) \/ Crash(w)
       PROVE  Undated'
  <2>1. PICK to : Goto(w, to) /\ to \notin Preparing
    BY <1>10 DEF Cancel, CheckUnanswered, Start, Resume, ExecuteTool, Answer, RunRaises, Ask, Pause,
                 Fail, Deliver, Succeed, Crash, Preparing, Unread
  <2> QED
    BY <1>2, <2>1 DEF Goto
<1>11. CASE (\E t \in Task : LeaseLapse(t)) \/ \E r \in Request : UserCalls(r) \/ RequestStep(r) \/ RequestDies(r)
  BY <1>11, OutsideEffect DEF workerVars, Undated
<1>12. CASE UNCHANGED vars
  BY <1>12 DEF vars, workerVars, Undated
<1> QED
  BY <1>3, <1>4, <1>5, <1>6, <1>8, <1>9, <1>10, <1>11, <1>12 DEF Next, WorkerStep

\* An overlap is put on record by a lapse or by the return to the queue alone.
LEMMA OverlapRecorded ==
  ASSUME TypeOK, NEW t \in Task, "overlap" \notin faults[t]
  PROVE  /\ \A w \in Worker : WorkerStep(w) \/ Crash(w) => "overlap" \notin faults'[t]
         /\ \A r \in Request : UserCalls(r) \/ CancelCommit(r) \/ DecideCommit(r)
                               \/ RequeueRead(r) \/ RequestDies(r) => "overlap" \notin faults'[t]
         /\ \A u \in Task : LeaseLapse(u) /\ "overlap" \in faults'[t] =>
              u = t /\ Claimable(row'[t]) /\ \E w \in Worker : Busy(w, t)
         /\ \A r \in Request : RequeueCommit(r) /\ "overlap" \in faults'[t] =>
              req[r].task = t /\ \E w \in Worker : Busy(w, t)
<1>1. ASSUME NEW u, NEW kinds, Fault(u, kinds), "overlap" \in faults'[t]
      PROVE  u = t /\ "overlap" \in kinds
  BY <1>1, FaultEffect
<1>2. ASSUME NEW u \in Task, LeaseLapse(u), "overlap" \in faults'[t]
      PROVE  u = t /\ Claimable(row'[t]) /\ \E w \in Worker : Busy(w, t)
  <2>1. Fault(u, Kind("late", Claimable(row'[u]) /\ \E w \in Worker : Unrecorded(w, u))
                 \cup Kind("overlap", Claimable(row'[u]) /\ \E w \in Worker : Busy(w, u)))
    BY <1>2 DEF LeaseLapse
  <2> QED
    BY <1>1, <1>2, <2>1 DEF Kind
<1>3. ASSUME NEW r \in Request, RequeueCommit(r), "overlap" \in faults'[t]
      PROVE  req[r].task = t /\ \E w \in Worker : Busy(w, t)
  <2>1. Fault(req[r].task, Kind("overlap", Claimable(row'[req[r].task])
                                           /\ \E w \in Worker : Busy(w, req[r].task)))
    BY <1>3 DEF RequeueCommit
  <2> QED
    BY <1>1, <1>3, <2>1 DEF Kind
<1>4. ASSUME NEW r \in Request, DecideCommit(r) \/ RequestDies(r) PROVE "overlap" \notin faults'[t]
  <2>1. \E kinds : Fault(req[r].task, kinds) /\ "overlap" \notin kinds
    BY <1>4 DEF DecideCommit, RequestDies, Kind
  <2> QED
    BY <1>1, <2>1
<1>5. ASSUME NEW w \in Worker, Crash(w) PROVE "overlap" \notin faults'[t]
  BY <1>1, <1>5 DEF Crash, Kind
<1>6. ASSUME NEW w \in Worker, WorkerStep(w) PROVE faults' = faults
  BY <1>6, ZenonT(60) DEF WorkerStep, Claim, ReadText, Load, Cancel, CheckUnanswered,
     CheckAnswered, Start, Resume, RefreshFresh, RefreshResumed, AppendStarted, ExecuteTool, Answer,
     RunRaises, Ask, Pause, Fail, AppendEvent, Deliver, Succeed, historyVars
<1>7. ASSUME NEW r \in Request, UserCalls(r) \/ CancelCommit(r) \/ RequeueRead(r)
      PROVE  faults' = faults
  BY <1>7 DEF UserCalls, CancelRead, DecideRead, CancelCommit, RequeueRead, historyVars
<1> QED
  BY <1>2, <1>3, <1>4, <1>5, <1>6, <1>7

\* A step of a worker that leaves the rows keeps its task guarded, if a worker that is
\* past RUNNING after it was past it before.
LEMMA GuardedMove ==
  ASSUME NEW w \in Worker, NEW t \in Task, GuardedAt(t), "overlap" \notin faults'[t],
         UNCHANGED <<row, requestVars>>, Others(w),
         Busy(w, t)' => Busy(w, t), Recorded(w, t)' => Recorded(w, t)
  PROVE  GuardedAt(t)'
<1>1. \A v \in Worker : /\ Busy(v, t)' => Busy(v, t)
                        /\ Recorded(v, t)' => Recorded(v, t)
  BY DEF Recorded, Unrecorded, Busy, Others
<1> QED
  BY <1>1 DEF GuardedAt, Deciding, requestVars

\* Every step keeps the tasks guarded that no cause has spoilt.
LEMMA NextGuarded == GateInv /\ Undated /\ Guarded /\ [Next]_vars => Guarded'
<1> SUFFICES ASSUME GateInv, Undated, Guarded, [Next]_vars, NEW t \in Task, Unspoilt(t, Causes)'
             PROVE  GuardedAt(t)'
  BY DEF Guarded
<1> USE NoneAssumption
<1>0. TypeOK /\ Linked /\ Typed /\ Stamps /\ Owners /\ Branch /\ ExclusiveInv /\ OneQuestion
  BY DEF GateInv, Typed
<1>1. Unspoilt(t, Causes) /\ GuardedAt(t) /\ "overlap" \notin faults[t]
  BY <1>0, FaultsGrow DEF Unspoilt, Guarded, GuardedAt
<1>2. Single(t) /\ \A w \in Worker : Busy(w, t) => Undisturbed(w, t)
  BY <1>0, <1>1 DEF OneQuestion, OneQuestionAt, Unspoilt, Causes
<1>3. ASSUME NEW w \in Worker, Local(w) PROVE GuardedAt(t)'
  <2>1. LocalMove(w) /\ "overlap" \notin faults'[t]
    BY <1>0, <1>1, <1>3, LocalMoves, OverlapRecorded DEF Local, WorkerStep
  <2>2. CASE Leaves(w)
    BY <1>1, <2>1, <2>2, GuardedMove DEF LocalMove, Leaves, Busy, Recorded
  <2>3. CASE (pc[w] = "claimed" /\ pc'[w] = "load") \/ Loads(w) \/ Checks(w)
    <3>1. pc[w] \notin Tail /\ pc'[w] \in Preparing /\ (Leaves(w) \/ cur'[w] = cur[w])
      BY <2>1, <2>3 DEF LocalMove, Loads, Checks, Tail, Preparing, Unread
    <3> QED
      BY <1>1, <2>1, <3>1, <2>2, GuardedMove DEF LocalMove, Busy, Recorded, Unrecorded
  <2>4. CASE Refreshes(w) \/ Runs(w)
    <3>1. pc[w] \notin Tail \cup Preparing \cup {"fail"} /\ (Leaves(w) \/ cur'[w] = cur[w])
      BY <2>1, <2>4 DEF LocalMove, Refreshes, Runs, Tail, Preparing, Unread
    <3> QED
      BY <1>1, <2>1, <3>1, <2>2, GuardedMove DEF LocalMove, Busy, Recorded, Unrecorded
  <2>5. CASE Proceeds(w)
    <3>1. /\ Leaves(w) \/ (cur'[w] = cur[w] /\ mem'[w] = mem[w])
          /\ pc[w] \notin Tail
          /\ \/ pc[w] \notin Preparing \cup {"fail"}
             \/ pc'[w] \in Preparing
             \/ pc[w] \in Preparing /\ pc'[w] = "fail"
      BY <2>1, <2>5 DEF LocalMove, Proceeds, Tail, Preparing, Unread
    <3>2. Recorded(w, t)' /\ ~Leaves(w) => Recorded(w, t)
      BY <3>1 DEF Recorded, Busy, Unrecorded, Undated
    <3> QED
      BY <1>1, <2>1, <2>2, <3>1, <3>2, GuardedMove DEF LocalMove, Busy
  <2> QED
    BY <2>1, <2>2, <2>3, <2>4, <2>5 DEF LocalMove
<1>4. ASSUME NEW w \in Worker, Commit(w) PROVE GuardedAt(t)'
  <2>1. /\ CommitMove(w) /\ "overlap" \notin faults'[t] /\ cur'[w] \in {cur[w], None}
        /\ pc[w] \notin Tail
    BY <1>0, <1>1, <1>4, CommitMoves, OverlapRecorded
       DEF Commit, WorkerStep, CommitMove, Leaves, Tail
  <2>2. \A v \in Worker : Busy(v, t)' => Busy(v, t)
    BY <2>1 DEF CommitMove, Others, Busy
  <2>3. CASE cur[w] # t
    <3>1. row'[t] = row[t] /\ \A v \in Worker : Recorded(v, t)' => Recorded(v, t)
      BY <2>1, <2>3 DEF CommitMove, Others, Busy, Recorded, Unrecorded
    <3> QED
      BY <1>1, <2>1, <2>2, <3>1 DEF GuardedAt, CommitMove, Deciding, requestVars
  <2>4. CASE cur[w] = t
    <3>1. \A v \in Worker : v # w => ~Busy(v, t)'
      BY <1>0, <1>1, <2>1, <2>4, Alone DEF CommitMove
    <3>2. Busy(w, t)' => row'[t].status # "queued"
      <4>1. Busy(w, t)' => pc[w] \in {"start", "resume"}
        BY <2>1, <2>4 DEF CommitMove, Leaves, Busy, Tail
      <4>2. pc[w] \in {"start", "resume"} => mem[w].cache.status = "queued"
        BY <1>2, <2>1, <2>4 DEF Busy, Undisturbed
      <4>3. pc[w] \in {"start", "resume"} =>
              row'[t].status = Keep(row[t].status, mem[w].cache.status, "running")
        BY <2>1, <2>4 DEF CommitMove, Written
      <4> QED
        BY <4>1, <4>2, <4>3 DEF Keep
    <3> QED
      BY <1>1, <2>1, <2>2, <3>1, <3>2 DEF GuardedAt, CommitMove, Deciding, requestVars, Recorded
  <2> QED
    BY <2>3, <2>4
<1>5. ASSUME NEW w \in Worker, NEW u \in Task, Claim(w, u) PROVE GuardedAt(t)'
  <2>1. ClaimMove(w, u) /\ "overlap" \notin faults'[t]
    BY <1>0, <1>1, <1>5, ClaimMoves, OverlapRecorded DEF WorkerStep
  <2>2. /\ row'[t].status = row[t].status
        /\ \A v \in Worker : Recorded(v, t)' => Recorded(v, t)
    BY <2>1 DEF ClaimMove, Others, Recorded, Busy, Unrecorded, Preparing, Unread
  <2>3. u = t => \A r \in Request : ~Deciding(r, t)
    BY <1>2, <2>1 DEF ClaimMove, Claimable, Single, Quiet
  <2>4. u # t => \A v \in Worker : Busy(v, t)' => Busy(v, t)
    BY <2>1 DEF ClaimMove, Others, Busy
  <2> QED
    BY <1>1, <2>1, <2>2, <2>3, <2>4 DEF GuardedAt, ClaimMove, Deciding, requestVars
<1>6. ASSUME NEW w \in Worker, ExecuteTool(w) \/ Ask(w) PROVE GuardedAt(t)'
  <2>1. /\ ExecuteMove(w) \/ AskMove(w)
        /\ "overlap" \notin faults'[t]
    BY <1>0, <1>1, <1>6, ExecuteMoves, AskMoves, OverlapRecorded DEF WorkerStep
  <2>2. /\ UNCHANGED <<row, requestVars>> /\ Others(w) /\ cur'[w] = cur[w]
        /\ pc[w] \notin Tail \cup Preparing \cup {"fail"}
    BY <2>1 DEF ExecuteMove, AskMove, Tail, Preparing, Unread
  <2> QED
    BY <1>1, <2>1, <2>2, GuardedMove DEF Busy, Recorded, Unrecorded
<1>7. ASSUME NEW u \in Task, LeaseLapse(u) PROVE GuardedAt(t)'
  <2>1. UNCHANGED <<workerVars, requestVars>> /\ row'[t].status = row[t].status
    BY <1>7 DEF LeaseLapse, TypeOK, Row, GateInv, Typed
  <2>2. u = t /\ Claimable(row'[t]) => \A w \in Worker : ~Unrecorded(w, t)
    <3>1. Fault(u, Kind("late", Claimable(row'[u]) /\ \E w \in Worker : Unrecorded(w, u))
                   \cup Kind("overlap", Claimable(row'[u]) /\ \E w \in Worker : Busy(w, u)))
      BY <1>7 DEF LeaseLapse
    <3>2. u = t => "late" \notin Kind("late", Claimable(row'[u]) /\ \E w \in Worker : Unrecorded(w, u))
      BY <1>0, <3>1, FaultEffect DEF Unspoilt, Causes
    <3> QED
      BY <3>2 DEF Kind
  <2>3. "overlap" \notin faults'[t]
    BY <1>0, <1>1, <1>7, <2>1, <2>2, OverlapRecorded DEF GuardedAt, Recorded, Claimable
  <2> QED
    BY <1>1, <2>1, <2>3
       DEF GuardedAt, Deciding, Recorded, Busy, Unrecorded, workerVars, requestVars
<1>8. ASSUME NEW r \in Request, UserCalls(r) PROVE GuardedAt(t)'
  <2>1. "overlap" \notin faults'[t] /\ UNCHANGED <<row, workerVars>>
    BY <1>0, <1>1, <1>8, OverlapRecorded DEF UserCalls, CancelRead, DecideRead
  <2>2. \A q \in Request : Deciding(q, t)' => Deciding(q, t)
    BY <1>0, <1>8 DEF UserCalls, CancelRead, DecideRead, Deciding, TypeOK
  <2> QED
    BY <1>1, <2>1, <2>2 DEF GuardedAt, Recorded, Busy, Unrecorded, workerVars
<1>9. ASSUME NEW r \in Request, RequestStep(r) \/ RequestDies(r) PROVE GuardedAt(t)'
  <2>1. CallMove(r) /\ UNCHANGED workerVars
    BY <1>0, <1>9, CallMoves DEF CallMove
  <2>2. \A w \in Worker : (Busy(w, t)' <=> Busy(w, t)) /\ (Recorded(w, t)' <=> Recorded(w, t))
    BY <2>1 DEF workerVars, Busy, Recorded, Unrecorded
  <2>3. Deciding(r, t) => \A w \in Worker : ~Busy(w, t)
    BY <1>1 DEF GuardedAt
  <2>4. DecideCommit(r) /\ req[r].task = t => \A w \in Worker : ~Busy(w, t)
    <3>1. ASSUME DecideCommit(r), req[r].task = t
          PROVE  "early" \notin Kind("early", \E w \in Worker : Busy(w, t))
      <4>1. Fault(t, Kind("double", approvals[req[r].approval].status # "pending")
                     \cup Kind("early", \E w \in Worker : Busy(w, t)))
        BY <3>1 DEF DecideCommit
      <4>2. \A kinds : Fault(t, kinds) => "early" \notin kinds
        BY <1>0, FaultEffect DEF Unspoilt, Causes
      <4> QED
        BY <4>1, <4>2
    <3> QED
      BY <3>1 DEF Kind
  <2>5. "overlap" \notin faults'[t]
    <3>1. RequeueCommit(r) /\ req[r].task = t => Deciding(r, t)
      BY DEF RequeueCommit, Deciding
    <3> QED
      BY <1>0, <1>1, <1>9, <2>3, <3>1, OverlapRecorded DEF RequestStep
  <2>6. \A q \in Request : Deciding(q, t)' =>
          Deciding(q, t) \/ (q = r /\ DecideCommit(r) /\ req[r].task = t)
    <3>1. \A q \in Request : q # r => rpc'[q] = rpc[q] /\ req'[q] = req[q]
      BY <2>1 DEF CallMove, OtherCalls
    <3>2. Deciding(r, t)' => Deciding(r, t) \/ (DecideCommit(r) /\ req[r].task = t)
      BY <1>0, <1>9 DEF RequestStep, RequestDies, CancelCommit, DecideCommit, RequeueRead,
         RequeueCommit, Respond, NoReq, Deciding, TypeOK, Req
    <3> QED
      BY <3>1, <3>2 DEF Deciding
  <2>7. row'[t].status = "queued" => row[t].status = "queued" \/ \A w \in Worker : ~Busy(w, t)
    <3>1. CASE CancelCommit(r)
      BY <1>0, <3>1, RequestEffect
    <3>2. CASE RequeueCommit(r)
      BY <1>0, <2>3, <3>2, RequestEffect DEF RequeueCommit, Deciding
    <3> QED
      BY <1>9, <3>1, <3>2 DEF RequestStep, DecideCommit, RequeueRead, RequestDies
  <2> QED
    BY <1>1, <2>2, <2>4, <2>5, <2>6, <2>7 DEF GuardedAt, Recorded
<1>10. CASE UNCHANGED vars
  BY <1>1, <1>10 DEF vars, workerVars, requestVars, historyVars, GuardedAt, Recorded, Busy,
     Unrecorded, Deciding
<1> QED
  BY <1>3, <1>4, <1>5, <1>6, <1>7, <1>8, <1>9, <1>10 DEF Next, WorkerStep, Local, Commit

\* At most one worker has a task in its hands, whatever leases lapse during a run, users
\* cancel and decide, and processes die: RUNNING is committed before the run, and a
\* decision queues a task only after its worker has gone.  Excepted are a lease that
\* lapses before RUNNING is committed, a decision made before WAITING_APPROVAL is, and
\* two decisions of one approval.
THEOREM OneWorkerAtATime == Spec => []Exclusive
<1>1. Init => Undated /\ Guarded
  <2> SUFFICES ASSUME Init PROVE Undated /\ Guarded
    OBVIOUS
  <2>1. \A w \in Worker, t \in Task : ~Busy(w, t)
    BY NoneAssumption DEF Init, Busy
  <2> QED
    BY <2>1 DEF Init, Undated, Guarded, GuardedAt, Recorded, NoMem
<1>2. GateInv /\ Undated /\ Guarded /\ [Next]_vars => (Undated /\ Guarded)'
  BY NextUndated, NextGuarded DEF GateInv
<1>3. GateInv /\ Guarded => Exclusive
  BY DEF GateInv, ExclusiveInv, Separate, Guarded, GuardedAt, Unspoilt, Causes, Exclusive
<1> QED
  BY <1>1, <1>2, <1>3, GateInvariant, PTL DEF Spec
=============================================================================
