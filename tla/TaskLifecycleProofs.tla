----------------------- MODULE TaskLifecycleProofs -----------------------
(***************************************************************************)
(* Proofs about TaskLifecycle, for every number of workers, tasks, API     *)
(* calls, runs and crashes.                                                *)
(***************************************************************************)
EXTENDS TaskLifecycle, TLAPS

----------------------------------------------------------------------------
(* Lemmas about the operators that the actions are built from.             *)

\* A flush of a column-wise change leaves a row.
LEMMA FlushType ==
  ASSUME NEW stored \in Row, NEW cached \in Row, NEW new \in Row
  PROVE  Flush(stored, cached, new) \in Row
  BY DEF Flush, Keep, Row

\* What update_execution makes of a cached row is a row.
LEMMA UpdatedType ==
  ASSUME NEW cached \in Row, NEW status \in Status, NEW checkpoint \in Stamp \cup {None}
  PROVE  Updated(cached, status, checkpoint) \in Row
  BY DEF Updated, Row, Lease

\* What a new task, an idle worker and an idle API call start from.
LEMMA NewTypes == NewRow \in Row /\ NoMem \in Mem /\ NoReq \in Req /\ NoApproval \in Approval
  BY DEF NewRow, Row, Status, Terminal, Lease, NoMem, Mem, NoReq, Req, NoApproval, Approval

\* A step of a worker keeps the types of its locals.
LEMMA StepType ==
  ASSUME TypeOK, NEW w \in Worker, NEW to \in WorkerPc, NEW m \in Mem, Step(w, to, m)
  PROVE  /\ pc' \in [Worker -> WorkerPc]
         /\ cur' \in [Worker -> Task \cup {None}]
         /\ mem' \in [Worker -> Mem]
  BY NewTypes DEF Step, TypeOK

\* A worker's commit keeps the type of the table.
LEMMA UpdateType ==
  ASSUME TypeOK, NEW w \in Worker, NEW status \in Status, NEW checkpoint \in Stamp \cup {None},
         Update(w, status, checkpoint)
  PROVE  row' \in [Task -> Row]
<1> DEFINE new == Updated(mem[w].cache, status, checkpoint)
<1>1. mem[w].cache \in Row
  BY DEF TypeOK, Mem
<1>2. new \in Row
  BY <1>1, UpdatedType
<1>3. \A t \in Task : Flush(row[t], mem[w].cache, new) \in Row
  BY <1>1, <1>2, FlushType DEF TypeOK
<1> QED
  BY <1>3 DEF Update, TypeOK

\* The history of faults keeps its type.
LEMMA FaultType ==
  ASSUME TypeOK, NEW t, NEW kinds \in SUBSET FaultKind, Fault(t, kinds)
  PROVE  faults' \in [Task -> SUBSET FaultKind]
  BY DEF Fault, TypeOK

\* A fault whose condition holds is a set of one kind, any other of none.
LEMMA KindType ==
  ASSUME NEW kind \in FaultKind, NEW condition
  PROVE  Kind(kind, condition) \in SUBSET FaultKind
  BY DEF Kind

\* An API call that responds keeps the types of the requests.
LEMMA RespondType ==
  ASSUME TypeOK, NEW r \in Request, Respond(r)
  PROVE  rpc' \in [Request -> RequestPc] /\ req' \in [Request -> Req]
  BY NewTypes DEF Respond, TypeOK, RequestPc

----------------------------------------------------------------------------
(* Type correctness.  It is inductive together with the links between a    *)
(* process' step and its locals.                                           *)

Linked ==
  /\ \A w \in Worker : pc[w] # "idle" <=> cur[w] \in Task
  /\ \A w \in Worker : pc[w] = "tool" => mem[w].call \in Stamp
  /\ \A r \in Request : rpc[r] # "idle" => req[r].task \in Task
  /\ \A r \in Request : rpc[r] = "decide" => req[r].approval \in Stamp

Typed == TypeOK /\ Linked

\* The types and the links hold at the start.
LEMMA InitType == Init => Typed
  BY NewTypes, BoundAssumption, NoneAssumption
     DEF Init, Typed, Linked, TypeOK, WorkerPc, RequestPc, Mem, Req, Row, Approval

\* Every step keeps the types.
LEMMA NextType == Typed /\ [Next]_vars => TypeOK'
<1> SUFFICES ASSUME TypeOK, Linked, [Next]_vars PROVE TypeOK'
  BY DEF Typed
<1> USE DEF workerVars, requestVars, historyVars
<1>1. ASSUME NEW w \in Worker, NEW t \in Task, Claim(w, t) PROVE TypeOK'
  BY <1>1 DEF Claim, TypeOK, Row, Lease, WorkerPc, Unread
<1>2. ASSUME NEW w \in Worker, ReadText(w) PROVE TypeOK'
  <2>1. [mem[w] EXCEPT !.text = row[cur[w]].checkpoint = None /\ cur[w] \notin Blank] \in Mem
    BY ZenonT(60) DEF TypeOK, Mem
  <2> QED
    BY <1>2, <2>1, StepType DEF ReadText, TypeOK, WorkerPc, Unread
<1>3. ASSUME NEW w \in Worker, Load(w) PROVE TypeOK'
  <2>1. row[cur[w]] \in Row /\ row[cur[w]].checkpoint \in Stamp \cup {None}
    BY <1>3 DEF Load, Linked, TypeOK, Row
  <2>2. [mem[w] EXCEPT !.cache = row[cur[w]], !.call = row[cur[w]].checkpoint] \in Mem
    BY <2>1, ZenonT(60) DEF TypeOK, Mem
  <2>3. LoadTo(w) \in WorkerPc
    BY DEF LoadTo, WorkerPc, Acting
  <2> QED
    BY <1>3, <2>2, <2>3, StepType DEF Load, TypeOK
<1>4. ASSUME NEW w \in Worker, Cancel(w) PROVE TypeOK'
  BY <1>4, StepType, UpdateType DEF Cancel, Goto, TypeOK, WorkerPc, Status, Terminal
<1>5. ASSUME NEW w \in Worker, CheckUnanswered(w) PROVE TypeOK'
  BY <1>5, StepType DEF CheckUnanswered, Goto, TypeOK, WorkerPc
<1>6. ASSUME NEW w \in Worker, NEW s \in Stamp, CheckAnswered(w, s) PROVE TypeOK'
  <2>1. approvals[s].status \in WorkerPc
    BY <1>6 DEF CheckAnswered, TypeOK, Approval, WorkerPc, Acting
  <2>2. [mem[w] EXCEPT !.grant = s] \in Mem
    BY DEF TypeOK, Mem
  <2> QED
    BY <1>6, <2>1, <2>2, StepType DEF CheckAnswered, TypeOK
<1>7. ASSUME NEW w \in Worker, Start(w) PROVE TypeOK'
  BY <1>7, StepType, UpdateType DEF Start, Goto, TypeOK, WorkerPc, Acting, Status
<1>8. ASSUME NEW w \in Worker, Resume(w) PROVE TypeOK'
  <2>1. mem[w].call \in Stamp \cup {None}
    BY DEF TypeOK, Mem
  <2> QED
    BY <1>8, <2>1, StepType, UpdateType DEF Resume, Goto, TypeOK, WorkerPc, Acting, Status
<1>9. ASSUME NEW w \in Worker, RefreshFresh(w) PROVE TypeOK'
  <2>1. row[cur[w]] \in Row
    BY <1>9 DEF RefreshFresh, Linked, TypeOK
  <2>2. [mem[w] EXCEPT !.cache = row[cur[w]]] \in Mem
    BY <2>1, SMTT(30) DEF TypeOK, Mem
  <2> QED
    BY <1>9, <2>2, StepType DEF RefreshFresh, TypeOK, WorkerPc, Acting
<1>10. ASSUME NEW w \in Worker, RefreshResumed(w) PROVE TypeOK'
  <2>1. clock \in Stamp /\ clock' \in 1..(MaxRun + 1)
    BY <1>10, BoundAssumption DEF RefreshResumed, TakeStamp, TypeOK, Stamp
  <2>2. row[cur[w]] \in Row
    BY <1>10 DEF RefreshResumed, Linked, TypeOK
  <2>3. [mem[w] EXCEPT !.cache = row[cur[w]], !.stamp = clock] \in Mem
    BY <2>1, <2>2, ZenonT(60) DEF TypeOK, Mem
  <2>4. "tool" \in WorkerPc
    BY DEF WorkerPc, Acting
  <2> QED
    BY <1>10, <2>1, <2>3, <2>4, StepType DEF RefreshResumed, TypeOK
<1>11. ASSUME NEW w \in Worker, AppendStarted(w) PROVE TypeOK'
  <2>1. clock \in Stamp /\ clock' \in 1..(MaxRun + 1)
    BY <1>11, BoundAssumption DEF AppendStarted, TakeStamp, TypeOK, Stamp
  <2>2. [mem[w] EXCEPT !.stamp = clock] \in Mem
    BY <2>1, SMTT(30) DEF TypeOK, Mem
  <2>3. {"run", "idle"} \subseteq WorkerPc
    BY DEF WorkerPc, Acting
  <2>4. log' \in [Task -> SUBSET EventType]
    BY <1>11 DEF AppendStarted, TypeOK, EventType
  <2> QED
    BY <1>11, <2>1, <2>2, <2>3, <2>4, StepType DEF AppendStarted, TypeOK
<1>12. ASSUME NEW w \in Worker, ExecuteTool(w) PROVE TypeOK'
  <2>1. ran' \in [Stamp -> Nat]
    BY <1>12 DEF ExecuteTool, Linked, TypeOK
  <2> QED
    BY <1>12, <2>1, StepType DEF ExecuteTool, Goto, TypeOK, WorkerPc, Acting
<1>13. ASSUME NEW w \in Worker, Answer(w) PROVE TypeOK'
  BY <1>13, StepType DEF Answer, Goto, TypeOK, WorkerPc, Acting
<1>14. ASSUME NEW w \in Worker, RunRaises(w) PROVE TypeOK'
  BY <1>14, StepType DEF RunRaises, Goto, TypeOK, WorkerPc, Acting
<1>15. ASSUME NEW w \in Worker, Ask(w) PROVE TypeOK'
  <2>1. [task |-> cur[w], status |-> "pending"] \in Approval
    BY DEF TypeOK, Approval
  <2> QED
    BY <1>15, <2>1, StepType DEF Ask, Goto, TypeOK, WorkerPc, Acting
<1>16. ASSUME NEW w \in Worker, Pause(w) PROVE TypeOK'
  <2>1. mem[w].stamp \in Stamp \cup {None}
    BY DEF TypeOK, Mem
  <2> QED
    BY <1>16, <2>1, StepType, UpdateType DEF Pause, Goto, TypeOK, WorkerPc, Tail, Status
<1>17. ASSUME NEW w \in Worker, Fail(w) PROVE TypeOK'
  BY <1>17, StepType, UpdateType DEF Fail, Goto, TypeOK, WorkerPc, Tail, Status, Terminal
<1>18. ASSUME NEW w \in Worker, AppendEvent(w) PROVE TypeOK'
  <2>1. pc[w] \in EventType /\ After[pc[w]] \in WorkerPc
    BY <1>18 DEF AppendEvent, After, EventType, WorkerPc, Acting
  <2>2. log' \in [Task -> SUBSET EventType]
    BY <1>18, <2>1 DEF AppendEvent, TypeOK
  <2> QED
    BY <1>18, <2>1, <2>2, StepType DEF AppendEvent, Goto, TypeOK
<1>19. ASSUME NEW w \in Worker, Deliver(w) PROVE TypeOK'
  BY <1>19, StepType DEF Deliver, Goto, TypeOK, WorkerPc, Acting
<1>20. ASSUME NEW w \in Worker, Succeed(w) PROVE TypeOK'
  BY <1>20, StepType, UpdateType DEF Succeed, Goto, TypeOK, WorkerPc, Tail, Status, Terminal
<1>21. ASSUME NEW w \in Worker, Crash(w) PROVE TypeOK'
  <2>1. crashes' \in 0..MaxCrash
    BY <1>21, BoundAssumption DEF Crash, TypeOK
  <2>2. faults' \in [Task -> SUBSET FaultKind]
    BY <1>21, KindType, FaultType DEF Crash, FaultKind
  <2> QED
    BY <1>21, <2>1, <2>2, StepType DEF Crash, Goto, TypeOK, WorkerPc
<1>22. ASSUME NEW t \in Task, LeaseLapse(t) PROVE TypeOK'
  <2>1. row' \in [Task -> Row]
    BY <1>22 DEF LeaseLapse, TypeOK, Row, Lease
  <2>2. faults' \in [Task -> SUBSET FaultKind]
    <3> DEFINE kinds == Kind("late", Claimable(row'[t]) /\ \E w \in Worker : Unrecorded(w, t))
                       \cup Kind("overlap", Claimable(row'[t]) /\ \E w \in Worker : Busy(w, t))
    <3>1. kinds \in SUBSET FaultKind
      BY KindType DEF FaultKind
    <3>2. Fault(t, kinds)
      BY <1>22 DEF LeaseLapse
    <3> HIDE DEF kinds
    <3> QED
      BY <3>1, <3>2, FaultType
  <2> QED
    BY <1>22, <2>1, <2>2 DEF LeaseLapse, TypeOK
<1>23. ASSUME NEW r \in Request, NEW t \in Task, CancelRead(r, t) PROVE TypeOK'
  <2>1. [NoReq EXCEPT !.task = t, !.cache = row[t]] \in Req
    BY NewTypes DEF TypeOK, Req
  <2> QED
    BY <1>23, <2>1 DEF CancelRead, TypeOK, RequestPc
<1>24. ASSUME NEW r \in Request, CancelCommit(r) PROVE TypeOK'
  <2> DEFINE new == [req[r].cache EXCEPT !.status = "cancelled", !.cancel = TRUE]
  <2>1. req[r].cache \in Row
    BY DEF TypeOK, Req
  <2>2. new \in Row
    BY <2>1 DEF Row, Status, Terminal
  <2>3. \A t \in Task : Flush(row[t], req[r].cache, new) \in Row
    BY <2>1, <2>2, FlushType DEF TypeOK
  <2>4. row' \in [Task -> Row]
    BY <1>24, <2>3 DEF CancelCommit, TypeOK
  <2>5. log' \in [Task -> SUBSET EventType]
    BY <1>24 DEF CancelCommit, TypeOK, EventType
  <2>6. stopped' \in SUBSET Task
    BY <1>24 DEF CancelCommit, Linked, TypeOK
  <2> QED
    BY <1>24, <2>4, <2>5, <2>6, RespondType DEF CancelCommit, TypeOK
<1>25. ASSUME NEW r \in Request, NEW s \in Stamp, NEW d \in {"approved", "denied"},
              DecideRead(r, s, d)
       PROVE  TypeOK'
  <2>1. approvals[s].task \in Task
    BY <1>25 DEF DecideRead, TypeOK, Approval
  <2>2. [NoReq EXCEPT !.task = approvals[s].task, !.approval = s, !.decision = d] \in Req
    BY <2>1, NewTypes DEF Req
  <2> QED
    BY <1>25, <2>2 DEF DecideRead, TypeOK, RequestPc
<1>26. ASSUME NEW r \in Request, DecideCommit(r) PROVE TypeOK'
  <2>1. req[r].decision \in {"approved", "denied"}
    BY DEF TypeOK, Req
  <2>2. approvals' \in [Stamp -> Approval]
    BY <1>26, <2>1 DEF DecideCommit, Linked, TypeOK, Approval
  <2>3. faults' \in [Task -> SUBSET FaultKind]
    <3> DEFINE kinds == Kind("double", approvals[req[r].approval].status # "pending")
                       \cup Kind("early", \E w \in Worker : Busy(w, req[r].task))
    <3>1. kinds \in SUBSET FaultKind
      BY KindType DEF FaultKind
    <3>2. Fault(req[r].task, kinds)
      BY <1>26 DEF DecideCommit
    <3> HIDE DEF kinds
    <3> QED
      BY <3>1, <3>2, FaultType
  <2> QED
    BY <1>26, <2>2, <2>3 DEF DecideCommit, TypeOK, RequestPc
<1>27. ASSUME NEW r \in Request, RequeueRead(r) PROVE TypeOK'
  <2>1. row[req[r].task] \in Row
    BY <1>27 DEF RequeueRead, Linked, TypeOK
  <2>2. [req[r] EXCEPT !.cache = row[req[r].task]] \in Req
    BY <2>1 DEF TypeOK, Req
  <2> QED
    BY <1>27, <2>2 DEF RequeueRead, TypeOK, RequestPc
<1>28. ASSUME NEW r \in Request, RequeueCommit(r) PROVE TypeOK'
  <2> DEFINE new == [req[r].cache EXCEPT !.status = "queued", !.lease = "free"]
  <2>1. req[r].cache \in Row
    BY DEF TypeOK, Req
  <2>2. new \in Row
    BY <2>1 DEF Row, Status, Lease
  <2>3. \A t \in Task : Flush(row[t], req[r].cache, new) \in Row
    BY <2>1, <2>2, FlushType DEF TypeOK
  <2>4. row' \in [Task -> Row]
    BY <1>28, <2>3 DEF RequeueCommit, TypeOK
  <2>5. faults' \in [Task -> SUBSET FaultKind]
    BY <1>28, KindType, FaultType DEF RequeueCommit, FaultKind
  <2> QED
    BY <1>28, <2>4, <2>5, RespondType DEF RequeueCommit, TypeOK
<1>29. ASSUME NEW r \in Request, RequestDies(r) PROVE TypeOK'
  <2>1. crashes' \in 0..MaxCrash
    BY <1>29, BoundAssumption DEF RequestDies, TypeOK
  <2>2. faults' \in [Task -> SUBSET FaultKind]
    BY <1>29, KindType, FaultType DEF RequestDies, FaultKind
  <2> QED
    BY <1>29, <2>1, <2>2, RespondType DEF RequestDies, TypeOK
<1>30. CASE UNCHANGED vars
  BY <1>30 DEF vars, TypeOK
<1> QED
  BY <1>1, <1>2, <1>3, <1>4, <1>5, <1>6, <1>7, <1>8, <1>9, <1>10, <1>11, <1>12, <1>13,
     <1>14, <1>15, <1>16, <1>17, <1>18, <1>19, <1>20, <1>21, <1>22, <1>23, <1>24, <1>25,
     <1>26, <1>27, <1>28, <1>29, <1>30 DEF Next, WorkerStep, UserCalls, RequestStep

\* Every step keeps the links between a process' step and its locals.
LEMMA NextLinked == Typed /\ [Next]_vars => Linked'
<1> SUFFICES ASSUME TypeOK, Linked, [Next]_vars PROVE Linked'
  BY DEF Typed
<1> USE NoneAssumption DEF workerVars, requestVars, historyVars
<1>1. ASSUME NEW w \in Worker, NEW t \in Task, Claim(w, t) PROVE Linked'
  BY <1>1 DEF Claim, Linked, TypeOK
<1>2. ASSUME NEW w \in Worker, ReadText(w) PROVE Linked'
  BY <1>2 DEF ReadText, Step, Linked, TypeOK
<1>3. ASSUME NEW w \in Worker, Load(w) PROVE Linked'
  BY <1>3 DEF Load, LoadTo, Step, Linked, TypeOK
<1>4. ASSUME NEW w \in Worker, NEW s \in Stamp, CheckAnswered(w, s) PROVE Linked'
  BY <1>4 DEF CheckAnswered, Step, Linked, TypeOK, Approval
<1>5. ASSUME NEW w \in Worker, RefreshResumed(w) PROVE Linked'
  <2>1. mem[w].call \in Stamp
    BY <1>5 DEF RefreshResumed, TypeOK, Mem
  <2> QED
    BY <1>5, <2>1 DEF RefreshResumed, Step, Linked, TypeOK, Mem
<1>6. ASSUME NEW w \in Worker, AppendStarted(w) PROVE Linked'
  BY <1>6 DEF AppendStarted, Step, Linked, TypeOK
<1>7. ASSUME NEW w \in Worker, AppendEvent(w) PROVE Linked'
  BY <1>7 DEF AppendEvent, After, Goto, Step, Linked, TypeOK
<1>8. ASSUME NEW w \in Worker,
             \/ Cancel(w) \/ CheckUnanswered(w) \/ Start(w) \/ Resume(w) \/ RefreshFresh(w)
             \/ ExecuteTool(w) \/ Answer(w) \/ RunRaises(w) \/ Ask(w) \/ Pause(w) \/ Fail(w)
             \/ Deliver(w) \/ Succeed(w) \/ Crash(w)
      PROVE  Linked'
  BY <1>8 DEF Cancel, CheckUnanswered, Start, Resume, RefreshFresh, ExecuteTool, Answer, RunRaises,
              Ask, Pause, Fail, Deliver, Succeed, Crash, Goto, Step, Linked, TypeOK
<1>9. ASSUME NEW t \in Task, LeaseLapse(t) PROVE Linked'
  BY <1>9 DEF LeaseLapse, Linked
<1>10. ASSUME NEW r \in Request, NEW t \in Task, CancelRead(r, t) PROVE Linked'
  BY <1>10 DEF CancelRead, NoReq, Linked, TypeOK
<1>11. ASSUME NEW r \in Request, NEW s \in Stamp, NEW d \in {"approved", "denied"},
              DecideRead(r, s, d)
       PROVE  Linked'
  BY <1>11 DEF DecideRead, NoReq, Linked, TypeOK, Approval
<1>12. ASSUME NEW r \in Request, CancelCommit(r) \/ RequeueCommit(r) \/ RequestDies(r)
       PROVE  Linked'
  BY <1>12 DEF CancelCommit, RequeueCommit, RequestDies, Respond, Linked, TypeOK
<1>13. ASSUME NEW r \in Request, DecideCommit(r) PROVE Linked'
  BY <1>13 DEF DecideCommit, Linked, TypeOK
<1>14. ASSUME NEW r \in Request, RequeueRead(r) PROVE Linked'
  <2>1. \A q \in Request : req'[q].task = req[q].task
    BY <1>14 DEF RequeueRead, TypeOK, Req
  <2> QED
    BY <1>14, <2>1 DEF RequeueRead, Linked, TypeOK
<1>15. CASE UNCHANGED vars
  BY <1>15 DEF vars, Linked
<1> QED
  BY <1>1, <1>2, <1>3, <1>4, <1>5, <1>6, <1>7, <1>8, <1>9, <1>10, <1>11, <1>12, <1>13, <1>14, <1>15
     DEF Next, WorkerStep, UserCalls, RequestStep

\* Every variable keeps its type, for every number of workers, tasks and calls.
THEOREM TypeCorrect == Spec => []TypeOK
<1>1. Init => Typed
  BY InitType
<1>2. Typed /\ [Next]_vars => Typed'
  BY NextType, NextLinked DEF Typed
<1>3. Typed => TypeOK
  BY DEF Typed
<1> QED
  BY <1>1, <1>2, <1>3, PTL DEF Spec

----------------------------------------------------------------------------
(* A final cancel.                                                         *)

\* What a commit of update_execution can change: one row, never cancel_requested.
LEMMA UpdateEffect ==
  ASSUME TypeOK, NEW w \in Worker, cur[w] \in Task, NEW status \in Status,
         NEW checkpoint \in Stamp \cup {None}, Update(w, status, checkpoint)
  PROVE  /\ \A t \in Task : t # cur[w] => row'[t] = row[t]
         /\ row'[cur[w]].cancel = row[cur[w]].cancel
         /\ row'[cur[w]].status \in {status, row[cur[w]].status}
         /\ row'[cur[w]].lease \in {row[cur[w]].lease, "free"}
         /\ status = "running" => row'[cur[w]].lease = row[cur[w]].lease
         /\ row'[cur[w]].checkpoint = Keep(row[cur[w]].checkpoint, mem[w].cache.checkpoint, checkpoint)
<1> DEFINE new == Updated(mem[w].cache, status, checkpoint)
<1>1. mem[w].cache \in Row
  BY DEF TypeOK, Mem
<1>2. /\ new.cancel = mem[w].cache.cancel
      /\ new.status = status
      /\ new.checkpoint = checkpoint
      /\ new.lease \in {mem[w].cache.lease, "free"}
      /\ status = "running" => new.lease = mem[w].cache.lease
  BY <1>1 DEF Updated, Row
<1>3. row'[cur[w]] = Flush(row[cur[w]], mem[w].cache, new)
  BY DEF Update, TypeOK
<1>4. \A t \in Task : t # cur[w] => row'[t] = row[t]
  BY DEF Update, TypeOK
<1> HIDE DEF new
<1> QED
  BY <1>2, <1>3, <1>4 DEF Flush, Keep

CancelInv ==
  /\ CancelFinal
  /\ \A t \in stopped : row[t].cancel
  /\ \A r \in Request : rpc[r] = "cancel" =>
       /\ req[r].cache.status \notin Terminal
       /\ req[r].cache.cancel => row[req[r].task].cancel

\* Every step keeps what is known of stopped tasks.
LEMMA NextCancelInv == Typed /\ CancelInv /\ [Next]_vars => CancelInv'
<1> SUFFICES ASSUME TypeOK, Linked, CancelInv, [Next]_vars PROVE CancelInv'
  BY DEF Typed
<1> USE NoneAssumption DEF workerVars, requestVars, historyVars
<1>1. ASSUME NEW w \in Worker, NEW t \in Task, Claim(w, t) PROVE CancelInv'
  BY <1>1 DEF Claim, Claimable, CancelInv, CancelFinal, TypeOK, Row, Acting
<1>2. ASSUME NEW w \in Worker, ReadText(w) PROVE CancelInv'
  BY <1>2 DEF ReadText, Step, CancelInv, CancelFinal, TypeOK, Acting
<1>3. ASSUME NEW w \in Worker, Load(w) PROVE CancelInv'
  BY <1>3 DEF Load, LoadTo, Step, CancelInv, CancelFinal, TypeOK, Acting, Terminal
<1>4. ASSUME NEW w \in Worker, Cancel(w) PROVE CancelInv'
  <2>1. cur[w] \in Task
    BY <1>4 DEF Cancel, Linked
  <2>2. /\ \A t \in Task : t # cur[w] => row'[t] = row[t]
        /\ row'[cur[w]].cancel = row[cur[w]].cancel
        /\ row'[cur[w]].status \in {"cancelled", row[cur[w]].status}
    BY <1>4, <2>1, UpdateEffect DEF Cancel, Status, Terminal
  <2> QED
    BY <1>4, <2>1, <2>2 DEF Cancel, Goto, Step, CancelInv, CancelFinal, Linked, TypeOK, Acting
<1>5. ASSUME NEW w \in Worker, pc[w] \in Acting,
             pc' = [pc EXCEPT ![w] = pc'[w]], cur'[w] \in {cur[w], None},
             \A v \in Worker : v # w => cur'[v] = cur[v],
             \A t \in Task : t # cur[w] => row'[t] = row[t],
             row'[cur[w]].cancel = row[cur[w]].cancel,
             UNCHANGED <<requestVars, stopped>>
      PROVE  CancelInv'
  BY <1>5 DEF CancelInv, CancelFinal, Linked, TypeOK, Acting
<1>6. ASSUME NEW w \in Worker,
             \/ CheckUnanswered(w) \/ (\E s \in Stamp : CheckAnswered(w, s))
             \/ RefreshFresh(w) \/ RefreshResumed(w) \/ AppendStarted(w) \/ ExecuteTool(w)
             \/ Answer(w) \/ RunRaises(w) \/ Ask(w) \/ Deliver(w)
      PROVE  CancelInv'
  BY <1>5, <1>6 DEF CheckUnanswered, CheckAnswered, RefreshFresh, RefreshResumed, AppendStarted,
                    ExecuteTool, Answer, RunRaises, Ask, Deliver, Goto, Step, TypeOK, Acting
<1>7. ASSUME NEW w \in Worker, Start(w) \/ Resume(w) \/ Pause(w) \/ Fail(w) \/ Succeed(w)
      PROVE  CancelInv'
  <2>1. pc[w] \in Acting /\ cur[w] \in Task
    BY <1>7 DEF Start, Resume, Pause, Fail, Succeed, Acting, Linked
  <2>2. mem[w].call \in Stamp \cup {None} /\ mem[w].stamp \in Stamp \cup {None}
    BY DEF TypeOK, Mem
  <2>3. /\ \A t \in Task : t # cur[w] => row'[t] = row[t]
        /\ row'[cur[w]].cancel = row[cur[w]].cancel
    BY <1>7, <2>1, <2>2, UpdateEffect
       DEF Start, Resume, Pause, Fail, Succeed, Status, Terminal
  <2> QED
    BY <1>5, <1>7, <2>1, <2>3 DEF Start, Resume, Pause, Fail, Succeed, Goto, Step, TypeOK
<1>8. ASSUME NEW w \in Worker, AppendEvent(w) PROVE CancelInv'
  <2>1. CASE pc[w] \in Acting
    BY <1>5, <1>8, <2>1 DEF AppendEvent, Goto, Step, TypeOK
  <2>2. CASE pc[w] \in Tail
    BY <1>8, <2>2 DEF AppendEvent, After, Tail, Goto, Step, CancelInv, CancelFinal, TypeOK, Acting
  <2>3. pc[w] \in Acting \cup Tail
    BY <1>8 DEF AppendEvent, After, Acting, Tail
  <2> QED
    BY <2>1, <2>2, <2>3
<1>9. ASSUME NEW w \in Worker, Crash(w) PROVE CancelInv'
  BY <1>9 DEF Crash, Goto, Step, CancelInv, CancelFinal, TypeOK, Acting
<1>10. ASSUME NEW t \in Task, LeaseLapse(t) PROVE CancelInv'
  BY <1>10 DEF LeaseLapse, CancelInv, CancelFinal, Linked, TypeOK, Row
<1>11. ASSUME NEW r \in Request, NEW t \in Task, CancelRead(r, t) PROVE CancelInv'
  BY <1>11 DEF CancelRead, NoReq, CancelInv, CancelFinal, Linked, TypeOK
<1>12. ASSUME NEW r \in Request, NEW s \in Stamp, NEW d \in {"approved", "denied"},
              DecideRead(r, s, d)
       PROVE  CancelInv'
  BY <1>12 DEF DecideRead, CancelInv, CancelFinal, TypeOK
<1>13. ASSUME NEW r \in Request, CancelCommit(r) PROVE CancelInv'
  <2> DEFINE t == req[r].task
             new == [req[r].cache EXCEPT !.status = "cancelled", !.cancel = TRUE]
  <2>1. t \in Task /\ req[r].cache \in Row
    BY <1>13 DEF CancelCommit, Linked, TypeOK, Req
  <2>2. req[r].cache.status # "cancelled" /\ (req[r].cache.cancel => row[t].cancel)
    BY <1>13 DEF CancelCommit, CancelInv, Terminal
  <2>3. row'[t] = Flush(row[t], req[r].cache, new)
    BY <1>13, <2>1 DEF CancelCommit, TypeOK
  <2>4. row'[t].status = "cancelled" /\ row'[t].cancel
    <3>1. new.status = "cancelled" /\ new.cancel = TRUE
      BY <2>1 DEF Row
    <3> HIDE DEF new
    <3>2. /\ row'[t].status = Keep(row[t].status, req[r].cache.status, new.status)
          /\ row'[t].cancel = Keep(row[t].cancel, req[r].cache.cancel, new.cancel)
      BY <2>3 DEF Flush
    <3>3. CASE req[r].cache.cancel = TRUE
      BY <2>2, <3>1, <3>2, <3>3 DEF Keep
    <3>4. CASE req[r].cache.cancel = FALSE
      BY <2>2, <3>1, <3>2, <3>4 DEF Keep
    <3> QED
      BY <2>1, <3>3, <3>4 DEF Row
  <2>5. \A u \in Task : u # t => row'[u] = row[u]
    BY <1>13, <2>1 DEF CancelCommit, TypeOK
  <2>6. /\ stopped' \subseteq stopped \cup {t}
        /\ t \in stopped' /\ t \notin stopped => \A w \in Worker : cur[w] = t => pc[w] \notin Acting
    BY <1>13 DEF CancelCommit
  <2>7. \A q \in Request : rpc'[q] = "cancel" => rpc[q] = "cancel" /\ req'[q] = req[q]
    BY <1>13 DEF CancelCommit, Respond, TypeOK
  <2> QED
    BY <1>13, <2>1, <2>4, <2>5, <2>6, <2>7 DEF CancelCommit, CancelInv, CancelFinal, TypeOK
<1>14. ASSUME NEW r \in Request, DecideCommit(r) PROVE CancelInv'
  BY <1>14 DEF DecideCommit, CancelInv, CancelFinal, TypeOK
<1>15. ASSUME NEW r \in Request, RequeueRead(r) PROVE CancelInv'
  BY <1>15 DEF RequeueRead, CancelInv, CancelFinal, TypeOK
<1>16. ASSUME NEW r \in Request, RequeueCommit(r) PROVE CancelInv'
  <2> DEFINE t == req[r].task
             new == [req[r].cache EXCEPT !.status = "queued", !.lease = "free"]
  <2>1. t \in Task /\ req[r].cache \in Row
    BY <1>16 DEF RequeueCommit, Linked, TypeOK, Req
  <2>2. row'[t] = Flush(row[t], req[r].cache, new)
    BY <1>16, <2>1 DEF RequeueCommit, TypeOK
  <2>3. row'[t].status \in {"queued", row[t].status} /\ row'[t].cancel = row[t].cancel
    BY <2>1, <2>2 DEF Flush, Keep, Row
  <2>4. \A u \in Task : u # t => row'[u] = row[u]
    BY <1>16, <2>1 DEF RequeueCommit, TypeOK
  <2>5. \A q \in Request : rpc'[q] = "cancel" => rpc[q] = "cancel" /\ req'[q] = req[q]
    BY <1>16 DEF RequeueCommit, Respond, TypeOK
  <2> QED
    BY <1>16, <2>1, <2>3, <2>4, <2>5, SMTT(30) DEF RequeueCommit, CancelInv, CancelFinal, Linked, TypeOK
<1>17. ASSUME NEW r \in Request, RequestDies(r) PROVE CancelInv'
  BY <1>17 DEF RequestDies, Respond, CancelInv, CancelFinal, TypeOK
<1>18. CASE UNCHANGED vars
  BY <1>18 DEF vars, CancelInv, CancelFinal
<1> QED
  BY <1>1, <1>2, <1>3, <1>4, <1>6, <1>7, <1>8, <1>9, <1>10, <1>11, <1>12, <1>13, <1>14, <1>15,
     <1>16, <1>17, <1>18 DEF Next, WorkerStep, UserCalls, RequestStep

\* A cancel accepted while no worker acts on the task is final: no worker acts on it
\* again and it never succeeds, whatever decisions, lapses and crashes follow.
THEOREM CancelIsFinal == Spec => []CancelFinal
<1>1. Init => Typed /\ CancelInv
  BY InitType DEF Init, CancelInv, CancelFinal
<1>2. Typed /\ CancelInv /\ [Next]_vars => (Typed /\ CancelInv)'
  BY NextType, NextLinked, NextCancelInv DEF Typed
<1>3. CancelInv => CancelFinal
  BY DEF CancelInv
<1> QED
  BY <1>1, <1>2, <1>3, PTL DEF Spec

----------------------------------------------------------------------------
(* One worker at a time.                                                   *)

\* Workers meet at a task only after it became claimable in a worker's hands.
Separate ==
  \A t \in Task : "overlap" \notin faults[t] =>
    \A v, w \in Worker : Busy(v, t) /\ Busy(w, t) => v = w

\* Inductive: while a worker is busy with a task, the task is not claimable.
ExclusiveInv ==
  /\ Separate
  /\ \A t \in Task : "overlap" \notin faults[t] =>
       \A w \in Worker : Busy(w, t) => ~Claimable(row[t])

\* The effect of an API call's commit on the row.
LEMMA RequestEffect ==
  ASSUME TypeOK, Linked, NEW r \in Request
  PROVE  /\ CancelCommit(r) =>
              /\ \A t \in Task : t # req[r].task => row'[t] = row[t]
              /\ row'[req[r].task].status \in {"cancelled", row[req[r].task].status}
              /\ row'[req[r].task].lease = row[req[r].task].lease
              /\ row'[req[r].task].checkpoint = row[req[r].task].checkpoint
         /\ RequeueCommit(r) =>
              /\ \A t \in Task : t # req[r].task => row'[t] = row[t]
              /\ row'[req[r].task].status \in {"queued", row[req[r].task].status}
              /\ row'[req[r].task].checkpoint = row[req[r].task].checkpoint
<1>1. req[r].cache \in Row
  BY DEF TypeOK, Req
<1>2. ASSUME CancelCommit(r)
      PROVE  /\ \A t \in Task : t # req[r].task => row'[t] = row[t]
             /\ row'[req[r].task].status \in {"cancelled", row[req[r].task].status}
             /\ row'[req[r].task].lease = row[req[r].task].lease
             /\ row'[req[r].task].checkpoint = row[req[r].task].checkpoint
  <2> DEFINE new == [req[r].cache EXCEPT !.status = "cancelled", !.cancel = TRUE]
  <2>1. row'[req[r].task] = Flush(row[req[r].task], req[r].cache, new)
    BY <1>2 DEF CancelCommit, TypeOK, Linked
  <2>2. /\ new.status = "cancelled" /\ new.lease = req[r].cache.lease
        /\ new.checkpoint = req[r].cache.checkpoint
    BY <1>1 DEF Row
  <2>3. \A t \in Task : t # req[r].task => row'[t] = row[t]
    BY <1>2 DEF CancelCommit, TypeOK
  <2> HIDE DEF new
  <2> QED
    BY <2>1, <2>2, <2>3 DEF Flush, Keep
<1>3. ASSUME RequeueCommit(r)
      PROVE  /\ \A t \in Task : t # req[r].task => row'[t] = row[t]
             /\ row'[req[r].task].status \in {"queued", row[req[r].task].status}
             /\ row'[req[r].task].checkpoint = row[req[r].task].checkpoint
  <2> DEFINE new == [req[r].cache EXCEPT !.status = "queued", !.lease = "free"]
  <2>1. row'[req[r].task] = Flush(row[req[r].task], req[r].cache, new)
    BY <1>3 DEF RequeueCommit, TypeOK, Linked
  <2>2. new.status = "queued" /\ new.checkpoint = req[r].cache.checkpoint
    BY <1>1 DEF Row
  <2>3. \A t \in Task : t # req[r].task => row'[t] = row[t]
    BY <1>3 DEF RequeueCommit, TypeOK
  <2> HIDE DEF new
  <2> QED
    BY <2>1, <2>2, <2>3 DEF Flush, Keep
<1> QED
  BY <1>2, <1>3

\* Every step keeps the tasks of busy workers unclaimable, or puts an overlap on record.
LEMMA NextExclusiveInv == Typed /\ ExclusiveInv /\ [Next]_vars => ExclusiveInv'
<1> SUFFICES ASSUME TypeOK, Linked, ExclusiveInv, [Next]_vars PROVE ExclusiveInv'
  BY DEF Typed
<1> USE NoneAssumption DEF workerVars, requestVars, historyVars
<1>1. ASSUME NEW w \in Worker, NEW t \in Task, Claim(w, t) PROVE ExclusiveInv'
  <2>1. cur[w] \notin Task
    BY <1>1 DEF Claim, Linked
  <2>2. /\ cur'[w] = t /\ \A v \in Worker : v # w => cur'[v] = cur[v] /\ pc'[v] = pc[v]
        /\ ~Claimable(row'[t]) /\ \A u \in Task : u # t => row'[u] = row[u]
        /\ Claimable(row[t]) /\ faults' = faults
    BY <1>1 DEF Claim, Claimable, TypeOK, Row
  <2> QED
    BY <2>1, <2>2 DEF ExclusiveInv, Separate, Busy
<1>2. ASSUME NEW w \in Worker, NEW t \in Task, t = cur[w],
             \A v \in Worker : v # w => cur'[v] = cur[v] /\ pc'[v] = pc[v],
             cur'[w] \in {t, None}, pc[w] \in Tail => cur'[w] = None,
             \A u \in Task : faults[u] \subseteq faults'[u],
             \A u \in Task : u # t => row'[u] = row[u],
             \/ row'[t] = row[t]
             \/ pc[w] \notin Tail /\ (Claimable(row'[t]) => Claimable(row[t]))
             \/ pc[w] \notin Tail /\ (cur'[w] = None \/ pc'[w] \in Tail)
      PROVE  ExclusiveInv'
  BY <1>2 DEF ExclusiveInv, Separate, Busy
<1>3. ASSUME NEW w \in Worker,
             \/ ReadText(w) \/ Load(w) \/ CheckUnanswered(w) \/ (\E s \in Stamp : CheckAnswered(w, s))
             \/ RefreshFresh(w) \/ RefreshResumed(w) \/ AppendStarted(w) \/ ExecuteTool(w)
             \/ Answer(w) \/ RunRaises(w) \/ Ask(w) \/ Deliver(w)
      PROVE  ExclusiveInv'
  <2>1. /\ pc[w] \notin Tail \cup {"idle"} /\ cur'[w] \in {cur[w], None}
        /\ \A v \in Worker : v # w => cur'[v] = cur[v] /\ pc'[v] = pc[v]
        /\ faults' = faults /\ row' = row
    BY <1>3 DEF ReadText, Load, CheckUnanswered, CheckAnswered, RefreshFresh, RefreshResumed,
                AppendStarted, ExecuteTool, Answer, RunRaises, Ask, Deliver, Goto, Step, TypeOK, Tail
  <2> QED
    BY <1>2, <2>1 DEF Linked
<1>4. ASSUME NEW w \in Worker, Start(w) \/ Resume(w) PROVE ExclusiveInv'
  <2>1. cur[w] \in Task /\ mem[w].call \in Stamp \cup {None}
    BY <1>4 DEF Start, Resume, Linked, TypeOK, Mem
  <2>2. /\ pc[w] \notin Tail /\ cur'[w] \in {cur[w], None}
        /\ \A v \in Worker : v # w => cur'[v] = cur[v] /\ pc'[v] = pc[v]
        /\ faults' = faults
    BY <1>4 DEF Start, Resume, Goto, Step, TypeOK, Tail
  <2>3. /\ \A u \in Task : u # cur[w] => row'[u] = row[u]
        /\ row'[cur[w]].status \in {"running", row[cur[w]].status}
        /\ row'[cur[w]].lease = row[cur[w]].lease
    BY <1>4, <2>1, UpdateEffect DEF Start, Resume, Status
  <2>4. Claimable(row'[cur[w]]) => Claimable(row[cur[w]])
    BY <2>3 DEF Claimable
  <2> QED
    BY <1>2, <2>1, <2>2, <2>3, <2>4
<1>5. ASSUME NEW w \in Worker, Cancel(w) \/ Pause(w) \/ Fail(w) \/ Succeed(w) PROVE ExclusiveInv'
  <2>1. cur[w] \in Task /\ mem[w].stamp \in Stamp \cup {None}
    BY <1>5 DEF Cancel, Pause, Fail, Succeed, Linked, TypeOK, Mem
  <2>2. /\ pc[w] \notin Tail /\ cur'[w] \in {cur[w], None}
        /\ cur'[w] = None \/ pc'[w] \in Tail
        /\ \A v \in Worker : v # w => cur'[v] = cur[v] /\ pc'[v] = pc[v]
        /\ faults' = faults
    BY <1>5 DEF Cancel, Pause, Fail, Succeed, Goto, Step, TypeOK, Tail
  <2>3. \A u \in Task : u # cur[w] => row'[u] = row[u]
    BY <1>5, <2>1, UpdateEffect DEF Cancel, Pause, Fail, Succeed, Status, Terminal
  <2> QED
    BY <1>2, <2>1, <2>2, <2>3
<1>6. ASSUME NEW w \in Worker, AppendEvent(w) PROVE ExclusiveInv'
  <2>1. /\ pc[w] # "idle" /\ (pc[w] \in Tail => After[pc[w]] = "idle")
    BY <1>6 DEF AppendEvent, After, Tail
  <2>2. /\ cur'[w] \in {cur[w], None} /\ (pc[w] \in Tail => cur'[w] = None)
        /\ \A v \in Worker : v # w => cur'[v] = cur[v] /\ pc'[v] = pc[v]
        /\ faults' = faults /\ row' = row
    BY <1>6, <2>1 DEF AppendEvent, Goto, Step, TypeOK
  <2> QED
    BY <1>2, <2>1, <2>2 DEF Linked
<1>7. ASSUME NEW w \in Worker, Crash(w) PROVE ExclusiveInv'
  <2>1. /\ pc[w] # "idle" /\ cur'[w] = None
        /\ \A v \in Worker : v # w => cur'[v] = cur[v] /\ pc'[v] = pc[v]
        /\ row' = row /\ \A u \in Task : faults[u] \subseteq faults'[u]
    BY <1>7 DEF Crash, Fault, Goto, Step, TypeOK
  <2> QED
    BY <1>2, <2>1 DEF Linked
<1>8. ASSUME NEW t \in Task, LeaseLapse(t) PROVE ExclusiveInv'
  <2>1. \A u \in Task : u # t => row'[u] = row[u] /\ faults'[u] = faults[u]
    BY <1>8 DEF LeaseLapse, Fault, Kind, TypeOK
  <2>2. /\ faults[t] \subseteq faults'[t]
        /\ "overlap" \notin faults'[t] => ~(Claimable(row'[t]) /\ \E w \in Worker : Busy(w, t))
    BY <1>8 DEF LeaseLapse, Fault, Kind, TypeOK
  <2> QED
    BY <1>8, <2>1, <2>2 DEF LeaseLapse, ExclusiveInv, Separate, Busy
<1>9. ASSUME NEW r \in Request, CancelCommit(r) PROVE ExclusiveInv'
  <2>1. \A t \in Task : Claimable(row'[t]) => Claimable(row[t])
    BY <1>9, RequestEffect DEF Claimable
  <2> QED
    BY <1>9, <2>1 DEF CancelCommit, ExclusiveInv, Separate, Busy
<1>10. ASSUME NEW r \in Request, RequeueCommit(r) PROVE ExclusiveInv'
  <2> DEFINE t == req[r].task
  <2>1. t \in Task /\ \A u \in Task : u # t => row'[u] = row[u]
    BY <1>10, RequestEffect DEF RequeueCommit, Linked
  <2>2. /\ \A u \in Task : u # t => faults'[u] = faults[u]
        /\ faults[t] \subseteq faults'[t]
        /\ "overlap" \notin faults'[t] => ~(Claimable(row'[t]) /\ \E w \in Worker : Busy(w, t))
    BY <1>10, <2>1 DEF RequeueCommit, Fault, Kind, TypeOK
  <2> QED
    BY <1>10, <2>1, <2>2 DEF RequeueCommit, ExclusiveInv, Separate, Busy
<1>11. ASSUME UNCHANGED <<row, workerVars>>, \A t \in Task : faults[t] \subseteq faults'[t]
       PROVE  ExclusiveInv'
  BY <1>11 DEF ExclusiveInv, Separate, Busy
<1>12. ASSUME NEW r \in Request,
              UserCalls(r) \/ DecideCommit(r) \/ RequeueRead(r) \/ RequestDies(r)
       PROVE  ExclusiveInv'
  <2>1. UNCHANGED <<row, workerVars>>
    BY <1>12 DEF UserCalls, CancelRead, DecideRead, DecideCommit, RequeueRead, RequestDies
  <2>2. faults' = faults \/ \E t, kinds : Fault(t, kinds)
    BY <1>12 DEF UserCalls, CancelRead, DecideRead, DecideCommit, RequeueRead, RequestDies
  <2>3. \A t \in Task : faults[t] \subseteq faults'[t]
    BY <2>2 DEF Fault, TypeOK
  <2> QED
    BY <1>11, <2>1, <2>3
<1>13. CASE UNCHANGED vars
  BY <1>11, <1>13 DEF vars
<1> QED
  BY <1>1, <1>3, <1>4, <1>5, <1>6, <1>7, <1>8, <1>9, <1>10, <1>12, <1>13
     DEF Next, WorkerStep, RequestStep
=============================================================================
