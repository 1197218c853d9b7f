-------------------------- MODULE SubmissionProofs --------------------------
(***************************************************************************)
(* Proofs about Submission, for every number of submissions, retries,      *)
(* routines and schedulers: types, that the answers to a submission with   *)
(* a key agree, that a submission whose handlers were not in each other's  *)
(* way leaves nothing behind, and that no occurrence of a routine is       *)
(* skipped.                                                                *)
(***************************************************************************)
EXTENDS Submission, Integers, TLAPS

----------------------------------------------------------------------------
(* The inductive invariant.                                                *)

BeforeInsert == {"converse", "lookup", "insert"}

\* A request that was not sent has no handler.
Unsent ==
  \A s \in Sub, n \in 1..MaxAttempts : n > attempt[s] => pc[<<s, n>>] = "unsent"

\* A handler holds a task of its own submission, without a key the one it inserted.
OwnTask ==
  \A r \in Request : task[r] # None =>
    /\ task[r][1] = r[1]
    /\ r[1] \notin keyed => task[r] = r

\* The unique constraint: a key has one task.
OneTask == \A s \in keyed : \A t, u \in TasksOf(s) : t = u

\* Unless two handlers of a submission were in each other's way, one that has not
\* inserted its task is alone, and with a key there is no task.
Alone ==
  \A r \in Request : r[1] \notin overlapped /\ pc[r] \in BeforeInsert =>
    /\ \A q \in Request : q[1] = r[1] /\ pc[q] \in BeforeInsert => q = r
    /\ r[1] \in keyed => TasksOf(r[1]) = {}

\* Then a handler writes the events of the task that it inserted itself, and each once.
Counted ==
  \A r \in Request : r[1] \notin overlapped =>
    /\ pc[r] \in {"created", "delegated"} => task[r] = r
    /\ created[r] <= 1 /\ delegated[r] <= 1
    /\ pc[r] \in {"unsent", "find", "created"} \cup BeforeInsert => created[r] = 0
    /\ pc[r] \in {"unsent", "find", "created", "delegated"} \cup BeforeInsert => delegated[r] = 0

\* A message without a task belongs to a handler that is about to insert it.
Messages ==
  \A r \in messages : r[1] \notin overlapped \cup broken => r \in tasks \/ pc[r] \in {"lookup", "insert"}

\* The rows that the schedulers hold are due, and no two hold the same.
Locks ==
  \A x \in Scheduler : \A r \in locked[x] :
    /\ enabled[r] /\ next[r] <= now
    /\ \A y \in Scheduler : r \in locked[y] => y = x

\* The number of occurrences of a routine that became tasks.
Dispatched(r) == IF enabled[r] THEN next[r] - 1 ELSE next[r] - 2

Occurrences ==
  \A r \in Routine :
    /\ next[r] <= now + 1
    /\ \A o \in Nat \ {0} : <<r, o>> \in runs <=> o <= Dispatched(r)

IInv ==
  /\ TypeOK /\ Unsent /\ OwnTask /\ OneTask /\ Alone /\ Counted /\ Messages
  /\ Locks /\ Occurrences

----------------------------------------------------------------------------
(* What the steps leave alone.                                             *)

\* The steps of the network and of the routines.
Aside ==
  \/ \E s \in Sub : Lose(s) \/ TimeOut(s) \/ Receive(s)
  \/ Tick
  \/ \E r \in Routine : ArchiveBot(r)
  \/ \E x \in Scheduler : SchedulerStep(x) \/ SchedulerDies(x)

\* The steps of the system, by whom they move.
LEMMA NextSteps ==
  ASSUME [Next]_vars
  PROVE  \/ UNCHANGED vars \/ Aside
         \/ \E s \in Sub : Send(s)
         \/ \E r \in Request : HandlerStep(r)
         \/ \E r \in Request : Die(r)
BY DEF Next, Aside

\* A step aside touches no handler and no table of submissions.
LEMMA AsideKeeps ==
  ASSUME UNCHANGED vars \/ Aside
  PROVE  UNCHANGED <<kinds, attempt, handlers, tables, overlapped, broken>>
BY DEF Aside, vars, Lose, TimeOut, Receive, Tick, ArchiveBot, SchedulerStep, Select, Dispatch,
       SchedulerDies, submitted, history

\* A handler touches neither the clients nor the routines.
LEMMA HandlersKeep ==
  ASSUME NEW r \in Request, HandlerStep(r) \/ Die(r)
  PROVE  UNCHANGED <<kinds, submitted, routines>>
BY DEF HandlerStep, Find, Converse, Lookup, Insert, AppendCreated, AppendDelegated, Die

\* Steps that move no routine.
LEMMA RoutinesKept ==
  ASSUME NEW s \in Sub, Send(s) \/ Lose(s) \/ TimeOut(s) \/ Receive(s)
  PROVE  UNCHANGED routines
BY DEF Send, Lose, TimeOut, Receive

\* A request is one of its submission.
LEMMA Requests ==
  /\ \A r \in Request : r[1] \in Sub /\ r[2] \in 1..MaxAttempts /\ r = <<r[1], r[2]>>
  /\ \A s \in Sub, n \in 1..MaxAttempts : <<s, n>> \in Request /\ <<s, n>>[1] = s /\ <<s, n>>[2] = n
BY DEF Request

----------------------------------------------------------------------------
(* Types.                                                                  *)

\* The types hold at the start.
LEMMA TypeInit == Init => TypeOK
<1> SUFFICES ASSUME Init PROVE TypeOK
  OBVIOUS
<1>1. /\ keyed \subseteq Sub /\ delegations \subseteq Sub
      /\ client \in [Sub -> {"new", "sent", "backoff", "done", "failed"}]
      /\ attempt \in [Sub -> 0..MaxAttempts]
      /\ now \in Nat /\ deaths \in Nat
      /\ archived \subseteq Routine /\ runs \subseteq Routine \X (Nat \ {0})
      /\ overlapped \subseteq Sub /\ broken \subseteq Sub
  BY SubmissionAssumption DEF Init
<1>2. /\ pc \in [Request -> Running \cup {"unsent", "answered", "error", "dead"}]
      /\ \A r \in Request : pc[r] \notin HasTask
      /\ task \in [Request -> tasks \cup {None}]
      /\ created \in [Request -> Nat] /\ delegated \in [Request -> Nat]
      /\ messages \subseteq Request /\ tasks \subseteq Request
  BY DEF Init, Running, HasTask
<1>3. /\ next \in [Routine -> Nat \ {0}] /\ enabled \in [Routine -> BOOLEAN]
      /\ locked \in [Scheduler -> SUBSET Routine]
  BY DEF Init
<1> QED
  BY <1>1, <1>2, <1>3 DEF TypeOK

\* The types of what the client, the handlers and the routines change.
ClientTypes ==
  /\ keyed \subseteq Sub /\ delegations \subseteq Sub
  /\ client \in [Sub -> {"new", "sent", "backoff", "done", "failed"}]
  /\ attempt \in [Sub -> 0..MaxAttempts]
HandlerTypes ==
  /\ pc \in [Request -> Running \cup {"unsent", "answered", "error", "dead"}]
  /\ task \in [Request -> tasks \cup {None}]
  /\ \A r \in Request : pc[r] \in HasTask => task[r] # None
  /\ messages \subseteq Request /\ tasks \subseteq Request
  /\ created \in [Request -> Nat] /\ delegated \in [Request -> Nat]
  /\ overlapped \subseteq Sub /\ broken \subseteq Sub
RoutineTypes ==
  /\ now \in Nat
  /\ next \in [Routine -> Nat \ {0}]
  /\ enabled \in [Routine -> BOOLEAN]
  /\ archived \subseteq Routine
  /\ locked \in [Scheduler -> SUBSET Routine]
  /\ runs \subseteq Routine \X (Nat \ {0})

\* TypeOK, by parts.
LEMMA Types == TypeOK <=> ClientTypes /\ HandlerTypes /\ RoutineTypes /\ deaths \in Nat
BY DEF TypeOK, ClientTypes, HandlerTypes, RoutineTypes

\* Every step keeps the types of the clients.
LEMMA ClientNext == ClientTypes /\ [Next]_vars => ClientTypes'
<1> SUFFICES ASSUME ClientTypes, [Next]_vars PROVE ClientTypes'
  OBVIOUS
<1> USE DEF ClientTypes
<1>1. UNCHANGED kinds
  BY NextSteps, AsideKeeps, HandlersKeep DEF Send
<1>2. ASSUME NEW s \in Sub, Send(s) PROVE ClientTypes'
  <2>1. attempt[s] + 1 \in 0..MaxAttempts
    BY <1>2, SubmissionAssumption DEF Send
  <2> QED
    BY <1>1, <1>2, <2>1 DEF Send, kinds
<1>3. ASSUME NEW s \in Sub, Lose(s) \/ TimeOut(s) \/ Receive(s) PROVE ClientTypes'
  BY <1>3 DEF Lose, TimeOut, Receive, kinds
<1>4. CASE UNCHANGED <<kinds, submitted>>
  BY <1>4 DEF kinds, submitted
<1>5. ASSUME Tick \/ (\E r \in Routine : ArchiveBot(r)) \/ (\E x \in Scheduler : SchedulerStep(x) \/ SchedulerDies(x))
      PROVE  UNCHANGED <<kinds, submitted>>
  BY <1>5 DEF Tick, ArchiveBot, SchedulerStep, Select, Dispatch, SchedulerDies
<1> QED
  BY <1>2, <1>3, <1>4, <1>5, NextSteps, HandlersKeep DEF Aside, vars

\* Every step keeps the types of the handlers and of their tables.
LEMMA HandlerNext == HandlerTypes /\ [Next]_vars => HandlerTypes'
<1> SUFFICES ASSUME HandlerTypes, [Next]_vars PROVE HandlerTypes'
  OBVIOUS
<1> USE DEF HandlerTypes, Running, HasTask
<1>1. CASE UNCHANGED vars \/ Aside
  BY <1>1, AsideKeeps DEF handlers, tables
<1>2. ASSUME NEW s \in Sub, Send(s) PROVE HandlerTypes'
  BY <1>2 DEF Send, tables, history
<1>3. ASSUME NEW r \in Request, Find(r) PROVE HandlerTypes'
  <2>1. r[1] \in Sub /\ TasksOf(r[1]) \subseteq tasks
    BY Requests DEF TasksOf
  <2>2. None \notin tasks
    BY SubmissionAssumption
  <2> QED
    BY <1>3, <2>1, <2>2 DEF Find, Goto, tables
<1>4. ASSUME NEW r \in Request, Converse(r) PROVE HandlerTypes'
  BY <1>4 DEF Converse, Goto, history
<1>5. ASSUME NEW r \in Request, Lookup(r) PROVE HandlerTypes'
  <2>1. TasksOf(r[1]) \subseteq tasks /\ None \notin tasks
    BY SubmissionAssumption DEF TasksOf
  <2> QED
    BY <1>5, <2>1 DEF Lookup, Goto, tables, history
<1>6. ASSUME NEW r \in Request, Insert(r) PROVE HandlerTypes'
  <2>1. r # None
    BY SubmissionAssumption
  <2> QED
    BY <1>6, <2>1 DEF Insert, Goto, history
<1>7. ASSUME NEW r \in Request, AppendCreated(r) PROVE HandlerTypes'
  <2>1. task[r] \in Request
    BY <1>7 DEF AppendCreated
  <2> QED
    BY <1>7, <2>1 DEF AppendCreated, Goto, history
<1>8. ASSUME NEW r \in Request, AppendDelegated(r) PROVE HandlerTypes'
  <2>1. task[r] \in Request
    BY <1>8 DEF AppendDelegated
  <2> QED
    BY <1>8, <2>1 DEF AppendDelegated, Goto, history
<1>9. ASSUME NEW r \in Request, Die(r) PROVE HandlerTypes'
  BY <1>9, Requests DEF Die, Goto, tables
<1> QED
  BY <1>1, <1>2, <1>3, <1>4, <1>5, <1>6, <1>7, <1>8, <1>9, NextSteps DEF HandlerStep

\* Every step keeps the types of the routines.
LEMMA RoutineNext == RoutineTypes /\ [Next]_vars => RoutineTypes'
<1> SUFFICES ASSUME RoutineTypes, [Next]_vars PROVE RoutineTypes'
  OBVIOUS
<1> USE DEF RoutineTypes
<1>1. CASE UNCHANGED routines
  BY <1>1 DEF routines
<1>2. CASE Tick
  BY <1>2 DEF Tick
<1>3. ASSUME NEW r \in Routine, ArchiveBot(r) PROVE RoutineTypes'
  BY <1>3 DEF ArchiveBot
<1>4. ASSUME NEW x \in Scheduler, Select(x) PROVE RoutineTypes'
  BY <1>4 DEF Select
<1>5. ASSUME NEW x \in Scheduler, Dispatch(x) PROVE RoutineTypes'
  <2>1. locked[x] \subseteq Routine /\ \A r \in Routine : next[r] + 1 \in Nat \ {0}
    OBVIOUS
  <2>2. next' \in [Routine -> Nat \ {0}]
    BY <1>5, <2>1 DEF Dispatch
  <2>3. enabled' \in [Routine -> BOOLEAN]
    BY <1>5 DEF Dispatch
  <2>4. {<<r, next[r]>> : r \in locked[x] \ archived} \subseteq Routine \X (Nat \ {0})
    BY <2>1
  <2> QED
    BY <1>5, <2>2, <2>3, <2>4 DEF Dispatch
<1>6. ASSUME NEW x \in Scheduler, SchedulerDies(x) PROVE RoutineTypes'
  BY <1>6 DEF SchedulerDies
<1>7. ASSUME NEW s \in Sub, Send(s) PROVE UNCHANGED routines
  BY <1>7, RoutinesKept
<1> QED
  BY <1>1, <1>2, <1>3, <1>4, <1>5, <1>6, <1>7, NextSteps, RoutinesKept, HandlersKeep
  DEF Aside, SchedulerStep, vars

\* Every step keeps the types.
LEMMA TypeNext == TypeOK /\ [Next]_vars => TypeOK'
<1>1. ASSUME deaths \in Nat, [Next]_vars PROVE deaths' \in Nat
  <2>1. CASE UNCHANGED vars \/ Tick
    BY <1>1, <2>1 DEF vars, history, Tick
  <2>2. ASSUME NEW s \in Sub, Send(s) \/ Lose(s) \/ TimeOut(s) \/ Receive(s) PROVE deaths' = deaths
    BY <2>2 DEF Send, Lose, TimeOut, Receive, history
  <2>3. ASSUME NEW r \in Request, HandlerStep(r) PROVE deaths' = deaths
    BY <2>3 DEF HandlerStep, Find, Converse, Lookup, Insert, AppendCreated, AppendDelegated, history
  <2>4. ASSUME NEW r \in Request, Die(r) PROVE deaths' = deaths + 1
    BY <2>4 DEF Die
  <2>5. ASSUME NEW r \in Routine, ArchiveBot(r) PROVE deaths' = deaths
    BY <2>5 DEF ArchiveBot, history
  <2>6. ASSUME NEW x \in Scheduler, SchedulerStep(x) PROVE deaths' = deaths
    BY <2>6 DEF SchedulerStep, Select, Dispatch, history
  <2>7. ASSUME NEW x \in Scheduler, SchedulerDies(x) PROVE deaths' = deaths + 1
    BY <2>7 DEF SchedulerDies
  <2> QED
    BY <1>1, <2>1, <2>2, <2>3, <2>4, <2>5, <2>6, <2>7, NextSteps DEF Aside
<1>2. (ClientTypes /\ HandlerTypes /\ RoutineTypes /\ deaths \in Nat)' => TypeOK'
  BY Types, PTL
<1> QED
  BY <1>1, <1>2, Types, ClientNext, HandlerNext, RoutineNext

----------------------------------------------------------------------------
(* The submissions.                                                        *)

\* A request that has not been sent yet is the client's next one.
LEMMA UnsentNext == ClientTypes /\ HandlerTypes /\ Unsent /\ [Next]_vars => Unsent'
<1> SUFFICES ASSUME ClientTypes, HandlerTypes, Unsent, [Next]_vars PROVE Unsent'
  OBVIOUS
<1>1. CASE UNCHANGED vars \/ Aside
  BY <1>1, AsideKeeps DEF Unsent, handlers
<1>2. ASSUME NEW s \in Sub, Send(s) PROVE Unsent'
  <2>1. /\ attempt' = [attempt EXCEPT ![s] = @ + 1]
        /\ pc' = [pc EXCEPT ![<<s, attempt[s] + 1>>] = "find"]
        /\ attempt[s] \in Nat /\ attempt \in [Sub -> 0..MaxAttempts]
        /\ pc \in [Request -> Running \cup {"unsent", "answered", "error", "dead"}]
    BY <1>2, SubmissionAssumption DEF Send, ClientTypes, HandlerTypes
  <2> SUFFICES ASSUME NEW t \in Sub, NEW n \in 1..MaxAttempts, n > attempt'[t]
               PROVE  pc'[<<t, n>>] = "unsent"
    BY DEF Unsent
  <2>2. n > attempt[t] /\ <<t, n>> # <<s, attempt[s] + 1>>
    <3>1. CASE t = s
      BY <2>1, <3>1, SubmissionAssumption
    <3>2. CASE t # s
      BY <2>1, <3>2
    <3> QED
      BY <3>1, <3>2
  <2> QED
    BY <2>1, <2>2, Requests DEF Unsent
<1>3. ASSUME NEW r \in Request, HandlerStep(r) \/ Die(r) PROVE Unsent'
  <2>1. attempt' = attempt
    BY <1>3, HandlersKeep DEF submitted
  <2>2. pc[r] # "unsent" /\ \A q \in Request : q # r => pc'[q] = pc[q]
    BY <1>3 DEF HandlerTypes, HandlerStep, Find, Converse, Lookup, Insert, AppendCreated,
                AppendDelegated, Die, Goto, Running
  <2> QED
    BY <2>1, <2>2, Requests DEF Unsent
<1> QED
  BY <1>1, <1>2, <1>3, NextSteps

\* Every step keeps OwnTask.
LEMMA OwnTaskNext == HandlerTypes /\ OwnTask /\ [Next]_vars => OwnTask'
<1> SUFFICES ASSUME HandlerTypes, OwnTask, [Next]_vars PROVE OwnTask'
  OBVIOUS
<1>1. CASE UNCHANGED vars \/ Aside
  BY <1>1, AsideKeeps DEF OwnTask, handlers, kinds
<1>2. ASSUME NEW s \in Sub, Send(s) PROVE OwnTask'
  BY <1>2 DEF Send, OwnTask, kinds
<1>3. ASSUME NEW r \in Request, HandlerStep(r) \/ Die(r) PROVE OwnTask'
  <2>1. keyed' = keyed
    BY <1>3, HandlersKeep DEF kinds
  <2>2. \/ task' = task
        \/ r[1] \in keyed /\ \E t \in TasksOf(r[1]) : task' = [task EXCEPT ![r] = t]
        \/ task' = [task EXCEPT ![r] = r]
    BY <1>3 DEF HandlerStep, Find, Converse, Lookup, Insert, AppendCreated, AppendDelegated, Die
  <2> QED
    BY <2>1, <2>2 DEF OwnTask, HandlerTypes, TasksOf
<1> QED
  BY <1>1, <1>2, <1>3, NextSteps

\* Only an insert adds a task: with a key, the first of its submission.
LEMMA TasksGrow ==
  ASSUME [Next]_vars
  PROVE  \/ tasks' = tasks
         \/ \E r \in Request : Insert(r) /\ tasks' = tasks \cup {r}
                               /\ (r[1] \in keyed => TasksOf(r[1]) = {})
<1>1. ASSUME UNCHANGED vars \/ Aside PROVE tasks' = tasks
  BY <1>1, AsideKeeps DEF tables
<1>2. ASSUME NEW s \in Sub, Send(s) PROVE tasks' = tasks
  BY <1>2 DEF Send, tables
<1>3. ASSUME NEW r \in Request, Find(r) \/ Converse(r) \/ Lookup(r) \/ AppendCreated(r)
                                \/ AppendDelegated(r) \/ Die(r)
      PROVE  tasks' = tasks
  BY <1>3 DEF Find, Converse, Lookup, AppendCreated, AppendDelegated, Die, tables
<1>4. ASSUME NEW r \in Request, Insert(r)
      PROVE  \/ tasks' = tasks
             \/ tasks' = tasks \cup {r} /\ (r[1] \in keyed => TasksOf(r[1]) = {})
  BY <1>4 DEF Insert
<1> QED
  BY <1>1, <1>2, <1>3, <1>4, NextSteps DEF HandlerStep

\* A submission has a key or has none for good.
LEMMA KeysKept == [Next]_vars => keyed' = keyed
BY NextSteps, AsideKeeps, HandlersKeep DEF Send, kinds

\* Every step keeps one task to a key: the unique constraint refuses a second.
LEMMA OneTaskNext == OneTask /\ [Next]_vars => OneTask'
BY TasksGrow, KeysKept DEF OneTask, TasksOf

\* The history of a submission only grows.
LEMMA HistoryGrows == [Next]_vars => overlapped \subseteq overlapped' /\ broken \subseteq broken'
<1>1. ASSUME NEW s \in Sub, Send(s) PROVE UNCHANGED <<overlapped, broken>>
  BY <1>1 DEF Send, history
<1>2. ASSUME NEW r \in Request, HandlerStep(r) \/ Die(r)
      PROVE  overlapped \subseteq overlapped' /\ broken \subseteq broken'
  BY <1>2 DEF HandlerStep, Find, Converse, Lookup, Insert, AppendCreated, AppendDelegated, Die, history
<1> QED
  BY <1>1, <1>2, NextSteps, AsideKeeps

\* A step that lets no handler begin and adds no task leaves the lone ones alone.
LEMMA StillAlone ==
  ASSUME Alone, keyed' = keyed, tasks' = tasks, overlapped \subseteq overlapped',
         \A q \in Request : pc'[q] \in BeforeInsert => pc[q] \in BeforeInsert
  PROVE  Alone'
BY DEF Alone, TasksOf

\* Every step keeps Alone: only a handler that found no task goes on to insert one.
LEMMA AloneNext == HandlerTypes /\ Alone /\ [Next]_vars => Alone'
<1> SUFFICES ASSUME HandlerTypes, Alone, [Next]_vars PROVE Alone'
  OBVIOUS
<1>1. keyed' = keyed /\ overlapped \subseteq overlapped'
  BY KeysKept, HistoryGrows
<1>2. CASE UNCHANGED vars \/ Aside
  BY <1>1, <1>2, AsideKeeps, StillAlone DEF handlers, tables
<1>3. ASSUME NEW s \in Sub, Send(s) PROVE Alone'
  BY <1>1, <1>3, StillAlone DEF Send, HandlerTypes, BeforeInsert, tables
<1>4. ASSUME NEW r \in Request, Find(r) PROVE Alone'
  <2>1. tasks' = tasks
    BY <1>4 DEF Find, tables
  <2>2. CASE Goto(r, "answered")
    BY <1>1, <2>1, <2>2, StillAlone DEF HandlerTypes, BeforeInsert, Goto
  <2>3. CASE /\ r[1] \notin keyed \/ TasksOf(r[1]) = {}
             /\ Goto(r, "converse")
             /\ overlapped' = IF Before(r[1]) # {} THEN overlapped \cup {r[1]} ELSE overlapped
    <3>1. \A q \in Request : q # r => pc'[q] = pc[q]
      BY <2>3 DEF HandlerTypes, Goto
    <3>2. r[1] \notin overlapped' => \A q \in Request : q[1] = r[1] => pc[q] \notin BeforeInsert
      BY <2>3 DEF Before, BeforeInsert
    <3>3. TasksOf(r[1])' = TasksOf(r[1])
      BY <2>1 DEF TasksOf
    <3>4. ASSUME NEW p \in Request, p[1] \notin overlapped', pc'[p] \in BeforeInsert
          PROVE  /\ \A q \in Request : q[1] = p[1] /\ pc'[q] \in BeforeInsert => q = p
                 /\ p[1] \in keyed' => {t \in tasks' : t[1] = p[1]} = {}
      <4>1. CASE p = r
        BY <1>1, <2>1, <2>3, <3>1, <3>2, <3>4, <4>1 DEF TasksOf
      <4>2. CASE p # r
        <5>1. p[1] \notin overlapped /\ pc[p] \in BeforeInsert
          BY <1>1, <3>1, <3>4, <4>2
        <5>2. p[1] # r[1]
          BY <3>2, <3>4, <5>1
        <5> QED
          BY <1>1, <2>1, <3>1, <5>1, <5>2 DEF Alone, TasksOf
      <4> QED
        BY <4>1, <4>2
    <3> QED
      BY <3>4 DEF Alone, TasksOf
  <2> QED
    BY <1>4, <2>2, <2>3 DEF Find
<1>5. ASSUME NEW r \in Request, Converse(r) \/ Lookup(r) \/ AppendCreated(r) \/ AppendDelegated(r) \/ Die(r)
      PROVE  Alone'
  <2>1. tasks' = tasks
    BY <1>5 DEF Converse, Lookup, AppendCreated, AppendDelegated, Die, tables
  <2>2. \A q \in Request : pc'[q] \in BeforeInsert => pc[q] \in BeforeInsert
    BY <1>5 DEF Converse, Lookup, AppendCreated, AppendDelegated, Die, Goto, HandlerTypes, BeforeInsert
  <2> QED
    BY <1>1, <2>1, <2>2, StillAlone
<1>6. ASSUME NEW r \in Request, Insert(r) PROVE Alone'
  <2>1. /\ pc[r] \in BeforeInsert /\ overlapped' = overlapped
        /\ tasks' = tasks \/ tasks' = tasks \cup {r}
        /\ \A q \in Request : q # r => pc'[q] = pc[q]
        /\ pc'[r] \notin BeforeInsert
    BY <1>6 DEF Insert, BeforeInsert, Goto, HandlerTypes, history
  <2>2. ASSUME NEW p \in Request, p[1] \notin overlapped', pc'[p] \in BeforeInsert
        PROVE  /\ \A q \in Request : q[1] = p[1] /\ pc'[q] \in BeforeInsert => q = p
               /\ p[1] \in keyed' => {t \in tasks' : t[1] = p[1]} = {}
    <3>1. p # r /\ p[1] \notin overlapped /\ pc[p] \in BeforeInsert
      BY <2>1, <2>2
    <3>2. p[1] # r[1]
      BY <2>1, <3>1 DEF Alone
    <3> QED
      BY <1>1, <2>1, <3>1, <3>2 DEF Alone, TasksOf
  <2> QED
    BY <2>2 DEF Alone, TasksOf
<1> QED
  BY <1>2, <1>3, <1>4, <1>5, <1>6, NextSteps DEF HandlerStep

\* Every step keeps the count of each task's events.
LEMMA CountedNext ==
  ClientTypes /\ HandlerTypes /\ Unsent /\ OwnTask /\ Alone /\ Counted /\ [Next]_vars => Counted'
<1> SUFFICES ASSUME ClientTypes, HandlerTypes, Unsent, OwnTask, Alone, Counted, [Next]_vars,
                    NEW q \in Request, q[1] \notin overlapped'
             PROVE  /\ pc'[q] \in {"created", "delegated"} => task'[q] = q
                    /\ created'[q] <= 1 /\ delegated'[q] <= 1
                    /\ pc'[q] \in {"unsent", "find", "created"} \cup BeforeInsert => created'[q] = 0
                    /\ pc'[q] \in {"unsent", "find", "created", "delegated"} \cup BeforeInsert
                         => delegated'[q] = 0
  BY DEF Counted
<1>1. q[1] \notin overlapped
  BY HistoryGrows
<1>2. /\ pc[q] \in {"created", "delegated"} => task[q] = q
      /\ created[q] <= 1 /\ delegated[q] <= 1
      /\ pc[q] \in {"unsent", "find", "created"} \cup BeforeInsert => created[q] = 0
      /\ pc[q] \in {"unsent", "find", "created", "delegated"} \cup BeforeInsert => delegated[q] = 0
  BY <1>1 DEF Counted
<1>3. CASE UNCHANGED vars \/ Aside
  BY <1>2, <1>3, AsideKeeps DEF handlers, tables
<1>4. ASSUME NEW s \in Sub, Send(s) PROVE pc'[q] = pc[q] \/ (pc[q] = "unsent" /\ pc'[q] = "find")
  <2>1. attempt[s] + 1 \in 1..MaxAttempts /\ attempt[s] + 1 > attempt[s]
    BY <1>4, SubmissionAssumption DEF Send, ClientTypes
  <2>2. pc[<<s, attempt[s] + 1>>] = "unsent"
    BY <2>1 DEF Unsent
  <2> QED
    BY <1>4, <2>2 DEF Send, HandlerTypes
<1>5. ASSUME NEW s \in Sub, Send(s) PROVE UNCHANGED <<task, created, delegated>>
  BY <1>5 DEF Send, tables
<1>6. ASSUME NEW r \in Request, Find(r) \/ Converse(r) \/ Lookup(r) \/ Insert(r) \/ Die(r)
      PROVE  /\ UNCHANGED <<created, delegated>>
             /\ q # r => UNCHANGED <<pc[q], task[q]>>
             /\ q = r => \/ pc'[q] \in {"answered", "error", "dead"}
                         \/ pc[q] \in {"find"} \cup BeforeInsert /\ pc'[q] \in BeforeInsert
                         \/ pc[q] \in BeforeInsert /\ pc'[q] = "created" /\ task'[q] = q
  <2>1. CASE Find(r)
    BY <2>1 DEF Find, Goto, HandlerTypes, BeforeInsert, tables
  <2>2. CASE Converse(r)
    BY <2>2 DEF Converse, Goto, HandlerTypes, BeforeInsert
  <2>3. CASE Lookup(r)
    <3>1. q = r => ~(r[1] \in keyed /\ TasksOf(r[1]) # {})
      BY <1>1, <2>3 DEF Alone, Lookup, BeforeInsert
    <3> QED
      BY <2>3, <3>1 DEF Lookup, Goto, HandlerTypes, BeforeInsert, tables
  <2>4. CASE Insert(r)
    BY <2>4 DEF Insert, Goto, HandlerTypes, BeforeInsert
  <2>5. CASE Die(r)
    BY <2>5 DEF Die, Goto, HandlerTypes, tables
  <2> QED
    BY <1>6, <2>1, <2>2, <2>3, <2>4, <2>5
<1>7. ASSUME NEW r \in Request, AppendCreated(r) \/ AppendDelegated(r)
      PROVE  /\ task' = task /\ pc[r] \in {"created", "delegated"}
             /\ q # r => pc'[q] = pc[q] /\ UNCHANGED <<created[q], delegated[q]>>
  <2>1. /\ task' = task /\ pc[r] \in {"created", "delegated"}
        /\ q # r => pc'[q] = pc[q]
        /\ q # task[r] => UNCHANGED <<created[q], delegated[q]>>
    BY <1>7 DEF AppendCreated, AppendDelegated, Goto, HandlerTypes
  <2>2. task[r] # None
    BY <2>1 DEF HandlerTypes, HasTask
  <2>3. q = task[r] => q = r
    BY <1>1, <2>1, <2>2 DEF OwnTask, Counted
  <2> QED
    BY <2>1, <2>3
<1>8. CASE AppendCreated(q)
  <2>1. /\ pc[q] = "created" /\ task[q] = q /\ created[q] = 0 /\ delegated[q] = 0
    BY <1>2, <1>8 DEF AppendCreated
  <2>2. /\ created' = [created EXCEPT ![q] = @ + 1] /\ UNCHANGED <<task, delegated>>
        /\ pc'[q] \in {"delegated", "answered"}
    BY <1>8, <2>1 DEF AppendCreated, Goto, HandlerTypes
  <2> QED
    BY <2>1, <2>2 DEF HandlerTypes, BeforeInsert
<1>9. CASE AppendDelegated(q)
  <2>1. /\ pc[q] = "delegated" /\ task[q] = q /\ delegated[q] = 0
    BY <1>2, <1>9 DEF AppendDelegated
  <2>2. /\ delegated' = [delegated EXCEPT ![q] = @ + 1] /\ UNCHANGED <<task, created>>
        /\ pc'[q] = "answered"
    BY <1>9, <2>1 DEF AppendDelegated, Goto, HandlerTypes
  <2> QED
    BY <1>2, <2>1, <2>2 DEF HandlerTypes, BeforeInsert
<1>10. CASE \E s \in Sub : Send(s)
  BY <1>2, <1>4, <1>5, <1>10 DEF BeforeInsert
<1>11. ASSUME NEW r \in Request, Find(r) \/ Converse(r) \/ Lookup(r) \/ Insert(r) \/ Die(r)
       PROVE  /\ pc'[q] \in {"created", "delegated"} => task'[q] = q
              /\ created'[q] <= 1 /\ delegated'[q] <= 1
              /\ pc'[q] \in {"unsent", "find", "created"} \cup BeforeInsert => created'[q] = 0
              /\ pc'[q] \in {"unsent", "find", "created", "delegated"} \cup BeforeInsert
                   => delegated'[q] = 0
  BY <1>2, <1>6, <1>11 DEF BeforeInsert
<1>12. ASSUME NEW r \in Request, r # q, AppendCreated(r) \/ AppendDelegated(r)
       PROVE  /\ pc'[q] = pc[q] /\ task' = task /\ UNCHANGED <<created[q], delegated[q]>>
  BY <1>7, <1>12
<1> QED
  BY <1>2, <1>3, <1>8, <1>9, <1>10, <1>11, <1>12, NextSteps DEF HandlerStep

\* Every step keeps Messages: after its message a handler goes on to its task.
LEMMA MessagesNext ==
  ClientTypes /\ HandlerTypes /\ Unsent /\ Alone /\ Messages /\ [Next]_vars => Messages'
<1> SUFFICES ASSUME ClientTypes, HandlerTypes, Unsent, Alone, Messages, [Next]_vars,
                    NEW q \in messages', q[1] \notin overlapped' \cup broken'
             PROVE  q \in tasks' \/ pc'[q] \in {"lookup", "insert"}
  BY DEF Messages
<1>1. q[1] \notin overlapped \cup broken /\ tasks \subseteq tasks'
  BY HistoryGrows, TasksGrow
<1>2. q \in messages => q \in Request /\ (q \in tasks \/ pc[q] \in {"lookup", "insert"})
  BY <1>1 DEF Messages, HandlerTypes
<1>3. CASE UNCHANGED vars \/ Aside
  BY <1>1, <1>2, <1>3, AsideKeeps DEF handlers, tables
<1>4. ASSUME NEW s \in Sub, Send(s) PROVE q \in tasks' \/ pc'[q] \in {"lookup", "insert"}
  <2>1. pc[<<s, attempt[s] + 1>>] = "unsent"
    <3>1. attempt[s] + 1 \in 1..MaxAttempts /\ attempt[s] + 1 > attempt[s]
      BY <1>4, SubmissionAssumption DEF Send, ClientTypes
    <3> QED
      BY <3>1 DEF Unsent
  <2>2. /\ pc' = [pc EXCEPT ![<<s, attempt[s] + 1>>] = "find"] /\ UNCHANGED <<messages, tasks>>
    BY <1>4 DEF Send, tables
  <2> QED
    BY <1>2, <2>1, <2>2 DEF HandlerTypes
<1>5. ASSUME NEW r \in Request, HandlerStep(r) \/ Die(r), r # q
      PROVE  q \in tasks' \/ pc'[q] \in {"lookup", "insert"}
  <2>1. q \in messages
    BY <1>5 DEF HandlerStep, Find, Converse, Lookup, Insert, AppendCreated, AppendDelegated, Die, tables
  <2>2. pc'[q] = pc[q]
    BY <1>2, <1>5, <2>1 DEF HandlerTypes, Goto, HandlerStep, Find, Converse, Lookup, Insert,
                            AppendCreated, AppendDelegated, Die
  <2> QED
    BY <1>1, <1>2, <2>1, <2>2
<1>6. CASE Converse(q) /\ q \in Request
  BY <1>6 DEF Converse, Goto, HandlerTypes
<1>7. CASE Lookup(q) /\ q \in Request
  <2>1. ~(q[1] \in keyed /\ TasksOf(q[1]) # {})
    BY <1>1, <1>7 DEF Alone, Lookup, BeforeInsert
  <2> QED
    BY <1>7, <2>1 DEF Lookup, Goto, HandlerTypes
<1>8. CASE Insert(q) /\ q \in Request
  <2>1. ~(q[1] \in keyed /\ TasksOf(q[1]) # {})
    BY <1>1, <1>8 DEF Alone, Insert, BeforeInsert
  <2> QED
    BY <1>8, <2>1 DEF Insert
<1>9. CASE Die(q) /\ q \in Request
  BY <1>9 DEF Die
<1>10. CASE (Find(q) \/ AppendCreated(q) \/ AppendDelegated(q)) /\ q \in Request
  BY <1>1, <1>2, <1>10 DEF Find, AppendCreated, AppendDelegated, tables
<1> QED
  BY <1>3, <1>4, <1>5, <1>6, <1>7, <1>8, <1>9, <1>10, NextSteps DEF HandlerStep

----------------------------------------------------------------------------
(* The routines.                                                           *)

\* The steps that move the routines, or the clock.
LEMMA RoutineSteps ==
  ASSUME [Next]_vars
  PROVE  \/ UNCHANGED routines
         \/ Tick
         \/ \E r \in Routine : ArchiveBot(r)
         \/ \E x \in Scheduler : Select(x) \/ Dispatch(x) \/ SchedulerDies(x)
BY NextSteps, RoutinesKept, HandlersKeep DEF Aside, SchedulerStep, vars

\* Every step keeps Locks: only a due row that nobody holds is taken.
LEMMA LocksNext == RoutineTypes /\ Locks /\ [Next]_vars => Locks'
<1> SUFFICES ASSUME RoutineTypes, Locks, [Next]_vars PROVE Locks'
  OBVIOUS
<1>1. CASE UNCHANGED routines
  BY <1>1 DEF routines, Locks
<1>2. CASE Tick
  <2>1. now' = now + 1 /\ UNCHANGED <<next, enabled, locked>>
    BY <1>2 DEF Tick
  <2>2. \A r \in Routine : next[r] <= now => next[r] <= now + 1
    BY DEF RoutineTypes
  <2> QED
    BY <2>1, <2>2 DEF Locks, RoutineTypes
<1>3. ASSUME NEW r \in Routine, ArchiveBot(r) PROVE Locks'
  BY <1>3 DEF ArchiveBot, Locks
<1>4. ASSUME NEW x \in Scheduler, Select(x) PROVE Locks'
  <2>1. PICK due : /\ due \subseteq Routine
                   /\ \A r \in due : enabled[r] /\ next[r] <= now
                   /\ \A r \in due, y \in Scheduler : r \notin locked[y]
                   /\ locked' = [locked EXCEPT ![x] = due]
    BY <1>4 DEF Select
  <2>2. UNCHANGED <<now, next, enabled>>
    BY <1>4 DEF Select
  <2> QED
    BY <2>1, <2>2 DEF Locks, RoutineTypes
<1>5. ASSUME NEW x \in Scheduler, Dispatch(x) PROVE Locks'
  <2>1. /\ locked' = [locked EXCEPT ![x] = {}] /\ now' = now
        /\ next' = [r \in Routine |-> IF r \in locked[x] THEN next[r] + 1 ELSE next[r]]
        /\ enabled' = [r \in Routine |-> enabled[r] /\ r \notin locked[x] \cap archived]
    BY <1>5 DEF Dispatch
  <2>2. ASSUME NEW y \in Scheduler, NEW r \in locked'[y]
        PROVE  /\ y # x /\ r \in locked[y] /\ r \in Routine /\ r \notin locked[x]
               /\ locked'[y] = locked[y]
    BY <2>1, <2>2 DEF Locks, RoutineTypes
  <2>3. ASSUME NEW y \in Scheduler, NEW r \in locked'[y]
        PROVE  enabled'[r] /\ next'[r] <= now'
    BY <2>1, <2>2, <2>3 DEF Locks, RoutineTypes
  <2>4. \A y \in Scheduler : locked'[y] \subseteq locked[y]
    BY <2>1 DEF RoutineTypes
  <2> QED
    BY <2>2, <2>3, <2>4 DEF Locks
<1>6. ASSUME NEW x \in Scheduler, SchedulerDies(x) PROVE Locks'
  BY <1>6 DEF SchedulerDies, Locks, RoutineTypes
<1> QED
  BY <1>1, <1>2, <1>3, <1>4, <1>5, <1>6, RoutineSteps

\* Every step keeps Occurrences: a routine moves on by one occurrence, with its task.
LEMMA OccurrencesNext == RoutineTypes /\ Locks /\ Occurrences /\ [Next]_vars => Occurrences'
<1> SUFFICES ASSUME RoutineTypes, Locks, Occurrences, [Next]_vars PROVE Occurrences'
  OBVIOUS
<1>1. CASE UNCHANGED <<now, next, enabled, runs>>
  BY <1>1 DEF Occurrences, Dispatched
<1>2. CASE Tick
  <2>1. now' = now + 1 /\ UNCHANGED <<next, enabled, runs>>
    BY <1>2 DEF Tick
  <2>2. \A r \in Routine : next[r] <= now + 1 => next[r] <= now + 1 + 1
    BY DEF RoutineTypes
  <2> QED
    BY <2>1, <2>2 DEF Occurrences, Dispatched
<1>3. ASSUME NEW x \in Scheduler, Dispatch(x) PROVE Occurrences'
  <2>1. /\ next' = [r \in Routine |-> IF r \in locked[x] THEN next[r] + 1 ELSE next[r]]
        /\ enabled' = [r \in Routine |-> enabled[r] /\ r \notin locked[x] \cap archived]
        /\ runs' = runs \cup {<<r, next[r]>> : r \in locked[x] \ archived}
        /\ now' = now
    BY <1>3 DEF Dispatch
  <2>2. ASSUME NEW r \in Routine, r \notin locked[x]
        PROVE  /\ next'[r] = next[r] /\ enabled'[r] = enabled[r]
               /\ \A o \in Nat \ {0} : <<r, o>> \in runs' <=> <<r, o>> \in runs
    BY <2>1, <2>2 DEF RoutineTypes
  <2>3. ASSUME NEW r \in Routine, r \in locked[x] \ archived
        PROVE  /\ next'[r] = next[r] + 1 /\ enabled[r] /\ enabled'[r] /\ next[r] <= now
               /\ \A o \in Nat \ {0} : <<r, o>> \in runs' <=> <<r, o>> \in runs \/ o = next[r]
    BY <2>1, <2>3 DEF RoutineTypes, Locks
  <2>4. ASSUME NEW r \in Routine, r \in locked[x] \cap archived
        PROVE  /\ next'[r] = next[r] + 1 /\ enabled[r] /\ ~enabled'[r] /\ next[r] <= now
               /\ \A o \in Nat \ {0} : <<r, o>> \in runs' <=> <<r, o>> \in runs
    <3>1. next'[r] = next[r] + 1 /\ enabled[r] /\ ~enabled'[r] /\ next[r] <= now
      BY <2>1, <2>4 DEF RoutineTypes, Locks
    <3>2. \A o \in Nat \ {0} : <<r, o>> \in runs' <=> <<r, o>> \in runs
      BY <2>1, <2>4
    <3> QED
      BY <3>1, <3>2
  <2> SUFFICES ASSUME NEW r \in Routine
               PROVE  /\ next'[r] <= now + 1
                      /\ \A o \in Nat \ {0} :
                           <<r, o>> \in runs' <=> o <= (IF enabled'[r] THEN next'[r] - 1 ELSE next'[r] - 2)
    BY <2>1 DEF Occurrences, Dispatched
  <2>5. /\ next[r] \in Nat \ {0} /\ now \in Nat /\ next[r] <= now + 1
        /\ \A o \in Nat \ {0} : <<r, o>> \in runs <=> o <= (IF enabled[r] THEN next[r] - 1 ELSE next[r] - 2)
    BY DEF RoutineTypes, Occurrences, Dispatched
  <2>6. CASE r \notin locked[x]
    BY <2>2, <2>5, <2>6
  <2>7. CASE r \in locked[x] \ archived
    BY <2>3, <2>5, <2>7
  <2>8. CASE r \in locked[x] \cap archived
    BY <2>4, <2>5, <2>8
  <2> QED
    BY <2>6, <2>7, <2>8
<1>4. ASSUME \/ \E r \in Routine : ArchiveBot(r)
             \/ \E x \in Scheduler : Select(x) \/ SchedulerDies(x)
             \/ UNCHANGED routines
      PROVE  UNCHANGED <<now, next, enabled, runs>>
  BY <1>4 DEF ArchiveBot, Select, SchedulerDies, routines
<1> QED
  BY <1>1, <1>2, <1>3, <1>4, RoutineSteps

----------------------------------------------------------------------------
(* The theorems.                                                           *)

\* The invariant holds at the start.
LEMMA InvariantInit == Init => IInv
<1> SUFFICES ASSUME Init PROVE IInv
  OBVIOUS
<1>1. TypeOK
  BY TypeInit
<1>2. Unsent /\ OwnTask /\ Alone /\ Counted
  BY Requests DEF Init, Unsent, OwnTask, Alone, Counted, BeforeInsert
<1>3. OneTask /\ Messages
  BY DEF Init, OneTask, Messages, TasksOf
<1>4. Locks
  BY DEF Init, Locks
<1>5. Occurrences
  <2>1. \A r \in Routine : next[r] = 1 /\ enabled[r] = TRUE
    BY DEF Init
  <2>2. runs = {} /\ now = 0
    BY DEF Init
  <2> QED
    BY <2>1, <2>2 DEF Occurrences, Dispatched
<1> QED
  BY <1>1, <1>2, <1>3, <1>4, <1>5 DEF IInv

\* IInv holds in every state: who holds which task, which handler is alone, which events
\* were written, and which occurrences were dispatched.
THEOREM SubmissionInvariant == Spec => []IInv
<1>1. Init => IInv
  BY InvariantInit
<1>2. IInv /\ [Next]_vars => IInv'
  BY TypeNext, Types, UnsentNext, OwnTaskNext, OneTaskNext, AloneNext, CountedNext, MessagesNext,
     LocksNext, OccurrencesNext DEF IInv
<1> QED
  BY <1>1, <1>2, PTL DEF Spec

\* Every variable has its type; a handler that has a task holds one that exists.
THEOREM SubmissionTypes == Spec => []TypeOK
<1>1. IInv => TypeOK
  BY DEF IInv
<1> QED
  BY <1>1, SubmissionInvariant, PTL

\* However often a request with a key is repeated and whoever dies, its answers name one
\* task and there is no other.
THEOREM OneKeyOneTask == Spec => []AnswersAgree
<1>1. ASSUME IInv PROVE AnswersAgree
  <2>1. HandlerTypes /\ OwnTask /\ OneTask
    BY <1>1, Types DEF IInv
  <2>2. ASSUME NEW s \in keyed, NEW r \in Request, r[1] = s, pc[r] = "answered"
        PROVE  TasksOf(s) = {task[r]}
    <3>1. task[r] \in TasksOf(s)
      BY <2>1, <2>2 DEF HandlerTypes, HasTask, OwnTask, TasksOf
    <3> QED
      BY <2>1, <3>1 DEF OneTask
  <2> QED
    BY <2>1, <2>2 DEF OneTask, AnswersAgree
<1> QED
  BY <1>1, SubmissionInvariant, PTL

\* A submission whose handlers were not in each other's way and did not die leaves no
\* message without its task, and no task has an event twice.
THEOREM NothingLeftOver == Spec => []NoLeftovers
<1>1. ASSUME IInv PROVE NoLeftovers
  <2>1. Messages /\ Counted
    BY <1>1 DEF IInv
  <2> QED
    BY <2>1 DEF Messages, Counted, NoLeftovers, Running
<1> QED
  BY <1>1, SubmissionInvariant, PTL

\* Whichever scheduler dies, the occurrences that became tasks are all up to the
\* routine's next one, and none is ahead of its time.
THEOREM NoOccurrenceSkipped == Spec => []EveryOccurrence
<1>1. ASSUME IInv, NEW r \in Routine
      PROVE  /\ {o \in 1..now : <<r, o>> \in runs} = 1..(IF enabled[r] THEN next[r] - 1 ELSE next[r] - 2)
             /\ \A run \in runs : run[1] = r => run[2] <= now
  <2>1. /\ now \in Nat /\ next[r] \in Nat \ {0} /\ next[r] <= now + 1
        /\ runs \subseteq Routine \X (Nat \ {0})
    BY <1>1 DEF IInv, TypeOK, Occurrences
  <2>2. PICK k \in Int : k = Dispatched(r) /\ k <= now
    BY <2>1 DEF Dispatched
  <2>3. \A o \in Nat \ {0} : <<r, o>> \in runs <=> o <= k
    BY <1>1, <2>2 DEF IInv, Occurrences
  <2>4. {o \in 1..now : <<r, o>> \in runs} = 1..k
    BY <2>1, <2>2, <2>3
  <2>5. ASSUME NEW run \in runs, run[1] = r PROVE run[2] <= now
    <3>1. run = <<r, run[2]>> /\ run[2] \in Nat \ {0}
      BY <2>1, <2>5
    <3> QED
      BY <2>1, <2>2, <2>3, <3>1
  <2> QED
    BY <2>2, <2>4, <2>5 DEF Dispatched
<1>2. IInv => EveryOccurrence
  BY <1>1 DEF EveryOccurrence
<1> QED
  BY <1>2, SubmissionInvariant, PTL

----------------------------------------------------------------------------
(* The events of a task that was answered: the safety half of              *)
(* AnsweredIsRecorded.                                                     *)

\* The task has its events, or the handler that inserted it is about to write them.
EventsFollow(t) ==
  /\ created[t] > 0 \/ pc[t] = "created"
  /\ t[1] \in delegations => delegated[t] > 0 \/ pc[t] \in {"created", "delegated"}

Owed == \A t \in tasks : t[1] \in broken \/ EventsFollow(t)

\* A client that waits, or was told of a task, has sent a request, and it was told by the
\* handler of its last one.
Told ==
  \A s \in Sub :
    /\ client[s] \in {"sent", "done"} => attempt[s] > 0
    /\ client[s] = "done" => pc[Sent(s)] = "answered"

\* The client that was told of a task finds its events, or the handler that writes them
\* is alive and at it, or a handler of the submission died.
RecordedOrComing ==
  \A s \in Sub : client[s] = "done" /\ s \notin broken =>
    \E t \in tasks : t[1] = s /\ task[Sent(s)] = t /\ EventsFollow(t)

\* A handler whose request has inserted a task holds that task.
LEMMA OwnInsert ==
  ASSUME HandlerTypes, OwnTask, OneTask, NEW r \in Request, r \in tasks, pc[r] \in HasTask
  PROVE  task[r] = r
<1>1. task[r] \in tasks /\ task[r] # None
  BY DEF HandlerTypes
<1>2. CASE r[1] \in keyed
  BY <1>1, <1>2 DEF OwnTask, OneTask, TasksOf
<1>3. CASE r[1] \notin keyed
  BY <1>1, <1>3 DEF OwnTask
<1> QED
  BY <1>2, <1>3

\* Every step keeps Owed: a handler leaves its task's events only by writing them or by
\* dying.
LEMMA OwedNext == ClientTypes /\ HandlerTypes /\ Unsent /\ OwnTask /\ OneTask /\ Owed /\ [Next]_vars => Owed'
<1> SUFFICES ASSUME ClientTypes, HandlerTypes, Unsent, OwnTask, OneTask, Owed, [Next]_vars
             PROVE  Owed'
  OBVIOUS
<1>1. CASE UNCHANGED vars \/ Aside
  <2>1. UNCHANGED <<delegations, pc, tasks, created, delegated, broken>>
    BY <1>1, AsideKeeps DEF kinds, handlers, tables
  <2> QED
    BY <2>1 DEF Owed, EventsFollow
<1>2. ASSUME NEW s \in Sub, Send(s) PROVE Owed'
  <2>1. /\ UNCHANGED <<delegations, tasks, created, delegated, broken>>
        /\ pc' = [pc EXCEPT ![<<s, attempt[s] + 1>>] = "find"]
    BY <1>2 DEF Send, kinds, tables, history
  <2>2. attempt[s] + 1 \in 1..MaxAttempts
    BY <1>2, SubmissionAssumption DEF Send, ClientTypes
  <2>3. pc[<<s, attempt[s] + 1>>] = "unsent"
    BY <2>2 DEF Unsent, ClientTypes
  <2>4. \A t \in tasks : pc[t] \in {"created", "delegated"} => pc'[t] = pc[t]
    BY <2>1, <2>3 DEF HandlerTypes
  <2> QED
    BY <2>1, <2>4 DEF Owed, EventsFollow
<1>3. ASSUME NEW r \in Request, Find(r) \/ Converse(r) \/ Lookup(r) PROVE Owed'
  <2>1. /\ UNCHANGED <<delegations, tasks, created, delegated, broken>>
        /\ pc[r] \in {"find", "converse", "lookup"}
        /\ \A t \in Request : t # r => pc'[t] = pc[t]
    BY <1>3 DEF Find, Converse, Lookup, Goto, kinds, tables, history, HandlerTypes
  <2>2. \A t \in tasks : pc[t] \in {"created", "delegated"} => pc'[t] = pc[t]
    BY <2>1 DEF HandlerTypes
  <2> QED
    BY <2>1, <2>2 DEF Owed, EventsFollow
<1>4. ASSUME NEW r \in Request, Insert(r) PROVE Owed'
  <2>1. /\ UNCHANGED <<delegations, created, delegated, broken>>
        /\ pc[r] = "insert" /\ \A t \in Request : t # r => pc'[t] = pc[t]
        /\ tasks' = tasks \/ (tasks' = tasks \cup {r} /\ pc'[r] = "created")
    BY <1>4 DEF Insert, Goto, kinds, history, HandlerTypes
  <2>2. \A t \in tasks : pc[t] \in {"created", "delegated"} => pc'[t] = pc[t]
    BY <2>1 DEF HandlerTypes
  <2>3. \A t \in tasks : t[1] \in broken' \/ EventsFollow(t)'
    BY <2>1, <2>2 DEF Owed, EventsFollow
  <2> QED
    BY <2>1, <2>3 DEF Owed, EventsFollow
<1>5. ASSUME NEW r \in Request, AppendCreated(r) PROVE Owed'
  <2>1. /\ UNCHANGED <<delegations, tasks, delegated, broken>>
        /\ pc[r] = "created" /\ task[r] \in tasks /\ task[r] \in Request
        /\ created' = [created EXCEPT ![task[r]] = @ + 1]
        /\ pc' = [pc EXCEPT ![r] = IF r[1] \in delegations THEN "delegated" ELSE "answered"]
    BY <1>5 DEF AppendCreated, Goto, kinds, history, HandlerTypes, HasTask
  <2>2. \A t \in tasks : created[t] > 0 => created'[t] > 0
    BY <2>1 DEF HandlerTypes
  <2>3. ASSUME NEW t \in tasks, t # r PROVE t[1] \in broken' \/ EventsFollow(t)'
    BY <2>1, <2>2, <2>3 DEF Owed, EventsFollow, HandlerTypes
  <2>4. r \in tasks => task[r] = r
    BY <2>1, OwnInsert DEF HasTask
  <2>5. r \in tasks => EventsFollow(r)'
    BY <2>1, <2>4 DEF EventsFollow, HandlerTypes
  <2> QED
    BY <2>1, <2>3, <2>5 DEF Owed
<1>6. ASSUME NEW r \in Request, AppendDelegated(r) PROVE Owed'
  <2>1. /\ UNCHANGED <<delegations, tasks, created, broken>>
        /\ pc[r] = "delegated" /\ task[r] \in tasks /\ task[r] \in Request
        /\ delegated' = [delegated EXCEPT ![task[r]] = @ + 1]
        /\ pc' = [pc EXCEPT ![r] = "answered"]
    BY <1>6 DEF AppendDelegated, Goto, kinds, history, HandlerTypes, HasTask
  <2>2. \A t \in tasks : delegated[t] > 0 => delegated'[t] > 0
    BY <2>1 DEF HandlerTypes
  <2>3. ASSUME NEW t \in tasks, t # r PROVE t[1] \in broken' \/ EventsFollow(t)'
    BY <2>1, <2>2, <2>3 DEF Owed, EventsFollow, HandlerTypes
  <2>4. r \in tasks => task[r] = r
    BY <2>1, OwnInsert DEF HasTask
  <2>5. r \in tasks => r[1] \in broken' \/ EventsFollow(r)'
    BY <2>1, <2>4 DEF Owed, EventsFollow, HandlerTypes
  <2> QED
    BY <2>1, <2>3, <2>5 DEF Owed
<1>7. ASSUME NEW r \in Request, Die(r) PROVE Owed'
  <2>1. /\ UNCHANGED <<delegations, tasks, created, delegated>>
        /\ broken' = broken \cup {r[1]} /\ \A t \in Request : t # r => pc'[t] = pc[t]
    BY <1>7 DEF Die, Goto, kinds, tables, HandlerTypes
  <2> QED
    BY <2>1 DEF Owed, EventsFollow, HandlerTypes
<1> QED
  BY <1>1, <1>2, <1>3, <1>4, <1>5, <1>6, <1>7, NextSteps DEF HandlerStep

\* Every step keeps Told: an answered request stays answered, and a client that was told
\* sends no other.
LEMMA ToldNext == ClientTypes /\ HandlerTypes /\ Told /\ [Next]_vars => Told'
<1> SUFFICES ASSUME ClientTypes, HandlerTypes, Told, [Next]_vars, NEW s \in Sub
             PROVE  /\ client'[s] \in {"sent", "done"} => attempt'[s] > 0
                    /\ client'[s] = "done" => pc'[<<s, attempt'[s]>>] = "answered"
  BY DEF Told, Sent
<1>1. /\ client[s] \in {"sent", "done"} => attempt[s] > 0
      /\ client[s] = "done" => pc[<<s, attempt[s]>>] = "answered"
      /\ attempt[s] \in 0..MaxAttempts
  BY DEF Told, Sent, ClientTypes
<1>2. CASE UNCHANGED vars \/ Aside
  <2>1. UNCHANGED <<attempt, pc>>
    BY <1>2, AsideKeeps DEF handlers
  <2>2. client'[s] = client[s] \/ client'[s] \in {"backoff", "failed"} \/ Receive(s)
    BY <1>2 DEF vars, submitted, Aside, Lose, TimeOut, Receive, Tick, ArchiveBot, SchedulerStep,
           Select, Dispatch, SchedulerDies, ClientTypes
  <2>3. ASSUME Receive(s)
        PROVE  /\ client[s] = "sent"
               /\ client'[s] = "done" => pc[<<s, attempt[s]>>] = "answered"
    BY <2>3 DEF Receive, Sent, ClientTypes
  <2> QED
    BY <1>1, <2>1, <2>2, <2>3
<1>3. ASSUME NEW x \in Sub, Send(x)
      PROVE  /\ client'[s] \in {"sent", "done"} => attempt'[s] > 0
             /\ client'[s] = "done" => pc'[<<s, attempt'[s]>>] = "answered"
  <2>1. /\ client' = [client EXCEPT ![x] = "sent"]
        /\ attempt' = [attempt EXCEPT ![x] = @ + 1]
        /\ pc' = [pc EXCEPT ![<<x, attempt[x] + 1>>] = "find"]
    BY <1>3 DEF Send
  <2>2. CASE x = s
    BY <1>1, <2>1, <2>2 DEF ClientTypes
  <2>3. CASE x # s
    <3>1. client'[s] = client[s] /\ attempt'[s] = attempt[s]
      BY <2>1, <2>3 DEF ClientTypes
    <3>2. <<s, attempt[s]>> # <<x, attempt[x] + 1>>
      BY <2>3
    <3>3. attempt[s] > 0 => pc'[<<s, attempt[s]>>] = pc[<<s, attempt[s]>>]
      <4>1. attempt[s] > 0 => <<s, attempt[s]>> \in Request
        BY <1>1, Requests, SubmissionAssumption
      <4> QED
        BY <2>1, <3>2, <4>1 DEF HandlerTypes
    <3> QED
      BY <1>1, <3>1, <3>3
  <2> QED
    BY <2>2, <2>3
<1>4. ASSUME NEW r \in Request, HandlerStep(r) \/ Die(r)
      PROVE  /\ client'[s] \in {"sent", "done"} => attempt'[s] > 0
             /\ client'[s] = "done" => pc'[<<s, attempt'[s]>>] = "answered"
  <2>1. UNCHANGED <<client, attempt>>
    BY <1>4, HandlersKeep DEF submitted
  <2>2. pc[r] # "answered"
    BY <1>4 DEF HandlerStep, Find, Converse, Lookup, Insert, AppendCreated, AppendDelegated, Die,
           Running
  <2>3. \A q \in Request : q # r => pc'[q] = pc[q]
    BY <1>4 DEF HandlerStep, Find, Converse, Lookup, Insert, AppendCreated, AppendDelegated, Die,
           Goto, HandlerTypes
  <2>4. attempt[s] > 0 => <<s, attempt[s]>> \in Request
    BY <1>1, Requests, SubmissionAssumption
  <2> QED
    BY <1>1, <2>1, <2>2, <2>3, <2>4
<1> QED
  BY <1>2, <1>3, <1>4, NextSteps

\* Whoever dies and however often a request is repeated, the client that was told of a
\* task finds its events, or the handler that writes them is alive and at it, or a handler
\* of the submission died: an answer never comes from a handler that forgot an event.
THEOREM AnsweredHasEvents == Spec => []RecordedOrComing
<1>1. Init => IInv /\ Owed /\ Told
  <2>1. Init => Owed /\ Told
    BY DEF Init, Owed, Told
  <2> QED
    BY <2>1, InvariantInit
<1>2. IInv /\ Owed /\ Told /\ [Next]_vars => Owed' /\ Told'
  BY Types, OwedNext, ToldNext DEF IInv
<1>3. Spec => [](IInv /\ Owed /\ Told)
  BY <1>1, <1>2, SubmissionInvariant, PTL DEF Spec
<1>4. ASSUME IInv, Owed, Told PROVE RecordedOrComing
  <2> SUFFICES ASSUME NEW s \in Sub, client[s] = "done", s \notin broken
               PROVE  \E t \in tasks : t[1] = s /\ task[Sent(s)] = t /\ EventsFollow(t)
    BY DEF RecordedOrComing
  <2>1. HandlerTypes /\ ClientTypes /\ OwnTask
    BY <1>4, Types DEF IInv
  <2>2. attempt[s] > 0 /\ pc[Sent(s)] = "answered"
    BY <1>4 DEF Told
  <2>3. Sent(s) \in Request /\ Sent(s)[1] = s
    BY <2>1, <2>2, Requests, SubmissionAssumption DEF ClientTypes, Sent
  <2>4. task[Sent(s)] \in tasks /\ task[Sent(s)][1] = s
    BY <2>1, <2>2, <2>3 DEF HandlerTypes, HasTask, OwnTask
  <2> QED
    BY <1>4, <2>4 DEF Owed
<1> QED
  BY <1>3, <1>4, PTL
=============================================================================
