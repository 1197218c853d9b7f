------------------------- MODULE TaskLifecycleMC -------------------------
(* Small instances of TaskLifecycle for TLC, and what the repository's     *)
(* documents and tests say of tasks that the code does not do.             *)
EXTENDS TaskLifecycle, TLC

CONSTANTS w1, w2, t1, t2, r1, r2

Symmetry == Permutations(Worker) \cup Permutations(Request)

\* With one task nothing is said of a behaviour once the task was overlapped, and
\* a fault is never forgotten: such behaviours need not be followed.
NotOverlapped == \A t \in Task : "overlap" \notin faults[t]

\* Users leave the blank tasks alone, which only go round.
BlankLeftAlone == \A r \in Request : req[r].task \notin Blank

\* tests/domain/test_task_state.py: a succeeded or cancelled task takes no new work.
TerminalIsFinal ==
  [][\A t \in Task : row[t].status \in {"succeeded", "cancelled"} =>
       row'[t].status = row[t].status]_vars

\* docs/architecture.md: lease owner and expiry handle worker crashes.  A running
\* task that lost its worker before the model answered gets one again or ends.
CrashIsRecovered ==
  \A t \in Task :
    row[t].status = "running" /\ "model_response" \notin log[t] ~>
      row[t].status # "running" \/ "model_response" \in log[t]

\* docs/architecture.md: after the user's approval the worker executes exactly the
\* call that waited for it.
ApprovedCallIsRun ==
  \A w \in Worker : pc[w] = "tool" => mem[w].call = mem[w].grant
=============================================================================
