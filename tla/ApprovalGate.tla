---------------------------- MODULE ApprovalGate ----------------------------
(***************************************************************************)
(* What the approvals of tool calls promise a user, without workers,       *)
(* leases, sessions or rows: a task asks for one call at a time, a         *)
(* question is answered once and the answer stands, and a call is executed *)
(* at most once, after it was approved and while no question of its task   *)
(* is open.                                                                *)
(*                                                                         *)
(* A call is exposed when a race or a failure that the system does not     *)
(* survive hits its task; nothing is promised for an exposed call.         *)
(***************************************************************************)
EXTENDS Naturals

CONSTANTS
  Call,  \* calls that may be asked for
  Task,  \* tasks that may ask
  None

VARIABLES
  owner,  \* the task that asked for each call
  state,  \* the state of each question
  runs    \* executions of each call

vars == <<owner, state, runs>>

State == {"unasked", "pending", "approved", "denied", "exposed"}

Open(t) == \E c \in Call : owner[c] = t /\ state[c] = "pending"

Init ==
  /\ owner = [c \in Call |-> None]
  /\ state = [c \in Call |-> "unasked"]
  /\ runs = [c \in Call |-> 0]

Ask(c, t) ==
  /\ state[c] = "unasked" /\ ~Open(t)
  /\ owner' = [owner EXCEPT ![c] = t]
  /\ state' = [state EXCEPT ![c] = "pending"]
  /\ UNCHANGED runs

\* A question of a task that was exposed before is exposed from the start.
AskExposed(c, t) ==
  /\ state[c] = "unasked"
  /\ owner' = [owner EXCEPT ![c] = t]
  /\ state' = [state EXCEPT ![c] = "exposed"]
  /\ UNCHANGED runs

Decide(c, decision) ==
  /\ state[c] = "pending"
  /\ state' = [state EXCEPT ![c] = decision]
  /\ UNCHANGED <<owner, runs>>

Execute(c) ==
  /\ state[c] = "approved" /\ ~Open(owner[c])
  /\ runs[c] = 0
  /\ runs' = [runs EXCEPT ![c] = 1]
  /\ UNCHANGED <<owner, state>>

\* A race or a failure hits task t: its calls are exposed and no longer counted.
Expose(t) ==
  /\ state' = [c \in Call |-> IF owner[c] = t THEN "exposed" ELSE state[c]]
  /\ runs' = [c \in Call |-> IF owner[c] = t THEN 0 ELSE runs[c]]
  /\ UNCHANGED owner

\* A step that the gate does not see.
Unseen == UNCHANGED vars

Next ==
  \/ Unseen
  \/ \E c \in Call, t \in Task : Ask(c, t) \/ AskExposed(c, t)
  \/ \E c \in Call, decision \in {"approved", "denied"} : Decide(c, decision)
  \/ \E c \in Call : Execute(c)
  \/ \E t \in Task : Expose(t)

Spec == Init /\ [][Next]_vars

=============================================================================
