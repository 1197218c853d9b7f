-------------------------- MODULE AgentLoopProofs --------------------------
(***************************************************************************)
(* Proofs about AgentLoop, for every set of calls, risks and rules, every  *)
(* step limit and every number of calls in a response and of fallbacks.    *)
(***************************************************************************)
EXTENDS AgentLoop, TLAPS

----------------------------------------------------------------------------
(* Lemmas.                                                                 *)

\* What is appended to a sequence is added to its elements.
LEMMA ElementsOfAppend ==
  ASSUME NEW S, NEW s \in Seq(S), NEW e \in S
  PROVE  Elements(Append(s, e)) = Elements(s) \cup {e}
<1>1. /\ Append(s, e) \in Seq(S)
      /\ DOMAIN Append(s, e) = 1..(Len(s) + 1) /\ DOMAIN s = 1..Len(s) /\ Len(s) \in Nat
      /\ Append(s, e)[Len(s) + 1] = e
      /\ \A i \in 1..Len(s) : Append(s, e)[i] = s[i]
  OBVIOUS
<1>2. 1..(Len(s) + 1) = 1..Len(s) \cup {Len(s) + 1}
  BY <1>1
<1> QED
  BY <1>1, <1>2 DEF Elements

\* The elements of a sequence over S are in S.
LEMMA ElementsType ==
  ASSUME NEW S, NEW s \in Seq(S)
  PROVE  Elements(s) \subseteq S
  BY DEF Elements

\* Append, Head and Tail keep to the set a sequence is over.
LEMMA SeqTypes ==
  ASSUME NEW S, NEW s \in Seq(S)
  PROVE  /\ \A e \in S : Append(s, e) \in Seq(S) /\ <<e>> \in Seq(S)
         /\ s # <<>> => Head(s) \in S /\ Tail(s) \in Seq(S)
  OBVIOUS

\* A response has at most MaxCalls calls.
LEMMA ResponseType ==
  ASSUME NEW calls \in Response
  PROVE  Len(calls) \in 1..MaxCalls /\ \A k \in 1..Len(calls) : calls[k] \in Call
<1>1. PICK n \in 1..MaxCalls : calls \in [1..n -> Call]
  BY DEF Response
<1>2. calls \in Seq(Call) /\ Len(calls) = n
  BY <1>1, LoopAssumption
<1> QED
  BY <1>1, <1>2

----------------------------------------------------------------------------
(* Type correctness.                                                       *)

\* A response with calls is never the last step's; a task that waits waits for the
\* call its run stopped at.
Linked ==
  /\ pc = "calls" => step < MaxSteps
  /\ pc \in {"waiting", "resume"} =>
       step < MaxSteps /\ pos <= MaxCalls /\ checkpoint = Here /\ asked[Here] # None

\* The call at the run's position has an identity.
LEMMA HereType ==
  ASSUME TypeOK, pos <= MaxCalls
  PROVE  Here \in Id /\ Here[1] = step /\ Here[2] = pos
  BY LoopAssumption DEF TypeOK, Here, Id

\* The types and the links hold at the start.
LEMMA InitTypes == Init => TypeOK /\ Linked
  BY LoopAssumption, ChainAssumption DEF Init, TypeOK, Linked, Ended

\* Every step keeps the types and the links.
LEMMA NextTypes == TypeOK /\ Linked /\ [Next]_vars => TypeOK' /\ Linked'
<1> SUFFICES ASSUME TypeOK, Linked, [Next]_vars
             PROVE  TypeOK' /\ Linked'
  OBVIOUS
<1> USE LoopAssumption
<1>f. ASSUME Fail PROVE TypeOK' /\ Linked'
  BY <1>f DEF Fail, TypeOK, Linked, Ended, conversation, history, routing
<1>1. CASE Unavailable
  BY <1>1, SMTT(30) DEF Unavailable, Can, TypeOK, Linked, Here, conversation, history, routing
<1>2. CASE ModelRaises
  BY <1>2, <1>f DEF ModelRaises
<1>3. CASE FinalAnswer
  BY <1>3 DEF FinalAnswer, Responds, Can, TypeOK, Linked, Here, conversation
<1>4. ASSUME NEW calls \in Response, ToolCalls(calls) PROVE TypeOK' /\ Linked'
  <2>1. asked' \in [Id -> Call \cup {None}]
    <3>1. CASE step >= MaxSteps
      BY <1>4, <3>1 DEF ToolCalls, Responds, Can, TypeOK
    <3>2. CASE ~(step >= MaxSteps)
      <4>1. \A i \in Id : i[2] <= Len(calls) => calls[i[2]] \in Call
        BY ResponseType DEF Id
      <4> QED
        BY <1>4, <3>2, <4>1 DEF ToolCalls, Responds, Can, TypeOK
    <3> QED
      BY <3>1, <3>2
  <2> QED
    BY <1>4, <2>1 DEF ToolCalls, Responds, Can, TypeOK, Linked, Ended
<1>5. ASSUME NEW call \in Call, RejectCall(call) PROVE TypeOK' /\ Linked'
  BY <1>5, <1>f DEF RejectCall
<1>6. ASSUME NEW call \in Call, Pause(call) PROVE TypeOK' /\ Linked'
  BY <1>6, HereType DEF Pause, Pending, TypeOK, Linked, Ended, Here, conversation, history, routing
<1>7. ASSUME NEW call \in Call, Deny(call) PROVE TypeOK' /\ Linked'
  <2>1. Here \in Id
    BY <1>7, HereType DEF Deny, Pending
  <2>2. answered' \subseteq Id
    BY <1>7, <2>1 DEF Deny, TypeOK
  <2> QED
    BY <1>7, <2>2 DEF Deny, Pending, TypeOK, Linked, history, routing
<1>8. ASSUME NEW call \in Call, Execute(call) PROVE TypeOK' /\ Linked'
  <2>1. Here \in Id
    BY <1>8, HereType DEF Execute, Pending
  <2>2. ran' \in [Id -> Nat]
    BY <1>8, <2>1 DEF Execute, TypeOK
  <2>3. executed' \in Seq(Id)
    <3>1. executed \in Seq(Id)
      BY DEF TypeOK
    <3>2. executed' = Append(executed, Here) \/ executed' = executed
      BY <1>8 DEF Execute
    <3> QED
      BY <2>1, <3>1, <3>2, SeqTypes
  <2>4. answered' \subseteq Id
    BY <1>8, <2>1 DEF Execute, TypeOK
  <2>5. pc' \in {"calls", "failed"} /\ pos' \in 1..(MaxCalls + 1)
    BY <1>8 DEF Execute, Pending, TypeOK
  <2>6. Linked'
    BY <1>8, <2>5 DEF Execute, Pending, Linked
  <2> QED
    BY <1>8, <2>2, <2>3, <2>4, <2>5, <2>6 DEF Execute, TypeOK, Ended, routing
<1>9. CASE NextStep
  <2>1. /\ pc = "calls" /\ pc' = "model" /\ step' = step + 1 /\ attempt' = 1
        /\ UNCHANGED <<rules, chain, asked, answered, pos, executed, checkpoint, usage, artifacts,
                       ran, granted, responses, missed, by>>
    BY <1>9 DEF NextStep, Pending, conversation, history, routing
  <2>2. step' \in 1..MaxSteps /\ attempt' \in 1..Len(chain)
    BY <2>1 DEF TypeOK, Linked
  <2> QED
    BY <2>1, <2>2 DEF TypeOK, Linked
<1>10. CASE Resume
  <2>1. checkpoint \in Id /\ checkpoint[1] = step /\ step < MaxSteps
    BY <1>10, HereType DEF Resume, ResumeWith, Linked
  <2>2. ran' \in [Id -> Nat]
    BY <1>10, <2>1 DEF Resume, ResumeWith, TypeOK
  <2>3. executed' \in Seq(Id)
    <3>1. executed \in Seq(Id)
      BY DEF TypeOK
    <3>2. executed' = <<checkpoint>> \/ executed' = executed
      BY <1>10 DEF Resume, ResumeWith
    <3> QED
      BY <2>1, <3>1, <3>2, SeqTypes
  <2>4. answered' \subseteq Id /\ step' \in 1..MaxSteps
    BY <1>10, <2>1, SMTT(30) DEF Resume, ResumeWith, TypeOK
  <2>5. pc' \in {"model", "failed"} /\ attempt' \in 1..Len(chain)
    BY <1>10 DEF Resume, ResumeWith, TypeOK
  <2> QED
    <3>1. Linked'
      BY <2>5 DEF Linked
    <3>2. usage' = usage /\ UNCHANGED <<rules, chain, asked, pos, checkpoint, artifacts, granted,
                                        responses, missed, by>>
      BY <1>10 DEF Resume, ResumeWith, routing
    <3> QED
      BY <2>2, <2>3, <2>4, <2>5, <3>1, <3>2 DEF TypeOK, Ended
<1>11. CASE RecordArtifact
  <2>1. Head(executed) \in Id /\ executed' \in Seq(Id)
    BY <1>11, SeqTypes DEF RecordArtifact, TypeOK
  <2>2. artifacts' \in Seq(Id)
    <3>1. artifacts \in Seq(Id)
      BY DEF TypeOK
    <3>2. artifacts' = Append(artifacts, Head(executed)) \/ artifacts' = artifacts
      BY <1>11 DEF RecordArtifact
    <3> QED
      BY <2>1, <3>1, <3>2, SeqTypes
  <2>3. pc' = "deliver"
    BY <1>11 DEF RecordArtifact
  <2> QED
    BY <1>11, <2>1, <2>2, <2>3
       DEF RecordArtifact, TypeOK, Linked, Ended, conversation, history, routing
<1>12. CASE Succeed
  BY <1>12 DEF Succeed, TypeOK, Linked, Ended, conversation, history, routing
<1>13. CASE UserApproves
  <2>1. checkpoint \in Id
    BY <1>13, HereType DEF UserApproves, Linked
  <2> QED
    <3>1. granted \in Seq(Id)
      BY DEF TypeOK
    <3>2. granted' \in Seq(Id)
      BY <1>13, <2>1, <3>1, SeqTypes DEF UserApproves
    <3>3. UNCHANGED <<rules, chain, step, attempt, asked, answered, pos, executed, checkpoint, usage,
                      artifacts, ran, responses, missed, by>>
      BY <1>13 DEF UserApproves, conversation, routing
    <3>4. pc = "waiting" /\ pc' = "resume"
      BY <1>13 DEF UserApproves
    <3> QED
      BY <3>2, <3>3, <3>4 DEF TypeOK, Linked, Here
<1>14. CASE UserDenies
  BY <1>14, <1>f DEF UserDenies
<1>15. CASE UNCHANGED vars
  BY <1>15 DEF vars, TypeOK, Linked, Here, conversation, history, routing
<1>16. CASE DeliveryFails
  BY <1>16 DEF DeliveryFails, TypeOK, Linked, Ended, conversation, history, routing
<1> QED
  BY <1>1, <1>2, <1>3, <1>4, <1>5, <1>6, <1>7, <1>8, <1>9, <1>10, <1>11, <1>12, <1>13, <1>14, <1>15,
     <1>16
     DEF Next, AgentStep

\* The variables of a task's runs keep their types.
THEOREM TypeCorrect == Spec => []TypeOK
<1>1. Spec => [](TypeOK /\ Linked)
  BY InitTypes, NextTypes, PTL DEF Spec
<1> QED
  BY <1>1, PTL

----------------------------------------------------------------------------
(* Steps and usage.                                                        *)

Live == {"model", "calls", "waiting", "resume"}

\* In step n the model has answered n - 1 times, and n times once it asked for calls:
\* a resumed run goes on where the count stood.
Counted ==
  /\ usage = responses
  /\ pc = "model" => responses = step - 1
  /\ pc \in Live \ {"model"} => responses = step
  /\ responses <= step

\* Every step keeps the counts of responses and of usage in step.
LEMMA NextCounted == TypeOK /\ Linked /\ Counted /\ [Next]_vars => Counted'
<1> SUFFICES ASSUME TypeOK, Linked, Counted, [Next]_vars
             PROVE  Counted'
  OBVIOUS
<1> USE LoopAssumption DEF Counted, Live
<1>f. ASSUME Fail PROVE Counted'
  BY <1>f DEF Fail, TypeOK, history, routing
<1>1. CASE Unavailable
  BY <1>1 DEF Unavailable, Can, history, routing
<1>2. CASE ModelRaises
  BY <1>2, <1>f DEF ModelRaises
<1>3. CASE FinalAnswer
  BY <1>3 DEF FinalAnswer, Responds, Can, TypeOK
<1>4. ASSUME NEW calls \in Response, ToolCalls(calls) PROVE Counted'
  BY <1>4 DEF ToolCalls, Responds, Can, TypeOK
<1>5. ASSUME NEW call \in Call, RejectCall(call) PROVE Counted'
  BY <1>5, <1>f DEF RejectCall
<1>6. ASSUME NEW call \in Call, Pause(call) PROVE Counted'
  BY <1>6 DEF Pause, Pending, history, routing
<1>7. ASSUME NEW call \in Call, Deny(call) PROVE Counted'
  BY <1>7 DEF Deny, history, routing
<1>8. ASSUME NEW call \in Call, Execute(call) PROVE Counted'
  BY <1>8 DEF Execute, Pending
<1>9. CASE NextStep
  BY <1>9 DEF NextStep, Pending, TypeOK, history, routing
<1>10. CASE Resume
  <2>1. checkpoint[1] = step /\ responses = step
    BY <1>10, HereType DEF Resume, ResumeWith, Linked
  <2>2. \/ step' = checkpoint[1] + 1 /\ pc' = "model"
        \/ step' = step /\ pc' = "failed"
    BY <1>10 DEF Resume, ResumeWith
  <2>3. usage' = usage /\ responses' = responses
    BY <1>10 DEF Resume, ResumeWith
  <2>4. step \in Nat
    BY DEF TypeOK
  <2> QED
    BY <2>1, <2>2, <2>3, <2>4
<1>11. CASE RecordArtifact
  <2>1. pc' \notin Live
    BY <1>11 DEF RecordArtifact
  <2> QED
    BY <1>11, <2>1 DEF RecordArtifact, history, routing
<1>12. CASE Succeed
  BY <1>12 DEF Succeed, history, routing
<1>13. CASE UserApproves
  BY <1>13 DEF UserApproves
<1>14. CASE UserDenies
  BY <1>14, <1>f DEF UserDenies
<1>15. CASE UNCHANGED vars
  BY <1>15 DEF vars, history, routing
<1>16. CASE DeliveryFails
  BY <1>16 DEF DeliveryFails, history, routing
<1> QED
  BY <1>1, <1>2, <1>3, <1>4, <1>5, <1>6, <1>7, <1>8, <1>9, <1>10, <1>11, <1>12, <1>13, <1>14, <1>15,
     <1>16
     DEF Next, AgentStep

\* max_steps bounds the responses of all runs of a task, however often it pauses.
THEOREM StepsAreLimited == Spec => []StepLimit
<1>1. Init => TypeOK /\ Linked /\ Counted
  BY InitTypes DEF Init, Counted, Live
<1>2. Counted /\ TypeOK => StepLimit
  BY LoopAssumption DEF Counted, TypeOK, StepLimit
<1> QED
  BY <1>1, <1>2, NextTypes, NextCounted, PTL DEF Spec

\* The usage that is recorded counts the responses of every run.
THEOREM UsageIsComplete == Spec => []UsageComplete
<1>1. Init => TypeOK /\ Linked /\ Counted
  BY InitTypes DEF Init, Counted, Live
<1>2. Counted => UsageComplete
  BY DEF Counted, UsageComplete
<1> QED
  BY <1>1, <1>2, NextTypes, NextCounted, PTL DEF Spec

----------------------------------------------------------------------------
(* A call is executed once.                                                *)

\* The calls that the run has not come to.
Ahead == {i \in Id : i[1] > step \/ (i[1] = step /\ (pc = "model" \/ i[2] >= pos))}

\* Nothing ahead of the run was executed, and nothing twice.
Fresh ==
  /\ \A i \in Id : ran[i] <= 1
  /\ pc \in Live => \A i \in Ahead : ran[i] = 0

\* Every step keeps what is ahead of the run unexecuted.
LEMMA NextFresh == TypeOK /\ Linked /\ Fresh /\ [Next]_vars => Fresh'
<1> SUFFICES ASSUME TypeOK, Linked, Fresh, [Next]_vars
             PROVE  Fresh'
  OBVIOUS
<1> USE LoopAssumption DEF Fresh, Ahead, Live
<1>f. ASSUME Fail PROVE Fresh'
  BY <1>f DEF Fail, history, routing
<1>1. CASE Unavailable
  BY <1>1 DEF Unavailable, Can, history, routing
<1>2. CASE ModelRaises
  BY <1>2, <1>f DEF ModelRaises
<1>3. CASE FinalAnswer
  BY <1>3 DEF FinalAnswer, Responds, Can
<1>4. ASSUME NEW calls \in Response, ToolCalls(calls) PROVE Fresh'
  BY <1>4 DEF ToolCalls, Responds, Can
<1>5. ASSUME NEW call \in Call, RejectCall(call) PROVE Fresh'
  BY <1>5, <1>f DEF RejectCall
<1>6. ASSUME NEW call \in Call, Pause(call) PROVE Fresh'
  BY <1>6 DEF Pause, Pending, history, routing
<1>7. ASSUME NEW call \in Call, Deny(call) PROVE Fresh'
  BY <1>7 DEF Deny, Pending, TypeOK, Id, history, routing
<1>8. ASSUME NEW call \in Call, Execute(call) PROVE Fresh'
  <2>1. Here \in Id /\ Here[1] = step /\ Here[2] = pos /\ pc = "calls"
    BY <1>8, HereType DEF Execute, Pending
  <2>2. ran[Here] = 0
    BY <2>1 DEF TypeOK, Id
  <2>3. \A i \in Id : ran'[i] = IF i = Here THEN 1 ELSE ran[i]
    BY <1>8, <2>2 DEF Execute, TypeOK
  <2>4. pc' \in Live => \A i \in Ahead' : i \in Ahead /\ i # Here
    <3>1. step \in Nat /\ pos \in Nat /\ step' = step /\ (pc' \in Live => pc' = "calls" /\ pos' = pos + 1)
      BY <1>8, <2>1, SMTT(30) DEF Execute, TypeOK
    <3>2. \A i \in Id : i[1] \in Nat /\ i[2] \in Nat
      BY DEF Id
    <3> QED
      BY <2>1, <3>1, <3>2
  <2> QED
    BY <2>3, <2>4, <2>1
<1>9. CASE NextStep
  BY <1>9, SMTT(30) DEF NextStep, Pending, TypeOK, Id, history, routing
<1>10. CASE Resume
  <2>1. checkpoint \in Id /\ checkpoint[1] = step /\ checkpoint[2] = pos
    BY <1>10, HereType DEF Resume, ResumeWith, Linked
  <2>2. ran[checkpoint] = 0
    BY <1>10, <2>1, SMTT(30) DEF Resume, ResumeWith, TypeOK, Id
  <2>3. \A i \in Id : ran'[i] = IF i = checkpoint THEN 1 ELSE ran[i]
    BY <1>10, <2>2 DEF Resume, ResumeWith, TypeOK
  <2>4. pc' \in Live => \A i \in Ahead' : i \in Ahead /\ i # checkpoint
    <3>1. /\ step \in Nat /\ pc = "resume"
          /\ pc' \in Live => pc' = "model" /\ step' = checkpoint[1] + 1
      BY <1>10 DEF Resume, ResumeWith, TypeOK
    <3>2. \A i \in Id : i[1] \in Nat /\ i[2] \in Nat
      BY DEF Id
    <3> QED
      BY <2>1, <3>1, <3>2
  <2> QED
    BY <1>10, <2>3, <2>4 DEF Resume, ResumeWith
<1>11. CASE RecordArtifact
  <2>1. pc' \notin Live
    BY <1>11 DEF RecordArtifact
  <2> QED
    BY <1>11, <2>1 DEF RecordArtifact, history, routing
<1>12. CASE Succeed
  BY <1>12 DEF Succeed, history, routing
<1>13. CASE UserApproves
  BY <1>13 DEF UserApproves
<1>14. CASE UserDenies
  BY <1>14, <1>f DEF UserDenies
<1>15. CASE UNCHANGED vars
  BY <1>15 DEF vars, history, routing
<1>16. CASE DeliveryFails
  BY <1>16 DEF DeliveryFails, history, routing
<1> QED
  BY <1>1, <1>2, <1>3, <1>4, <1>5, <1>6, <1>7, <1>8, <1>9, <1>10, <1>11, <1>12, <1>13, <1>14, <1>15,
     <1>16
     DEF Next, AgentStep

\* Over all runs of a task, no call is executed twice: not by a resumed run either.
THEOREM CallsRunOnce == Spec => []ExecutedOnce
<1>1. Init => TypeOK /\ Linked /\ Fresh
  BY InitTypes DEF Init, Fresh, Ahead
<1>2. Fresh => ExecutedOnce
  BY DEF Fresh, ExecutedOnce
<1> QED
  BY <1>1, <1>2, NextTypes, NextFresh, PTL DEF Spec

----------------------------------------------------------------------------
(* What runs is permitted.                                                 *)

\* What the policy engine's three decisions say of the rules that match.
LEMMA EvaluateAllow ==
  ASSUME NEW set \in SUBSET Rule, NEW call \in Call, Evaluate(set, call) = "allow"
  PROVE  LET matching == {rule \in set : rule.enabled /\ call \in rule.matches} IN
           /\ \A rule \in matching : rule.effect = "allow"
           /\ RiskOf[call] # "critical" \/ matching = {}
           /\ matching = {} => RiskOf[call] = "read"
<1>1. \A rule \in set : rule.effect \in {"allow", "deny", "require_approval"}
  BY RuleAssumption DEF Decision
<1> QED
  BY <1>1 DEF Evaluate, Matches, Default

\* A call that the engine asks the user about is denied by no rule.
LEMMA EvaluateAsk ==
  ASSUME NEW set \in SUBSET Rule, NEW call, Evaluate(set, call) = "require_approval"
  PROVE  \A rule \in set : rule.enabled /\ call \in rule.matches => rule.effect # "deny"
  BY DEF Evaluate, Matches

\* The user was asked for what the policy wants asked, and what ran without it is what
\* the policy allows.  Nothing the conversation asked for up to this step changes.
Consented ==
  /\ pc \in {"waiting", "resume"} => Evaluate(rules, asked[checkpoint]) = "require_approval"
  /\ pc = "resume" => checkpoint \in Elements(granted)
  /\ \A i \in Elements(granted) :
       /\ Evaluate(rules, asked[i]) = "require_approval"
       /\ i[1] <= step
       /\ pc = "model" => i[1] < step
  /\ \A i \in Id \ Elements(granted) : ran[i] > 0 =>
       asked[i] \in Call /\ Evaluate(rules, asked[i]) = "allow"

\* Every step keeps what ran and what was asked within the policy.
LEMMA NextConsented == TypeOK /\ Linked /\ Fresh /\ Consented /\ [Next]_vars => Consented'
<1> SUFFICES ASSUME TypeOK, Linked, Fresh, Consented, [Next]_vars
             PROVE  Consented'
  OBVIOUS
<1>e. Elements(granted) \subseteq Id
  BY ElementsType DEF TypeOK
<1> USE LoopAssumption DEF Consented
<1>f. ASSUME Fail PROVE Consented'
  BY <1>f DEF Fail, conversation, history, routing
<1>1. CASE Unavailable
  BY <1>1 DEF Unavailable, Can, conversation, history, routing
<1>2. CASE ModelRaises
  BY <1>2, <1>f DEF ModelRaises
<1>3. CASE FinalAnswer
  BY <1>3 DEF FinalAnswer, Responds, Can, conversation
<1>4. ASSUME NEW calls \in Response, ToolCalls(calls) PROVE Consented'
  <2>1. pc = "model" /\ pc' \in {"calls", "failed"}
    BY <1>4 DEF ToolCalls, Responds, Can
  <2>2. UNCHANGED <<rules, step, granted, ran>>
    BY <1>4 DEF ToolCalls, Responds, Can
  <2>3. \A i \in Id : i[1] # step => asked'[i] = asked[i]
    BY <1>4 DEF ToolCalls, Responds, Can, TypeOK
  <2>4. \A i \in Elements(granted) : i[1] < step /\ asked'[i] = asked[i]
    BY <1>e, <2>1, <2>3, SMTT(30) DEF TypeOK, Id
  <2>5. \A i \in Id : ran[i] > 0 => i[1] # step /\ asked'[i] = asked[i]
    BY <2>1, <2>3 DEF Fresh, Ahead, Live, TypeOK, Id
  <2> QED
    BY <1>e, <2>1, <2>2, <2>4, <2>5 DEF Elements
<1>5. ASSUME NEW call \in Call, RejectCall(call) PROVE Consented'
  BY <1>5, <1>f DEF RejectCall
<1>6. ASSUME NEW call \in Call, Pause(call) PROVE Consented'
  BY <1>6 DEF Pause, Pending, conversation, history, routing
<1>7. ASSUME NEW call \in Call, Deny(call) PROVE Consented'
  BY <1>7 DEF Deny, Pending, history, routing
<1>8. ASSUME NEW call \in Call, Execute(call) PROVE Consented'
  <2>1. Here \in Id /\ pc = "calls" /\ pc' \in {"calls", "failed"}
    BY <1>8, HereType DEF Execute, Pending
  <2>2. UNCHANGED <<rules, step, asked, granted>>
    BY <1>8 DEF Execute
  <2>3. asked[Here] = call /\ Evaluate(rules, asked[Here]) = "allow"
    BY <1>8 DEF Execute, Pending
  <2>4. \A i \in Id : i # Here => ran'[i] = ran[i]
    BY <1>8 DEF Execute, TypeOK
  <2> QED
    BY <2>1, <2>2, <2>3, <2>4 DEF Elements
<1>9. CASE NextStep
  <2>1. pc = "calls" /\ pc' = "model" /\ step' = step + 1
    BY <1>9 DEF NextStep, Pending
  <2>2. UNCHANGED <<rules, asked, granted, ran>>
    BY <1>9 DEF NextStep, conversation, history, routing
  <2>3. \A i \in Elements(granted) : i[1] <= step' /\ i[1] < step'
    BY <1>e, <2>1 DEF TypeOK, Id
  <2> QED
    BY <2>1, <2>2, <2>3 DEF Elements
<1>10. CASE Resume
  <2>1. checkpoint \in Elements(granted) /\ checkpoint[1] = step
    BY <1>10, HereType DEF Resume, ResumeWith, Linked
  <2>2. UNCHANGED <<rules, asked, granted, checkpoint>>
    BY <1>10 DEF Resume, ResumeWith
  <2>3. \/ pc' = "model" /\ step' = checkpoint[1] + 1
        \/ pc' = "failed" /\ step' = step
    BY <1>10 DEF Resume, ResumeWith
  <2>4. \A i \in Id : i # checkpoint => ran'[i] = ran[i]
    BY <1>10 DEF Resume, ResumeWith, TypeOK
  <2>5. \A i \in Elements(granted) : i[1] <= step' /\ (pc' = "model" => i[1] < step')
    BY <1>e, <2>1, <2>3, SMTT(30) DEF TypeOK, Id
  <2> QED
    BY <2>1, <2>2, <2>3, <2>4, <2>5 DEF Elements
<1>11. CASE RecordArtifact
  BY <1>11 DEF RecordArtifact, conversation, history, routing
<1>12. CASE Succeed
  BY <1>12 DEF Succeed, conversation, history, routing
<1>13. CASE UserApproves
  <2>1. checkpoint \in Id /\ checkpoint[1] = step
    BY <1>13, HereType DEF UserApproves, Linked
  <2>2. Elements(granted') = Elements(granted) \cup {checkpoint}
    BY <1>13, <2>1, ElementsOfAppend DEF UserApproves, TypeOK
  <2>3. pc = "waiting" /\ pc' = "resume" /\ UNCHANGED <<rules, step, asked, checkpoint, ran>>
    BY <1>13 DEF UserApproves, conversation
  <2>4. Elements(granted)' = Elements(granted')
    BY DEF Elements
  <2> QED
    BY <2>1, <2>2, <2>3, <2>4 DEF TypeOK
<1>14. CASE UserDenies
  BY <1>14, <1>f DEF UserDenies
<1>15. CASE UNCHANGED vars
  BY <1>15 DEF vars, conversation, history, routing
<1>16. CASE DeliveryFails
  BY <1>16 DEF DeliveryFails, conversation, history, routing
<1> QED
  BY <1>1, <1>2, <1>3, <1>4, <1>5, <1>6, <1>7, <1>8, <1>9, <1>10, <1>11, <1>12, <1>13, <1>14, <1>15,
     <1>16
     DEF Next, AgentStep

\* Consented holds in every state.
LEMMA ConsentedAlways == Spec => [](TypeOK /\ Consented)
<1>1. Init => TypeOK /\ Linked /\ Fresh /\ Consented
  BY InitTypes DEF Init, Fresh, Ahead, Consented, Elements
<1> QED
  BY <1>1, NextTypes, NextFresh, NextConsented, PTL DEF Spec

\* What ran without the user's consent is allowed by every rule that matches it and not
\* critical, or of low risk and matched by no rule.
THEOREM OnlyPermittedRuns == Spec => []OnlyPermitted
<1>1. ASSUME TypeOK, Consented PROVE OnlyPermitted
  <2> SUFFICES ASSUME NEW i \in Id, ran[i] > 0, i \notin Elements(granted)
               PROVE  LET matching == {r \in rules : r.enabled /\ asked[i] \in r.matches} IN
                        /\ \A rule \in matching : rule.effect = "allow"
                        /\ RiskOf[asked[i]] # "critical" \/ matching = {}
                        /\ matching = {} => RiskOf[asked[i]] = "read"
    BY DEF OnlyPermitted
  <2>1. rules \in SUBSET Rule
    BY <1>1 DEF TypeOK
  <2>2. asked[i] \in Call /\ Evaluate(rules, asked[i]) = "allow"
    BY <1>1 DEF Consented
  <2> QED
    BY <2>1, <2>2, EvaluateAllow
<1> QED
  BY <1>1, ConsentedAlways, PTL

\* No call that an enabled rule denies was ever put to the user.
THEOREM DenialStands == Spec => []NoConsentToDenied
<1>1. TypeOK /\ Consented => NoConsentToDenied
  BY EvaluateAsk DEF TypeOK, Consented, NoConsentToDenied
<1> QED
  BY <1>1, ConsentedAlways, PTL

----------------------------------------------------------------------------
(* The conversation is answered.                                           *)

\* A call has no result only if the run paused at an earlier call of its response.
Dropped(i) == \E j \in Elements(granted) : i[1] = j[1] /\ j[2] < i[2]

\* Calls are asked for at the first positions of a step, and in the order of the steps;
\* those before the position of the run have a result.
Answering ==
  /\ \A i, j \in Id : i[1] = j[1] /\ j[2] < i[2] /\ asked[i] # None => asked[j] # None
  /\ pc = "resume" => checkpoint \in Elements(granted)
  /\ pc \in Live =>
       \A i \in Id : asked[i] # None /\ i \notin answered =>
         \/ Dropped(i)
         \/ pc # "model" /\ i[1] = step /\ i[2] >= pos
  /\ pc = "model" => \A i \in Id : i[1] >= step => asked[i] = None
  /\ pc \in Live => \A i \in Id : i[1] > step => asked[i] = None

\* Every step keeps the calls before the run's position answered.
LEMMA NextAnswering == TypeOK /\ Linked /\ Answering /\ [Next]_vars => Answering'
<1> SUFFICES ASSUME TypeOK, Linked, Answering, [Next]_vars
             PROVE  Answering'
  OBVIOUS
<1> USE LoopAssumption DEF Answering, Live, Dropped
<1>f. ASSUME Fail PROVE Answering'
  BY <1>f DEF Fail, conversation, history, routing
<1>1. CASE Unavailable
  BY <1>1 DEF Unavailable, Can, conversation, history, routing
<1>2. CASE ModelRaises
  BY <1>2, <1>f DEF ModelRaises
<1>3. CASE FinalAnswer
  BY <1>3 DEF FinalAnswer, Responds, Can, conversation
<1>4. ASSUME NEW calls \in Response, ToolCalls(calls) PROVE Answering'
  <2>1. CASE step >= MaxSteps
    BY <1>4, <2>1 DEF ToolCalls, Responds, Can
  <2>2. CASE ~(step >= MaxSteps)
    <3>1. pc = "model" /\ pc' = "calls" /\ pos' = 1 /\ UNCHANGED <<step, answered, granted>>
      BY <1>4, <2>2 DEF ToolCalls, Responds, Can
    <3>2. \A i \in Id : asked'[i] = IF i[1] = step /\ i[2] <= Len(calls) THEN calls[i[2]]
                                                                       ELSE asked[i]
      BY <1>4, <2>2 DEF ToolCalls, Responds, Can
    <3>3. \A i \in Id : i[1] = step => (asked'[i] # None <=> i[2] <= Len(calls))
      BY <3>1, <3>2, ResponseType DEF Id
    <3>4. \A i \in Id : i[1] # step => asked'[i] = asked[i]
      BY <3>2
    <3>5. Len(calls) \in Nat /\ \A i \in Id : i[1] \in Nat /\ i[2] \in Nat /\ i[2] >= 1
      BY ResponseType DEF Id
    <3>6. \A i, j \in Id : i[1] = j[1] /\ j[2] < i[2] /\ asked'[i] # None => asked'[j] # None
      BY <3>3, <3>4, <3>5
    <3>7. \A i \in Id : asked'[i] # None /\ i \notin answered => Dropped(i) \/ i[1] = step
      BY <3>1, <3>4
    <3>8. \A i \in Id : i[1] > step => asked'[i] = None
      <4>1. \A i \in Id : i[1] > step => i[1] # step /\ i[1] >= step
        BY <3>5, SMTT(30) DEF TypeOK
      <4> QED
        BY <3>1, <3>4, <4>1
    <3> QED
      BY <3>1, <3>5, <3>6, <3>7, <3>8 DEF Elements
  <2> QED
    BY <2>1, <2>2
<1>5. ASSUME NEW call \in Call, RejectCall(call) PROVE Answering'
  BY <1>5, <1>f DEF RejectCall
<1>6. ASSUME NEW call \in Call, Pause(call) PROVE Answering'
  BY <1>6 DEF Pause, Pending, conversation, history, routing
<1>7. ASSUME NEW call \in Call, Deny(call) PROVE Answering'
  <2>1. pc = "calls" /\ pc' = "calls" /\ pos' = pos + 1 /\ answered' = answered \cup {Here}
    BY <1>7 DEF Deny, Pending
  <2>2. UNCHANGED <<step, asked, granted>>
    BY <1>7 DEF Deny, history, routing
  <2>3. \A i \in Id : i[1] = step /\ i[2] >= pos => i[2] >= pos' \/ i \in answered'
    BY <2>1 DEF TypeOK, Id, Here
  <2> QED
    BY <2>1, <2>2, <2>3 DEF Elements
<1>8. ASSUME NEW call \in Call, Execute(call) PROVE Answering'
  <2>1. CASE pc' = "failed"
    BY <1>8, <2>1 DEF Execute
  <2>2. CASE pc' # "failed"
    <3>1. pc = "calls" /\ pc' = "calls" /\ pos' = pos + 1 /\ answered' = answered \cup {Here}
      BY <1>8, <2>2 DEF Execute, Pending
    <3>2. UNCHANGED <<step, asked, granted>>
      BY <1>8 DEF Execute
    <3>3. \A i \in Id : i[1] = step /\ i[2] >= pos => i[2] >= pos' \/ i \in answered'
      BY <3>1 DEF TypeOK, Id, Here
    <3> QED
      BY <3>1, <3>2, <3>3 DEF Elements
  <2> QED
    BY <2>1, <2>2
<1>9. CASE NextStep
  <2>1. pc = "calls" /\ pc' = "model" /\ step' = step + 1
    BY <1>9 DEF NextStep, Pending
  <2>2. UNCHANGED <<asked, answered, granted>>
    BY <1>9 DEF NextStep, conversation, history, routing
  <2>3. \A i \in Id : i[1] = step /\ i[2] >= pos => asked[i] = None
    <3>1. CASE pos > MaxCalls
      BY <3>1 DEF TypeOK, Id
    <3>2. CASE pos <= MaxCalls
      <4>1. Here \in Id /\ Here[1] = step /\ Here[2] = pos /\ asked[Here] = None
        BY <1>9, <3>2, HereType DEF NextStep, Pending, TypeOK
      <4>2. \A i \in Id : i[1] = step /\ i[2] = pos => i = Here
        BY DEF Id, Here
      <4>3. \A i \in Id : i[2] >= pos => i[2] = pos \/ pos < i[2]
        BY DEF TypeOK, Id
      <4>4. \A i \in Id : i[1] = step /\ pos < i[2] => asked[i] = None
        BY <4>1
      <4> QED
        BY <4>1, <4>2, <4>3, <4>4
    <3> QED
      BY <3>1, <3>2 DEF TypeOK
  <2>4. \A i \in Id : i[1] >= step' => asked[i] = None
    BY <2>1 DEF TypeOK, Id
  <2>5. \A i \in Id : i[1] > step' => asked[i] = None
    BY <2>1 DEF TypeOK, Id
  <2> QED
    BY <2>1, <2>2, <2>3, <2>4, <2>5 DEF Elements
<1>10. CASE Resume
  <2>1. CASE pc' = "failed"
    BY <1>10, <2>1 DEF Resume, ResumeWith
  <2>2. CASE pc' # "failed"
    <3>1. checkpoint \in Elements(granted) /\ checkpoint[1] = step /\ checkpoint[2] = pos
      BY <1>10, HereType DEF Resume, ResumeWith, Linked
    <3>2. /\ pc = "resume" /\ pc' = "model" /\ step' = checkpoint[1] + 1
          /\ answered' = answered \cup {checkpoint}
      BY <1>10, <2>2 DEF Resume, ResumeWith
    <3>3. UNCHANGED <<asked, granted, checkpoint>>
      BY <1>10 DEF Resume, ResumeWith
    <3>4. \A i \in Id : i[1] = step /\ i[2] >= pos => Dropped(i) \/ i \in answered'
      <4>1. \A i \in Id : i[1] = step /\ i[2] = pos => i = checkpoint
        BY <1>10 DEF Resume, ResumeWith, Linked, Id, Here
      <4>2. \A i \in Id : i[2] >= pos => i[2] = pos \/ pos < i[2]
        BY DEF TypeOK, Id
      <4>3. \A i \in Id : i[1] = step /\ pos < i[2] => Dropped(i)
        BY <3>1
      <4> QED
        BY <3>2, <4>1, <4>2, <4>3
    <3>5. \A i \in Id : (i[1] >= step' => asked[i] = None) /\ (i[1] > step' => asked[i] = None)
      BY <3>1, <3>2, SMTT(30) DEF TypeOK, Id
    <3> QED
      BY <3>1, <3>2, <3>3, <3>4, <3>5 DEF Elements
  <2> QED
    BY <2>1, <2>2
<1>11. CASE RecordArtifact
  <2>1. pc' \notin Live
    BY <1>11 DEF RecordArtifact
  <2> QED
    BY <1>11, <2>1 DEF RecordArtifact, conversation
<1>12. CASE Succeed
  BY <1>12 DEF Succeed, conversation
<1>13. CASE UserApproves
  <2>1. checkpoint \in Id
    BY <1>13, HereType DEF UserApproves, Linked
  <2>2. Elements(granted') = Elements(granted) \cup {checkpoint}
    BY <1>13, <2>1, ElementsOfAppend DEF UserApproves, TypeOK
  <2>3. /\ pc = "waiting" /\ pc' = "resume"
        /\ UNCHANGED <<step, pos, asked, answered, checkpoint>>
    BY <1>13 DEF UserApproves, conversation
  <2>4. Elements(granted)' = Elements(granted')
    BY DEF Elements
  <2> QED
    BY <2>2, <2>3, <2>4
<1>14. CASE UserDenies
  BY <1>14, <1>f DEF UserDenies
<1>15. CASE UNCHANGED vars
  BY <1>15 DEF vars, conversation, history, routing
<1>16. CASE DeliveryFails
  BY <1>16 DEF DeliveryFails, conversation, history, routing
<1> QED
  BY <1>1, <1>2, <1>3, <1>4, <1>5, <1>6, <1>7, <1>8, <1>9, <1>10, <1>11, <1>12, <1>13, <1>14, <1>15,
     <1>16
     DEF Next, AgentStep

\* Whenever the model is asked, the calls without a result are those behind a call that
\* the run paused for.
THEOREM CallsAreAnswered == Spec => []ConversationAnswered
<1>1. Init => TypeOK /\ Linked /\ Answering
  BY InitTypes DEF Init, Answering, Live, Elements
<1>2. Answering => ConversationAnswered
  BY DEF Answering, Live, Dropped, ConversationAnswered
<1> QED
  BY <1>1, <1>2, NextTypes, NextAnswering, PTL DEF Spec

----------------------------------------------------------------------------
(* Models are asked in order.                                              *)

\* Whoever answered, and the candidate at hand, came after candidates that were
\* unavailable for the same step.
Routed ==
  /\ RoutedInOrder
  /\ pc = "model" => \A k \in 1..(attempt - 1) : <<step, k>> \in missed

\* Every step keeps the chain of models in order: each request starts at its head.
LEMMA NextRouted == TypeOK /\ Routed /\ [Next]_vars => Routed'
<1> SUFFICES ASSUME TypeOK, Routed, [Next]_vars
             PROVE  Routed'
  OBVIOUS
<1> USE LoopAssumption DEF Routed, RoutedInOrder
<1>1. CASE Unavailable
  <2>1. attempt \in Nat /\ attempt' = attempt + 1 /\ UNCHANGED <<pc, step, by>>
    BY <1>1 DEF Unavailable, TypeOK
  <2>2. pc = "model" /\ missed' = missed \cup {<<step, attempt>>}
    BY <1>1 DEF Unavailable, Can
  <2>3. \A k \in 1..(attempt' - 1) : k = attempt \/ k \in 1..(attempt - 1)
    BY <2>1
  <2> QED
    BY <2>1, <2>2, <2>3
<1>2. ASSUME Responds, pc' # "model" PROVE Routed'
  <2>1. pc = "model" /\ UNCHANGED missed /\ by' = [by EXCEPT ![step] = attempt]
    BY <1>2 DEF Responds, Can
  <2>2. \A s \in 1..MaxSteps : by'[s] = IF s = step THEN attempt ELSE by[s]
    BY <2>1 DEF TypeOK
  <2> QED
    BY <1>2, <2>1, <2>2
<1>3. ASSUME UNCHANGED routing,
             pc' = "model" => attempt' = 1 \/ UNCHANGED <<pc, step, attempt>>
      PROVE  Routed'
  BY <1>3 DEF routing
<1>4. CASE FinalAnswer
  BY <1>2, <1>4 DEF FinalAnswer
<1>5. ASSUME NEW calls \in Response, ToolCalls(calls) PROVE Routed'
  BY <1>2, <1>5 DEF ToolCalls
<1>6. CASE ModelRaises \/ UserDenies \/ \E call \in Call : RejectCall(call)
  BY <1>3, <1>6 DEF ModelRaises, UserDenies, RejectCall, Fail, history
<1>7. ASSUME NEW call \in Call, Pause(call) \/ Deny(call) \/ Execute(call) PROVE Routed'
  BY <1>3, <1>7 DEF Pause, Deny, Execute, Pending, history
<1>8. CASE NextStep \/ Resume
  BY <1>3, <1>8 DEF NextStep, Resume, ResumeWith, history
<1>9. CASE RecordArtifact \/ DeliveryFails \/ Succeed \/ UserApproves
  BY <1>3, <1>9 DEF RecordArtifact, DeliveryFails, Succeed, UserApproves, history
<1>10. CASE UNCHANGED vars
  BY <1>3, <1>10 DEF vars, history
<1> QED
  BY <1>1, <1>4, <1>5, <1>6, <1>7, <1>8, <1>9, <1>10 DEF Next, AgentStep

\* A fallback answers only after every model before it was unavailable for that request.
THEOREM ModelsInOrder == Spec => []RoutedInOrder
<1>1. Init => TypeOK /\ Linked /\ Routed
  BY InitTypes, LoopAssumption DEF Init, Routed, RoutedInOrder
<1>2. Routed => RoutedInOrder
  BY DEF Routed
<1> QED
  BY <1>1, <1>2, NextTypes, NextRouted, PTL DEF Spec

----------------------------------------------------------------------------
(* The files of the last run are recorded.                                 *)

\* No element occurs twice.
Distinct(s) == \A k, l \in DOMAIN s : s[k] = s[l] => k = l

\* A call that no approved call came after.
SinceLastPause(i) == \A j \in Elements(granted) : ~Before(i, j)

\* Until its result is delivered, the run lists what it executed since the last pause;
\* each call of the list goes once from there to the artifacts.
Recording ==
  /\ pc \notin {"deliver", "stuck", "succeeded"} => artifacts = <<>>
  /\ Distinct(executed) /\ Distinct(artifacts)
  /\ \A i \in Elements(executed) : ran[i] > 0 /\ i \notin Elements(artifacts)
  /\ pc \in {"model", "calls", "deliver", "succeeded"} =>
       \A i \in Id : ran[i] > 0 /\ asked[i] \in Write /\ SinceLastPause(i) =>
         i \in Elements(executed) \cup Elements(artifacts)

\* A sequence stays without repetitions when something new is appended.
LEMMA DistinctAppend ==
  ASSUME NEW S, NEW s \in Seq(S), NEW e \in S, Distinct(s), e \notin Elements(s)
  PROVE  Distinct(Append(s, e))
<1>1. /\ DOMAIN Append(s, e) = 1..(Len(s) + 1) /\ DOMAIN s = 1..Len(s) /\ Len(s) \in Nat
      /\ Append(s, e)[Len(s) + 1] = e
      /\ \A i \in 1..Len(s) : Append(s, e)[i] = s[i]
  OBVIOUS
<1>2. \A k \in 1..(Len(s) + 1) : k \in 1..Len(s) \/ k = Len(s) + 1
  BY <1>1
<1>3. \A i \in 1..Len(s) : s[i] # e
  BY <1>1 DEF Elements
<1> QED
  BY <1>1, <1>2, <1>3 DEF Distinct

\* A sequence without repetitions is its head and a tail without repetitions that lacks the head.
LEMMA DistinctTail ==
  ASSUME NEW S, NEW s \in Seq(S), s # <<>>, Distinct(s)
  PROVE  /\ Distinct(Tail(s)) /\ Head(s) \notin Elements(Tail(s))
         /\ Elements(s) = Elements(Tail(s)) \cup {Head(s)}
<1>1. /\ Tail(s) \in Seq(S) /\ Len(s) \in Nat /\ Len(s) >= 1 /\ DOMAIN s = 1..Len(s)
      /\ DOMAIN Tail(s) = 1..(Len(s) - 1) /\ Head(s) = s[1]
      /\ \A i \in 1..(Len(s) - 1) : Tail(s)[i] = s[i + 1]
  OBVIOUS
<1>2. \A i \in 1..(Len(s) - 1) : i + 1 \in 1..Len(s) /\ i + 1 # 1
  BY <1>1
<1>3. \A i \in 1..Len(s) : i = 1 \/ (i - 1 \in 1..(Len(s) - 1) /\ (i - 1) + 1 = i)
  BY <1>1
<1>4. Distinct(Tail(s)) /\ Head(s) \notin Elements(Tail(s))
  BY <1>1, <1>2 DEF Distinct, Elements
<1>5. Elements(s) = Elements(Tail(s)) \cup {Head(s)}
  <2>1. \A i \in 1..Len(s) : s[i] = Head(s) \/ \E j \in 1..(Len(s) - 1) : s[i] = Tail(s)[j]
    BY <1>1, <1>3
  <2>2. \A j \in 1..(Len(s) - 1) : \E i \in 1..Len(s) : Tail(s)[j] = s[i]
    BY <1>1, <1>2
  <2>3. \E i \in 1..Len(s) : Head(s) = s[i]
    BY <1>1
  <2>4. /\ \A e : e \in Elements(s) <=> \E i \in 1..Len(s) : e = s[i]
        /\ \A e : e \in Elements(Tail(s)) <=> \E j \in 1..(Len(s) - 1) : e = Tail(s)[j]
    BY <1>1 DEF Elements
  <2> QED
    BY <2>1, <2>2, <2>3, <2>4
<1> QED
  BY <1>4, <1>5

\* What a step does to Recording that leaves the lists alone: it asks, approves or
\* executes nothing, or comes to a stage that promises nothing.
LEMMA RecordingStays ==
  ASSUME Recording, UNCHANGED <<executed, artifacts>>,
         \A i \in Id : ran'[i] >= ran[i], executed \in Seq(Id), ran \in [Id -> Nat],
         ran' \in [Id -> Nat],
         pc' \notin {"deliver", "stuck", "succeeded"} => pc \notin {"deliver", "stuck", "succeeded"},
         pc' \in {"model", "calls", "deliver", "succeeded"} =>
           /\ pc \in {"model", "calls", "deliver", "succeeded"} /\ UNCHANGED <<ran, granted>>
           /\ \A i \in Id : asked'[i] # asked[i] => ran[i] = 0
  PROVE  Recording'
<1>1. \A i \in Elements(executed) : i \in Id
  BY ElementsType
<1>2. \A i \in Id : ran[i] > 0 => ran'[i] > 0
  OBVIOUS
<1>3. \A i \in Elements(executed) : ran'[i] > 0 /\ i \notin Elements(artifacts)
  BY <1>1, <1>2 DEF Recording
<1>4. ASSUME pc' \in {"model", "calls", "deliver", "succeeded"}, NEW i \in Id,
             ran'[i] > 0, asked'[i] \in Write, SinceLastPause(i)'
      PROVE  i \in Elements(executed) \cup Elements(artifacts)
  <2>1. ran[i] > 0 /\ asked'[i] = asked[i] /\ SinceLastPause(i)
    BY <1>4 DEF SinceLastPause
  <2> QED
    BY <1>4, <2>1 DEF Recording
<1> QED
  BY <1>3, <1>4 DEF Recording

\* Every step keeps Recording.
LEMMA NextRecording ==
  TypeOK /\ Linked /\ Fresh /\ Answering /\ Recording /\ [Next]_vars => Recording'
<1> SUFFICES ASSUME TypeOK, Linked, Fresh, Answering, Recording, [Next]_vars
             PROVE  Recording'
  OBVIOUS
<1>0. executed \in Seq(Id) /\ artifacts \in Seq(Id) /\ ran \in [Id -> Nat]
  BY DEF TypeOK
<1>t. ran' \in [Id -> Nat]
  BY NextTypes DEF TypeOK
<1>e. /\ Elements(executed)' = Elements(executed') /\ Elements(artifacts)' = Elements(artifacts')
      /\ (Distinct(executed)' <=> Distinct(executed')) /\ (Distinct(artifacts)' <=> Distinct(artifacts'))
  BY DEF Elements, Distinct
<1>s. ASSUME UNCHANGED <<executed, artifacts, ran, granted>>,
             \A i \in Id : asked'[i] # asked[i] => ran[i] = 0,
             pc' \notin {"deliver", "stuck", "succeeded"} => pc \notin {"deliver", "stuck", "succeeded"},
             pc' \in {"model", "calls", "deliver", "succeeded"} =>
               pc \in {"model", "calls", "deliver", "succeeded"}
      PROVE  Recording'
  BY <1>0, <1>s, RecordingStays
<1>f. ASSUME Fail, pc \notin {"deliver", "stuck", "succeeded"} PROVE Recording'
  BY <1>f, <1>s DEF Fail, conversation, history
<1>1. CASE Unavailable
  BY <1>1, <1>s DEF Unavailable, conversation
<1>2. CASE ModelRaises
  BY <1>2, <1>f DEF ModelRaises, Can
<1>3. CASE FinalAnswer
  BY <1>3, <1>s DEF FinalAnswer, Responds, Can
<1>4. ASSUME NEW calls \in Response, ToolCalls(calls) PROVE Recording'
  <2>1. /\ pc = "model" /\ pc' \in {"failed", "calls"}
        /\ UNCHANGED <<executed, artifacts, ran, granted>>
    BY <1>4 DEF ToolCalls, Responds, Can
  <2>2. \A i \in Id : asked'[i] # asked[i] => i[1] = step
    BY <1>4 DEF ToolCalls, TypeOK
  <2>3. \A i \in Id : asked'[i] # asked[i] => ran[i] = 0
    BY <2>1, <2>2 DEF Fresh, Ahead, Live
  <2> QED
    BY <1>s, <2>1, <2>3
<1>5. ASSUME NEW call \in Call, RejectCall(call) PROVE Recording'
  BY <1>5, <1>f DEF RejectCall, Pending
<1>6. ASSUME NEW call \in Call, Pause(call) PROVE Recording'
  BY <1>6, <1>s DEF Pause, Pending, conversation, history
<1>7. ASSUME NEW call \in Call, Deny(call) PROVE Recording'
  BY <1>7, <1>s DEF Deny, Pending, history
<1>8. ASSUME NEW call \in Call, Execute(call) PROVE Recording'
  <2>1. Here \in Id /\ Here[1] = step /\ Here[2] = pos /\ pc = "calls"
    BY <1>8, HereType DEF Execute, Pending
  <2>2. ran[Here] = 0
    BY <2>1, LoopAssumption DEF Fresh, Ahead, Live, TypeOK, Id
  <2>3. (\A i \in Id : ran'[i] = IF i = Here THEN 1 ELSE ran[i]) /\ UNCHANGED <<artifacts, asked, granted>>
    BY <1>8, <2>2 DEF Execute, TypeOK
  <2>4. artifacts = <<>>
    BY <2>1 DEF Recording
  <2>5. CASE pc' = "failed"
    <3>1. executed' = executed
      BY <1>8, <2>1, <2>5 DEF Execute
    <3>2. \A i \in Id : ran'[i] >= ran[i]
      BY <1>0, <2>2, <2>3
    <3> QED
      BY <1>0, <1>t, <2>1, <2>3, <2>5, <3>1, <3>2, RecordingStays
  <2>6. CASE pc' # "failed"
    <3>1. executed' = Append(executed, Here) /\ pc' = "calls"
      BY <1>8, <2>1, <2>6 DEF Execute
    <3>2. Here \notin Elements(executed)
      BY <2>2 DEF Recording
    <3>3. Distinct(executed')
      BY <1>0, <2>1, <3>1, <3>2, DistinctAppend DEF Recording
    <3>4. Elements(executed') = Elements(executed) \cup {Here}
      BY <1>0, <2>1, <3>1, ElementsOfAppend
    <3>5. \A i \in Elements(executed') : ran'[i] > 0 /\ i \notin Elements(artifacts)
      <4>1. Elements(executed) \subseteq Id /\ Elements(artifacts) = {}
        BY <1>0, <2>4, ElementsType DEF Elements
      <4>2. \A i \in Elements(executed) : ran[i] > 0
        BY DEF Recording
      <4> QED
        BY <2>1, <2>3, <3>4, <4>1, <4>2
    <3>6. ASSUME NEW i \in Id, ran'[i] > 0, asked[i] \in Write, SinceLastPause(i)
          PROVE  i \in Elements(executed') \cup Elements(artifacts)
      BY <2>1, <2>3, <3>4, <3>6 DEF Recording
    <3>7. \A i \in Id : SinceLastPause(i)' => SinceLastPause(i)
      BY <2>3 DEF SinceLastPause
    <3> QED
      BY <1>e, <2>1, <2>3, <2>4, <3>1, <3>3, <3>5, <3>6, <3>7 DEF Recording
  <2> QED
    BY <2>5, <2>6
<1>9. CASE NextStep
  BY <1>9, <1>s DEF NextStep, Pending, conversation, history
<1>10. CASE Resume
  <2>1. checkpoint \in Id /\ checkpoint[1] = step /\ checkpoint[2] = pos /\ checkpoint \in Elements(granted)
    BY <1>10, HereType DEF Resume, ResumeWith, Linked, Answering
  <2>2. pc = "resume" /\ UNCHANGED <<artifacts, asked, granted>>
    BY <1>10 DEF Resume, ResumeWith
  <2>3. \A i \in Id : ran'[i] = IF i = checkpoint THEN ran[checkpoint] + 1 ELSE ran[i]
    BY <1>10, <2>1 DEF Resume, ResumeWith, TypeOK
  <2>4. artifacts = <<>>
    BY <2>2 DEF Recording
  <2>5. CASE pc' = "failed"
    <3>1. executed' = executed
      BY <1>10, <2>5 DEF Resume, ResumeWith
    <3>2. \A i \in Id : ran'[i] >= ran[i]
      BY <1>0, <2>1, <2>3
    <3> QED
      BY <1>0, <1>t, <2>2, <2>5, <3>1, <3>2, RecordingStays
  <2>6. CASE pc' # "failed"
    <3>1. executed' = <<checkpoint>> /\ pc' = "model"
      BY <1>10, <2>6 DEF Resume, ResumeWith
    <3>2. Elements(executed') = {checkpoint} /\ Distinct(executed') /\ Elements(artifacts) = {}
      BY <2>4, <3>1 DEF Elements, Distinct
    <3>3. ran'[checkpoint] > 0
      BY <1>0, <2>1, <2>3
    <3>4. ASSUME NEW i \in Id, ran'[i] > 0, SinceLastPause(i), i # checkpoint PROVE FALSE
      <4>1. ran[i] > 0 /\ i \notin Ahead
        BY <2>2, <2>3, <3>4 DEF Fresh, Live
      <4>2. ~Before(i, checkpoint)
        BY <2>1, <3>4 DEF SinceLastPause
      <4>3. step \in Nat /\ pos \in Nat /\ i[1] \in Nat /\ i[2] \in Nat
        BY LoopAssumption DEF TypeOK, Id
      <4> QED
        BY <2>1, <4>1, <4>2, <4>3 DEF Ahead, Before
    <3>5. \A i \in Id : SinceLastPause(i)' => SinceLastPause(i)
      BY <2>2 DEF SinceLastPause
    <3> QED
      BY <1>e, <2>2, <2>4, <3>1, <3>2, <3>3, <3>4, <3>5 DEF Recording
  <2> QED
    BY <2>5, <2>6
<1>11. CASE RecordArtifact
  <2>1. /\ pc = "deliver" /\ pc' = pc /\ executed # <<>> /\ executed' = Tail(executed)
        /\ artifacts' = IF asked[Head(executed)] \in Write THEN Append(artifacts, Head(executed))
                                                           ELSE artifacts
        /\ UNCHANGED <<asked, ran, granted>>
    BY <1>11 DEF RecordArtifact, conversation, history
  <2>2. /\ Head(executed) \in Id /\ Distinct(Tail(executed))
        /\ Head(executed) \notin Elements(Tail(executed))
        /\ Elements(executed) = Elements(Tail(executed)) \cup {Head(executed)}
    BY <1>0, <2>1, DistinctTail, SeqTypes DEF Recording
  <2>3. Head(executed) \notin Elements(artifacts)
    BY <2>2 DEF Recording
  <2>4. /\ Distinct(artifacts')
        /\ Elements(artifacts') = IF asked[Head(executed)] \in Write
             THEN Elements(artifacts) \cup {Head(executed)} ELSE Elements(artifacts)
    <3>1. Distinct(artifacts)
      BY DEF Recording
    <3>2. CASE asked[Head(executed)] \in Write
      <4>1. artifacts' = Append(artifacts, Head(executed))
        BY <2>1, <3>2
      <4>2. Distinct(Append(artifacts, Head(executed)))
        BY <1>0, <2>2, <2>3, <3>1, DistinctAppend
      <4>3. Elements(Append(artifacts, Head(executed))) = Elements(artifacts) \cup {Head(executed)}
        BY <1>0, <2>2, ElementsOfAppend
      <4> QED
        BY <3>2, <4>1, <4>2, <4>3
    <3>3. CASE asked[Head(executed)] \notin Write
      BY <2>1, <3>1, <3>3
    <3> QED
      BY <3>2, <3>3
  <2>5. \A i \in Elements(executed') : ran[i] > 0 /\ i \notin Elements(artifacts')
    BY <2>1, <2>2, <2>4 DEF Recording
  <2>6. ASSUME NEW i \in Id, ran[i] > 0, asked[i] \in Write, SinceLastPause(i)
        PROVE  i \in Elements(executed') \cup Elements(artifacts')
    <3>1. i \in Elements(executed) \cup Elements(artifacts)
      BY <2>1, <2>6 DEF Recording
    <3> QED
      BY <2>1, <2>2, <2>4, <2>6, <3>1
  <2>7. \A i \in Id : SinceLastPause(i)' => SinceLastPause(i)
    BY <2>1 DEF SinceLastPause
  <2>8. Distinct(executed')
    BY <2>1, <2>2
  <2> QED
    BY <1>e, <2>1, <2>4, <2>5, <2>6, <2>7, <2>8 DEF Recording
<1>12. CASE Succeed
  BY <1>12, <1>s DEF Succeed, conversation, history
<1>13. CASE UserApproves
  <2>1. pc = "waiting" /\ pc' = "resume" /\ UNCHANGED <<executed, artifacts, ran>>
    BY <1>13 DEF UserApproves
  <2>2. \A i \in Id : ran'[i] >= ran[i]
    BY <1>0, <2>1
  <2> QED
    BY <1>0, <1>t, <2>1, <2>2, RecordingStays
<1>14. CASE UserDenies
  BY <1>14, <1>f DEF UserDenies
<1>15. CASE UNCHANGED vars
  BY <1>15, <1>s DEF vars, conversation, history
<1>16. CASE DeliveryFails
  BY <1>16, <1>s DEF DeliveryFails, conversation, history
<1> QED
  BY <1>1, <1>2, <1>3, <1>4, <1>5, <1>6, <1>7, <1>8, <1>9, <1>10, <1>11, <1>12, <1>13, <1>14, <1>15,
     <1>16
     DEF Next, AgentStep

\* A task that succeeded has recorded each file that it wrote since its last pause, and
\* none twice: what the last run executed is listed in order, behind everything that an
\* earlier run did, and the delivery goes through the whole list.
THEOREM FilesAreRecorded == Spec => []LastRunRecorded
<1> DEFINE I == TypeOK /\ Linked /\ Fresh /\ Answering /\ Recording
           Listed == pc = "succeeded" => executed = <<>>
<1>1. Init => I /\ Listed
  BY InitTypes DEF Init, Fresh, Ahead, Answering, Live, Recording, Distinct, Elements
<1>2. I /\ [Next]_vars => I'
  BY NextTypes, NextFresh, NextAnswering, NextRecording
<1>3. I /\ Listed /\ [Next]_vars => Listed'
  BY DEF Next, AgentStep, Unavailable, ModelRaises, FinalAnswer, ToolCalls, Responds, RejectCall,
         Pause, Deny, Execute, Pending, Can, NextStep, Resume, ResumeWith, RecordArtifact,
         DeliveryFails, Succeed, UserApproves, UserDenies, Fail, vars
<1>4. I /\ Listed => LastRunRecorded
  BY DEF LastRunRecorded, Recording, SinceLastPause, Distinct, Elements
<1> QED
  BY <1>1, <1>2, <1>3, <1>4, PTL DEF Spec

----------------------------------------------------------------------------
(* A run moves on: the safety half of RunEnds.                             *)

\* What a run goes through at one step of the loop; the end comes last.
Stage ==
  CASE pc = "model" -> 0
    [] pc = "calls" -> 1
    [] pc = "waiting" -> 2
    [] pc = "resume" -> 3
    [] pc = "deliver" -> 4
    [] OTHER -> 5

\* How far it is in the stage: the candidate that is asked, the call that is handled, or
\* the calls that are still to be recorded.
Part == IF pc = "model" THEN attempt ELSE IF pc = "deliver" THEN 0 - Len(executed) ELSE pos

Limit == IF pc = "model" THEN Len(chain) ELSE IF pc = "deliver" THEN 0 ELSE MaxCalls + 1

\* Steps, stages and parts are limited.
Limited == step <= MaxSteps /\ Stage \in 0..5 /\ Part <= Limit

\* The run is at a later step, at a later stage of its step, or further in its stage.
Forward ==
  \/ step' > step
  \/ step' = step /\ Stage' > Stage
  \/ step' = step /\ Stage' = Stage /\ Part' > Part

\* Stages by name.
LEMMA Stages ==
  /\ pc = "model" => Stage = 0 /\ Part = attempt
  /\ pc = "calls" => Stage = 1 /\ Part = pos
  /\ pc = "waiting" => Stage = 2
  /\ pc = "resume" => Stage = 3
  /\ pc = "deliver" => Stage = 4 /\ Part = 0 - Len(executed)
  /\ pc \in {"failed", "stuck", "succeeded"} => Stage = 5
BY DEF Stage, Part

\* The same of the next state.
LEMMA NextStages ==
  /\ pc' = "model" => Stage' = 0 /\ Part' = attempt'
  /\ pc' = "calls" => Stage' = 1 /\ Part' = pos'
  /\ pc' = "waiting" => Stage' = 2
  /\ pc' = "resume" => Stage' = 3
  /\ pc' = "deliver" => Stage' = 4 /\ Part' = 0 - Len(executed')
  /\ pc' \in {"failed", "stuck", "succeeded"} => Stage' = 5
BY DEF Stage, Part

\* Every step moves the run forward: no step goes back to a candidate, a call or a step of
\* the loop that the run has left, and a resumed run begins behind its checkpoint.
LEMMA NextForward == TypeOK /\ Linked /\ Next => Forward
<1> SUFFICES ASSUME TypeOK, Linked, Next PROVE Forward
  OBVIOUS
<1>t. step \in Nat /\ attempt \in Nat /\ pos \in Nat /\ Stage \in 0..5 /\ executed \in Seq(Id)
  BY LoopAssumption, ChainAssumption DEF TypeOK, Stage
<1> USE DEF Forward
<1>f. ASSUME Fail, pc \notin {"failed", "stuck", "succeeded"} PROVE Forward
  <2>1. step' = step /\ Stage' = 5
    BY <1>f, NextStages DEF Fail
  <2>2. Stage # 5
    BY <1>f, Stages DEF TypeOK, Ended
  <2> QED
    BY <1>t, <2>1, <2>2
<1>1. CASE Unavailable
  BY <1>1, <1>t, Stages, NextStages DEF Unavailable, Can
<1>2. CASE ModelRaises
  BY <1>2, <1>f DEF ModelRaises, Can
<1>3. CASE FinalAnswer
  BY <1>3, <1>t, Stages, NextStages DEF FinalAnswer, Responds, Can
<1>4. ASSUME NEW calls \in Response, ToolCalls(calls) PROVE Forward
  BY <1>4, <1>t, Stages, NextStages DEF ToolCalls, Responds, Can
<1>5. ASSUME NEW call \in Call, RejectCall(call) PROVE Forward
  BY <1>5, <1>f DEF RejectCall, Pending
<1>6. ASSUME NEW call \in Call, Pause(call) PROVE Forward
  BY <1>6, <1>t, Stages, NextStages DEF Pause, Pending
<1>7. ASSUME NEW call \in Call, Deny(call) PROVE Forward
  BY <1>7, <1>t, Stages, NextStages DEF Deny, Pending
<1>8. ASSUME NEW call \in Call, Execute(call) PROVE Forward
  BY <1>8, <1>t, Stages, NextStages DEF Execute, Pending
<1>9. CASE NextStep
  BY <1>9, <1>t DEF NextStep
<1>10. CASE Resume
  <2>1. pc = "resume" /\ Stage = 3 /\ checkpoint[1] = step
    BY <1>10, Stages DEF Resume, ResumeWith, Linked, Here
  <2>2. step' = checkpoint[1] + 1 \/ (pc' = "failed" /\ step' = step)
    BY <1>10 DEF Resume, ResumeWith
  <2> QED
    BY <1>t, <2>1, <2>2, NextStages
<1>11. CASE RecordArtifact
  <2>1. /\ pc = "deliver" /\ UNCHANGED <<pc, step>> /\ executed' = Tail(executed)
        /\ executed # <<>>
    BY <1>11 DEF RecordArtifact
  <2>2. Len(executed') = Len(executed) - 1 /\ Len(executed) \in Nat
    BY <1>t, <2>1
  <2> QED
    BY <1>t, <2>1, <2>2, Stages, NextStages
<1>12. CASE DeliveryFails \/ Succeed
  BY <1>12, <1>t, Stages, NextStages DEF DeliveryFails, Succeed
<1>13. CASE UserApproves
  BY <1>13, <1>t, Stages, NextStages DEF UserApproves
<1>14. CASE UserDenies
  BY <1>14, <1>f DEF UserDenies
<1> QED
  BY <1>1, <1>2, <1>3, <1>4, <1>5, <1>6, <1>7, <1>8, <1>9, <1>10, <1>11, <1>12, <1>13, <1>14
     DEF Next, AgentStep

\* No task runs for ever, however often it pauses: steps, stages and what is in a stage
\* are limited, and every step moves on in their order.
THEOREM RunsMoveOn == Spec => []Limited /\ [][Forward]_vars
<1>1. ASSUME TypeOK PROVE Limited
  <2>1. step <= MaxSteps /\ Stage \in 0..5
    BY <1>1, LoopAssumption DEF TypeOK, Stage
  <2>2. CASE pc = "model"
    BY <1>1, <2>1, <2>2 DEF Limited, Part, Limit, TypeOK
  <2>3. CASE pc = "deliver"
    <3>1. Len(executed) \in Nat
      BY <1>1 DEF TypeOK
    <3> QED
      BY <2>1, <2>3, <3>1 DEF Limited, Part, Limit
  <2>4. CASE pc \notin {"model", "deliver"}
    BY <1>1, <2>1, <2>4, LoopAssumption DEF Limited, Part, Limit, TypeOK
  <2> QED
    BY <2>2, <2>3, <2>4
<1>2. TypeOK /\ Linked /\ [Next]_vars => [Forward]_vars
  BY NextForward
<1>3. TypeOK /\ Linked /\ [Next]_vars => TypeOK' /\ Linked'
  BY NextTypes
<1> QED
  BY <1>1, <1>2, <1>3, InitTypes, PTL DEF Spec
=============================================================================
