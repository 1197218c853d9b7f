----------------------------- MODULE AgentLoop -----------------------------
(***************************************************************************)
(* AgentRuntime.run over the runs of one task: it asks a model for the     *)
(* next step, handles the tool calls of the answer in order, pauses at a   *)
(* call that needs an approval, and is resumed from the checkpoint of that *)
(* pause.  The coordinator around it delivers the result.                  *)
(*                                                                         *)
(* A call is identified by the step and the position at which the model    *)
(* asked for it.  The conversation is what was asked and which calls have  *)
(* a result: a checkpoint takes the message list along and a resumed run   *)
(* starts from that list, so the two are one pair of variables.  Texts are *)
(* left out, and so is is_cancelled, which the coordinator sets to a       *)
(* function that returns False.  What the database does to the task        *)
(* between two runs is TaskLifecycle's.                                    *)
(***************************************************************************)
EXTENDS Naturals, Sequences, ToolPolicy, ModelRouting

CONSTANTS
  Invalid,    \* calls that do not parse or that name no registered tool
  Write,      \* files.write calls
  MaxSteps,   \* the task's max_steps
  MaxCalls,   \* bound: tool calls in one response
  None

ASSUME LoopAssumption ==
  /\ Invalid \subseteq Call /\ Write \subseteq Call
  /\ MaxSteps \in Nat \ {0} /\ MaxCalls \in Nat
  /\ None \notin Call

VARIABLES
  rules,       \* the policy's rules
  chain,       \* the task's model and its bot's fallbacks
  pc,          \* what the run does next
  step,        \* the loop's step
  attempt,     \* the candidate of the chain that is asked
  asked,       \* the conversation: the call asked for at each id
  answered,    \* the conversation: ids with a tool message
  pos,        \* position of the next call of this step's response
  executed,    \* executed_tools of this run, in order
  checkpoint,  \* id of the call the task waits for
  usage,       \* responses counted by the token usage
  artifacts,   \* ids of the files.write calls recorded as artifacts, in order
  ran,         \* history: executions of each call
  granted,     \* history: ids the user approved, in order
  responses,   \* history: model responses over all runs
  missed,      \* history: the candidates found unavailable at each step
  by           \* history: the candidate that answered each step, or 0

conversation == <<asked, answered>>
routing == <<missed, by>>
history == <<ran, granted, responses, routing>>
vars == <<rules, chain, pc, step, attempt, conversation, pos, executed, checkpoint, usage,
          artifacts, history>>

Id == (1..MaxSteps) \X (1..MaxCalls)

\* The order in which calls are asked for.
Before(i, j) == i[1] < j[1] \/ (i[1] = j[1] /\ i[2] < j[2])

Here == <<step, pos>>
Elements(s) == {s[i] : i \in DOMAIN s}
Ended == {"waiting", "failed", "stuck", "succeeded"}

Init ==
  /\ rules \in SUBSET Rule
  /\ chain \in Chains
  /\ pc = "model"
  /\ step = 1
  /\ attempt = 1
  /\ asked = [i \in Id |-> None]
  /\ answered = {}
  /\ pos = 1
  /\ executed = <<>>
  /\ checkpoint = None
  /\ usage = 0
  /\ artifacts = <<>>
  /\ ran = [i \in Id |-> 0]
  /\ granted = <<>>
  /\ responses = 0
  /\ missed = {}
  /\ by = [s \in 1..MaxSteps |-> 0]

Fail ==
  /\ pc' = "failed"
  /\ UNCHANGED <<rules, chain, step, attempt, conversation, pos, executed, checkpoint, usage,
                 artifacts, history>>

----------------------------------------------------------------------------
(* The model.                                                              *)

\* What can come of asking the candidate.
Can(outcome) == pc = "model" /\ outcome \in Outcomes(chain[attempt])

\* Mutant: the chain is tried again and again.
UnavailableForEver ==
  /\ Can("unavailable")
  /\ attempt' = IF attempt < Len(chain) THEN attempt + 1 ELSE 1
  /\ missed' = missed \cup {<<step, attempt>>}
  /\ UNCHANGED <<rules, chain, pc, step, conversation, pos, executed, checkpoint, usage, artifacts,
                 ran, granted, responses, by>>

\* The candidate is unavailable: the next one is tried, if there is one.
Unavailable ==
  /\ Can("unavailable")
  /\ attempt < Len(chain)
  /\ attempt' = attempt + 1
  /\ missed' = missed \cup {<<step, attempt>>}
  /\ UNCHANGED <<rules, chain, pc, step, conversation, pos, executed, checkpoint, usage, artifacts,
                 ran, granted, responses, by>>

\* The last candidate is unavailable, or any candidate is unknown, lacks tool
\* calling or answers nonsense: the completion raises.
ModelRaises ==
  /\ Can("raises") \/ (Can("unavailable") /\ attempt = Len(chain))
  /\ Fail

Responds ==
  /\ Can("answers")
  /\ responses' = responses + 1
  /\ usage' = usage + 1
  /\ by' = [by EXCEPT ![step] = attempt]
  /\ UNCHANGED <<rules, chain, step, attempt, answered, executed, checkpoint, artifacts, ran,
                 granted, missed>>

\* A response without tool calls ends the run.
FinalAnswer ==
  /\ Responds
  /\ pc' = "deliver"
  /\ UNCHANGED <<asked, pos>>

\* Mutant: the last step may call tools and leaves the limit to the loop.
ToolCallsUnlimited(calls) ==
  /\ Responds
  /\ asked' = [i \in Id |-> IF i[1] = step /\ i[2] <= Len(calls) THEN calls[i[2]] ELSE asked[i]]
  /\ pc' = "calls"
  /\ pos' = 1

\* MaxStepsExceeded when the response to the last step asks for tools.
ToolCalls(calls) ==
  /\ Responds
  /\ IF step >= MaxSteps
       THEN pc' = "failed" /\ UNCHANGED <<asked, pos>>
       ELSE /\ asked' = [i \in Id |-> IF i[1] = step /\ i[2] <= Len(calls)
                                        THEN calls[i[2]] ELSE asked[i]]
            /\ pc' = "calls"
            /\ pos' = 1

----------------------------------------------------------------------------
(* The calls of a response.                                                *)

\* The next call to handle, if the response has one more.
Pending(call) == pc = "calls" /\ pos <= MaxCalls /\ asked[Here] = call

\* _parse_tool_call or ToolRegistry.get raises.
RejectCall(call) == Pending(call) /\ call \in Invalid /\ Fail

\* ApprovalRequired: the calls behind this one are dropped with the run.
Pause(call) ==
  /\ Pending(call) /\ call \notin Invalid
  /\ Evaluate(rules, call) = "require_approval"
  /\ pc' = "waiting"
  /\ checkpoint' = Here
  /\ UNCHANGED <<rules, chain, step, attempt, conversation, pos, executed, usage, artifacts,
                 history>>

\* Mutant: the model is not told.
DenyUnanswered(call) ==
  /\ Pending(call) /\ call \notin Invalid
  /\ Evaluate(rules, call) = "deny"
  /\ pos' = pos + 1
  /\ UNCHANGED <<rules, chain, pc, step, attempt, conversation, executed, checkpoint, usage,
                 artifacts, history>>

\* The model is told that the policy denied the call.
Deny(call) ==
  /\ Pending(call) /\ call \notin Invalid
  /\ Evaluate(rules, call) = "deny"
  /\ answered' = answered \cup {Here}
  /\ pos' = pos + 1
  /\ UNCHANGED <<rules, chain, pc, step, attempt, asked, executed, checkpoint, usage, artifacts,
                 history>>

\* The tool may raise after it had its effect: nothing is appended then.
Execute(call) ==
  /\ Pending(call) /\ call \notin Invalid
  /\ Evaluate(rules, call) = "allow"
  /\ ran' = [ran EXCEPT ![Here] = @ + 1]
  /\ \/ /\ executed' = Append(executed, Here)
        /\ answered' = answered \cup {Here}
        /\ pos' = pos + 1
        /\ UNCHANGED pc
     \/ pc' = "failed" /\ UNCHANGED <<executed, answered, pos>>
  /\ UNCHANGED <<rules, chain, step, attempt, asked, checkpoint, usage, artifacts, granted,
                 responses, routing>>

\* Mutant: a fallback that answered stays in charge.
NextStepSticky ==
  /\ Pending(None) \/ (pc = "calls" /\ pos > MaxCalls)
  /\ pc' = "model"
  /\ step' = step + 1
  /\ UNCHANGED <<rules, chain, attempt, conversation, pos, executed, checkpoint, usage, artifacts,
                 history>>

\* Every call was handled: the loop goes on, with the task's own model first.
NextStep ==
  /\ Pending(None) \/ (pc = "calls" /\ pos > MaxCalls)
  /\ pc' = "model"
  /\ step' = step + 1
  /\ attempt' = 1
  /\ UNCHANGED <<rules, chain, conversation, pos, executed, checkpoint, usage, artifacts, history>>

----------------------------------------------------------------------------
(* The pause and the next run.                                             *)

\* The user decides; a denied task fails.
UserApproves ==
  /\ pc = "waiting"
  /\ pc' = "resume"
  /\ granted' = Append(granted, checkpoint)
  /\ UNCHANGED <<rules, chain, step, attempt, conversation, pos, executed, checkpoint, usage,
                 artifacts, ran, responses, routing>>

UserDenies == pc = "waiting" /\ Fail

\* The approved call is executed first; it may raise after it had its effect.
ResumeWith(list, next, used) ==
  /\ pc = "resume"
  /\ ran' = [ran EXCEPT ![checkpoint] = @ + 1]
  /\ \/ /\ pc' = "model"
        /\ executed' = list
        /\ answered' = answered \cup {checkpoint}
        /\ step' = next
        /\ attempt' = 1
        /\ usage' = used
     \/ pc' = "failed" /\ UNCHANGED <<executed, answered, step, attempt, usage>>
  /\ UNCHANGED <<rules, chain, asked, pos, checkpoint, artifacts, granted, responses, routing>>

\* Mutants: the resumed run counts its steps from one, forgets the usage before the
\* pause, or does not list the approved call.
ResumeFromOne == ResumeWith(<<checkpoint>>, 1, usage)
ResumeUnused == ResumeWith(<<checkpoint>>, checkpoint[1] + 1, 0)
ResumeUnlisted == ResumeWith(<<>>, checkpoint[1] + 1, usage)

\* Mutant: after the approved call the response is handled from that call on.
ResumeResponse ==
  /\ pc = "resume"
  /\ ran' = [ran EXCEPT ![checkpoint] = @ + 1]
  /\ pc' = "calls"
  /\ executed' = <<checkpoint>>
  /\ answered' = answered \cup {checkpoint}
  /\ UNCHANGED <<rules, chain, asked, step, attempt, pos, checkpoint, usage, artifacts, granted,
                 responses, routing>>

\* run with approved_checkpoint: the model is then asked for the step after the
\* checkpoint's, and the usage of the earlier runs counts.
Resume == ResumeWith(<<checkpoint>>, checkpoint[1] + 1, usage)

----------------------------------------------------------------------------
(* The coordinator delivers the result.                                    *)

\* One artifact per files.write of the run.
RecordArtifact ==
  /\ pc = "deliver" /\ executed # <<>>
  /\ executed' = Tail(executed)
  /\ artifacts' = IF asked[Head(executed)] \in Write
                    THEN Append(artifacts, Head(executed)) ELSE artifacts
  /\ UNCHANGED <<rules, chain, pc, step, attempt, conversation, pos, checkpoint, usage, history>>

\* The store or the database fails outside the try block: the task stays as it is.
DeliveryFails ==
  /\ pc = "deliver"
  /\ pc' = "stuck"
  /\ UNCHANGED <<rules, chain, step, attempt, conversation, pos, executed, checkpoint, usage,
                 artifacts, history>>

Succeed ==
  /\ pc = "deliver" /\ executed = <<>>
  /\ pc' = "succeeded"
  /\ checkpoint' = None
  /\ UNCHANGED <<rules, chain, step, attempt, conversation, pos, executed, usage, artifacts,
                 history>>

----------------------------------------------------------------------------
Response == UNION {[1..n -> Call] : n \in 1..MaxCalls}

AgentStep ==
  \/ Unavailable \/ ModelRaises \/ FinalAnswer
  \/ \E calls \in Response : ToolCalls(calls)
  \/ \E call \in Call : RejectCall(call) \/ Pause(call) \/ Deny(call) \/ Execute(call)
  \/ NextStep \/ Resume \/ RecordArtifact \/ DeliveryFails \/ Succeed

Next == AgentStep \/ UserApproves \/ UserDenies

Spec == Init /\ [][Next]_vars

\* A run goes on until it ends; the user need not decide.
FairSpec == Spec /\ WF_vars(AgentStep)

----------------------------------------------------------------------------
(* Properties.                                                             *)

TypeOK ==
  /\ rules \subseteq Rule
  /\ chain \in Chains
  /\ pc \in Ended \cup {"model", "calls", "resume", "deliver"}
  /\ step \in 1..MaxSteps
  /\ attempt \in 1..Len(chain)
  /\ asked \in [Id -> Call \cup {None}]
  /\ answered \subseteq Id
  /\ pos \in 1..(MaxCalls + 1)
  /\ executed \in Seq(Id)
  /\ checkpoint \in Id \cup {None}
  /\ usage \in Nat
  /\ artifacts \in Seq(Id)
  /\ ran \in [Id -> Nat]
  /\ granted \in Seq(Id)
  /\ responses \in Nat
  /\ missed \subseteq (1..MaxSteps) \X Nat
  /\ by \in [1..MaxSteps -> Nat]

\* What runs without the user's consent is a call of low risk that no rule stops, or
\* one that a rule allows, no stricter rule matches and that is not critical.
OnlyPermitted ==
  \A i \in Id : ran[i] > 0 /\ i \notin Elements(granted) =>
    LET matching == {rule \in rules : rule.enabled /\ asked[i] \in rule.matches} IN
      /\ \A rule \in matching : rule.effect = "allow"
      /\ RiskOf[asked[i]] # "critical" \/ matching = {}
      /\ matching = {} => RiskOf[asked[i]] = "read"

\* The user is never asked for a call that a rule denies: no approval overrides a denial.
NoConsentToDenied ==
  \A i \in Elements(granted), rule \in rules :
    rule.enabled /\ asked[i] \in rule.matches => rule.effect # "deny"

\* Over all runs of the task, a call the model asked for once is executed at most once.
ExecutedOnce == \A i \in Id : ran[i] <= 1

\* max_steps bounds the model's responses over all runs of the task, pauses included.
StepLimit == responses <= MaxSteps

\* When the model is asked, every call of the conversation has a result, except those
\* behind a call that was paused for: these are never handled.
ConversationAnswered ==
  pc = "model" =>
    \A i \in Id : asked[i] # None /\ i \notin answered =>
      \E j \in Elements(granted) : i[1] = j[1] /\ j[2] < i[2]

\* The usage recorded on success counts the responses of all runs.
UsageComplete == pc = "succeeded" => usage = responses

\* On success, the files written since the last pause are recorded, each once.
LastRunRecorded ==
  pc = "succeeded" =>
    /\ \A i \in Id :
         /\ ran[i] > 0 /\ asked[i] \in Write
         /\ \A j \in Elements(granted) : ~Before(i, j)
         => i \in Elements(artifacts)
    /\ \A k, l \in DOMAIN artifacts : artifacts[k] = artifacts[l] => k = l

\* Every response comes from the task's own model, or from a fallback of its bot after
\* every candidate before it was unavailable for this very request: the tokens counted
\* under the task's model are another's only then.
RoutedInOrder ==
  \A s \in 1..MaxSteps : by[s] # 0 => \A k \in 1..(by[s] - 1) : <<s, k>> \in missed

\* A run ends: it pauses, fails, is stuck in delivery or succeeds.
RunEnds == pc = "model" ~> pc \in Ended

=============================================================================
