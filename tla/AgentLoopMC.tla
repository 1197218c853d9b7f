---------------------------- MODULE AgentLoopMC ----------------------------
(* A small instance of AgentLoop for TLC, and what the architecture says   *)
(* of files that the code does not do.                                     *)
EXTENDS AgentDelivery, TLC

CONSTANTS read, write, pay, broken

MCRisk == read :> "read" @@ write :> "write" @@ pay :> "critical" @@ broken :> "read"

MCPath == write :> "file"

MCRule ==
  {[effect |-> "allow", matches |-> {write, pay}, enabled |-> TRUE],
   [effect |-> "deny", matches |-> {pay}, enabled |-> TRUE],
   [effect |-> "require_approval", matches |-> {read}, enabled |-> TRUE],
   [effect |-> "deny", matches |-> {read, write}, enabled |-> FALSE]}

\* A local fallback; and a model without a key, a fallback, an unknown fallback.
MCChains ==
  {<<"qwen3.7-max", "ollama-local">>, <<"deepseek-chat", "qwen3.7-plus", "retired">>}

\* docs/architecture.md: file artifacts are stored and recorded.  Every file that a
\* succeeded task wrote is an artifact of it.
EveryWriteRecorded ==
  pc = "succeeded" =>
    \A i \in Id : ran[i] > 0 /\ asked[i] \in Write => i \in Elements(artifacts)
=============================================================================
