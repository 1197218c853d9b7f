---------------------------- MODULE ModelRouting ----------------------------
(***************************************************************************)
(* What ModelGateway._complete_once can do with one model of a chain: the  *)
(* built-in catalogue and its capabilities, the providers, their secrets.  *)
(* Request and response bodies are left out; so is the context window,     *)
(* which no request of the agent bounds.                                   *)
(***************************************************************************)
EXTENDS Sequences

CONSTANTS
  Chains,  \* chains of model ids: the task's own model, then its bot's fallbacks
  Keys     \* providers whose API key is set in the worker's environment

ASSUME ChainAssumption == \A chain \in Chains : chain \in Seq(STRING) /\ chain # <<>>

\* built_in_catalog: the models of each provider.
BuiltIn ==
  [dashscope   |-> {"qwen3.7-max", "qwen3.7-plus", "qwen3.7-flash"},
   deepseek    |-> {"deepseek-chat", "deepseek-reasoner"},
   moonshot    |-> {"kimi-k2.7-code"},
   zhipu       |-> {"glm-5.2"},
   minimax     |-> {"MiniMax-M3"},
   siliconflow |-> {"siliconflow-default"},
   ollama      |-> {"ollama-local"}]

\* default_provider_configs: every provider of the catalogue has a secret in the
\* environment, except the local one.
Keyless == {"ollama"}

\* EnvironmentSecretResolver.resolve
Resolves(provider) == provider \in Keyless \cup Keys

\* ModelCatalog.get
Known(model) == \E provider \in DOMAIN BuiltIn : model \in BuiltIn[provider]
ProviderOf(model) == CHOOSE provider \in DOMAIN BuiltIn : model \in BuiltIn[provider]

Capability(model) ==
  {"text", "tool_calling", "streaming"}
  \cup (IF ProviderOf(model) = "dashscope" THEN {"vision"} ELSE {})
  \cup (IF ProviderOf(model) \in {"dashscope", "zhipu"} THEN {"structured_output"} ELSE {})
  \cup (IF model \in {"deepseek-chat", "ollama-local"} THEN {} ELSE {"thinking"})

\* The agent always sends its tools and never asks for thinking.
Requirement == {"text", "tool_calling"}

\* ModelCatalog.require
Meets(model) == Known(model) /\ Requirement \subseteq Capability(model)

\* An unknown or incapable model raises; without a key it is unavailable before
\* anything is sent; then the network, the status and the body of the response decide.
Outcomes(model) ==
  IF ~Meets(model) THEN {"raises"}
  ELSE IF ~Resolves(ProviderOf(model)) THEN {"unavailable"}
  ELSE {"answers", "unavailable", "raises"}

=============================================================================
