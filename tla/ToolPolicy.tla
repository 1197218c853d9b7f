---------------------------- MODULE ToolPolicy ----------------------------
(***************************************************************************)
(* The decision of PolicyEngine.evaluate on a tool call.  A rule's tool    *)
(* pattern, bot and arguments are the set of calls they match.             *)
(***************************************************************************)
CONSTANTS
  Call,    \* tool calls a model may ask for: a tool with its arguments
  RiskOf,  \* the risk level of each call's tool
  Rule     \* policy rules [effect, matches, enabled]

RiskLevel == {"read", "write", "sensitive", "critical"}
Decision == {"allow", "require_approval", "deny"}

ASSUME CallAssumption == RiskOf \in [Call -> RiskLevel]
ASSUME RuleAssumption ==
  Rule \subseteq [effect : Decision, matches : SUBSET Call, enabled : BOOLEAN]

\* PolicyRule.matches
Matches(rule, call) == rule.enabled /\ call \in rule.matches

\* default_decision_for_risk
Default(risk) == IF risk = "read" THEN "allow" ELSE "require_approval"

\* Mutant: an explicit permission is looked up first.
EvaluateAllowFirst(rules, call) ==
  LET effects == {rule.effect : rule \in {r \in rules : Matches(r, call)}} IN
    IF "allow" \in effects
      THEN IF RiskOf[call] = "critical" THEN "require_approval" ELSE "allow"
    ELSE IF "deny" \in effects THEN "deny"
    ELSE IF "require_approval" \in effects THEN "require_approval"
    ELSE Default(RiskOf[call])

\* Mutant: a rule may allow a critical call for ever.
EvaluateTrusting(rules, call) ==
  LET effects == {rule.effect : rule \in {r \in rules : Matches(r, call)}} IN
    IF "deny" \in effects THEN "deny"
    ELSE IF "require_approval" \in effects THEN "require_approval"
    ELSE IF "allow" \in effects THEN "allow"
    ELSE Default(RiskOf[call])

\* PolicyEngine.evaluate: the strictest matching effect wins; a critical call
\* cannot be permanently allowed.
Evaluate(rules, call) ==
  LET effects == {rule.effect : rule \in {r \in rules : Matches(r, call)}} IN
    IF "deny" \in effects THEN "deny"
    ELSE IF "require_approval" \in effects THEN "require_approval"
    ELSE IF "allow" \in effects
      THEN IF RiskOf[call] = "critical" THEN "require_approval" ELSE "allow"
    ELSE Default(RiskOf[call])

=============================================================================
