CONSTANTS
  NoId            = NoId
  OperatorNames   <- MCOperatorNames
  ActionNames     <- MCActionNames
  BadScripts      <- MCBadScripts
  MaxRules        <- MCMaxRules
  RuleArgs        <- MCRuleArgs
  RuleExtArgs     <- MCRuleExtArgs

SPECIFICATION Spec

INVARIANT RegisteredRulesValid

\* Configuration ends once MaxRules rules are registered.
CHECK_DEADLOCK FALSE
