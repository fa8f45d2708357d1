CONSTANTS
  NoId            = NoId
  OperatorNames   <- MCOperatorNames
  ActionNames     <- MCActionNames
  BadScripts      <- MCBadScripts
  MaxRules        <- MCMaxRules
  RuleArgs        <- MCRuleArgs
  RuleExtArgs     <- MCRuleExtArgs
  TextLen         = 6

SPECIFICATION TextSpec

INVARIANT TypeOK
INVARIANT OperatorParseMatchesSyntax

\* Configuration ends once MaxRules rules are registered, and the operator
\* strings at TextLen symbols.
CHECK_DEADLOCK FALSE
