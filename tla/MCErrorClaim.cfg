\* The comment on errors, with the constants of MCPolicyEval.cfg.
CONSTANTS
  Policy <- MCPolicy
  Context <- MCContext
  MaxPolicies = 3
  InitialCap = 1
SPECIFICATION FairSpec
INVARIANT ErroredForbidDenies
