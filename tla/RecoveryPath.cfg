SPECIFICATION MCSpec
CONSTANTS
  v1 = v1
  v2 = v2
  v3 = v3
  Torn = Torn
  Erased = Erased
  None = None
  Version <- MCVersion
  Factory = v1
  Healthy <- MCHealthy
  Legacy <- MCLegacy
  Tasks <- AllTasks
  Rules <- SafetyRules
  RuleSets <- MCRuleSets
  EnvCoalesced = {TRUE, FALSE}
  EnvTears = TRUE
  Settings = {"one_write"}
INVARIANTS RecoveryBoots
