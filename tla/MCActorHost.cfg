SPECIFICATION Spec
CONSTANTS
  g1 = g1
  g2 = g2
  Instances = {g1, g2}
  Requested <- MixedRequested
  CapsGrants <- MixedGrants
  allowWriteImports = TRUE
  allowSecretImports = TRUE
  CredentialProvider = TRUE
  maxProofs = 1
  Limits <- SmallLimits
  maxMemoryPages = 1
  Grants <- MixedGrants
  Budgets <- MixedBudgets
  Sizes = {1}
  MaxUses = 3
  MaxRevoked = 1
  MaxPages = 2
  MaxDepth = 2
INVARIANTS TypeOK AuthoritySound QuotasHold
PROPERTIES DeadGrantsStayDead NothingOverCap
CHECK_DEADLOCK FALSE
