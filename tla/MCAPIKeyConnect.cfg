CONSTANTS
  Requests = {r1}
  MaxAttempts = 3
SPECIFICATION FairSpec
INVARIANT SuccessKeepsCredential
INVARIANT OneProviderUnlessUnsure
INVARIANT NoDanglingReference
INVARIANT NoOrphanCredential
PROPERTY WorkflowCloses
CHECK_DEADLOCK FALSE
