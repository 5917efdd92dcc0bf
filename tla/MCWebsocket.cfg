SPECIFICATION FairSpec
CONSTANTS
  a = a
  b = b
  Clients = {a, b}
  Issuers <- MCIssuers
  Trimmed <- MCTrimmed
  Audiences = {"here"}
  Sends <- MCSends
  Documents <- MCIssuers
CHECK_DEADLOCK FALSE
INVARIANT TypeOK
PROPERTY VerifierIsKept
PROPERTY Admits
PROPERTY DefaultStaysServed
PROPERTY NobodyIsHeldUp
