SPECIFICATION Spec
CHECK_DEADLOCK FALSE
CONSTANTS
  Q = 10007
  Digest <- MCDigest
  Scenes <- MCScenes
  Secrets = {3, 8}
  Accounts <- MCAccounts
  Hierarchy <- MCHierarchy
  MaxAsks = 2
  MaxDraws = 2
  MaxSplices = 1
INVARIANT NonceIsFresh
