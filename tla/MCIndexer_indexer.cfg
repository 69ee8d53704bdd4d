SPECIFICATION Spec
CHECK_DEADLOCK FALSE
CONSTANTS
  Configs <- AllConfigs
  None = None
  t1 = t1
  t2 = t2
  t3 = t3
  t4 = t4
  b1 = b1
  b2 = b2
  b3 = b3
  b4 = b4
  r1 = r1
  r2 = r2
INVARIANTS
  StoreIsSound
  EventsTellTheStory
  IndexIsTheChain
PROPERTY RestoreIsFaithful
