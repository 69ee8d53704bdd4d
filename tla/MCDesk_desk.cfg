SPECIFICATION DeskSpec
CHECK_DEADLOCK FALSE
CONSTANTS
  Apps <- Three
  Ops <- Shared
  MaxOps <- Budget
  None = None
  MaxSockets = 2
  MaxFrames = 2
  MaxDisconnects = 1
  MaxDrops = 1
  sub1 = sub1
  sub2 = sub2
  reader = reader
  Absent = Absent
  Resolvers = {r1, r2, r3}
  Endpoints = {e1, e2}
  Clients = {a1, a2}
  MaxCalls = 2
  MaxTasks = 3
  MaxBlocks = 2
  Payloads <- MCPayloads
  Producers <- MCProducers
  MAX_FRAMES = 4
  NoPayload = NoPayload
  MaxShows = 3
  MaxResets = 1
INVARIANT SlotIsRegistered
INVARIANT FramesComplete
INVARIANT TimeoutIsTold
PROPERTY EveryWaitReturns
INVARIANT FailuresAreComplete
INVARIANT BridgeReachable
PROPERTY PortalRunsItsCourse
INVARIANT DeliveredIsOnScreen
INVARIANT AssemblyIsFaithful
PROPERTY ScreenIsDelivered
