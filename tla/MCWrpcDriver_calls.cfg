SPECIFICATION FairSpec
CHECK_DEADLOCK FALSE
CONSTANTS
  Callers <- Pair
  Topics = {t1}
  Ops <- CallOps
  Submit = Submit
  Read = Read
  NextNote = NextNote
  Replay = Replay
  None = None
  MaxCalls <- TwiceAndOnce
  MaxDrivers = 2
  MaxNotes = 0
  MaxRetries = 1
  ChannelCap = 1
  NoteCap = 1
  Faults = {"garbage", "badid", "badop"}
  c1 = c1
  c2 = c2
  t1 = t1
  t2 = t2
INVARIANT AnswerIsOwn
INVARIANT SubmitAtMostOnce
INVARIANT OnlyActiveUnanswered
PROPERTY ImplementsService
PROPERTY EveryWaitEnds
