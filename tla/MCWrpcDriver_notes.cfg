SPECIFICATION Spec
CHECK_DEADLOCK FALSE
CONSTANTS
  Callers <- Pair
  Topics = {t1, t2}
  Ops <- NoteOps
  Submit = Submit
  Read = Read
  NextNote = NextNote
  Replay = Replay
  None = None
  MaxCalls <- Twice
  MaxDrivers = 1
  MaxNotes = 3
  MaxRetries = 0
  ChannelCap = 1
  NoteCap = 2
  Faults = {}
  c1 = c1
  c2 = c2
  t1 = t1
  t2 = t2
INVARIANT NotesInOrder
PROPERTY FrameLostOnlyToCancelled
INVARIANT ReplayedOnStream
SYMMETRY TopicSymmetry
