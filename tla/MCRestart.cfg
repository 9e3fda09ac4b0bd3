SPECIFICATION FairSpec
CONSTANTS
  Process = {"p"}
  Node = {"a", "b"}
  NodeQueue <- NodeQueueDef
  Timed = {}
  MayFail = {"b"}
  QueueFile = {"p"}
  None = None
  Shared = Shared
  Threshold = 2
  MaxSupersteps = 3
  MaxCrashes = 1
PROPERTIES
  ResumesAfterRestart
