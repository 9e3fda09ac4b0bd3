SPECIFICATION FairSpec
CONSTANTS
  Process = {"p", "q"}
  Node = {"a", "b"}
  NodeQueue <- NodeQueueDef
  Timed = {"a", "b"}
  MayFail = {"b"}
  QueueFile = {"p"}
  None = None
  Shared = Shared
  Threshold = 2
  MaxSupersteps = 3
  MaxCrashes = 2
INVARIANTS
  TypeOK
  NodesRunOnAWorkerQueue
  OneLossIsSurvived
PROPERTIES
  PinLeftOnlyOnFailure
  Ends
