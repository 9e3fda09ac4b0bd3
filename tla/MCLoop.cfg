SPECIFICATION SpecClient
CONSTANTS
  Node <- LoopNode
  Chan <- LoopChan
  Kind <- LoopKind
  Members <- NoMembers
  Triggers <- LoopTriggers
  Rank <- LoopRank
  StartChan = "__start__"
  Messages = "log"
  End = "__end__"
  Body <- LoopBody
  Interrupts <- LoopInterrupts
  Subgraph = {"w"}
  SubgraphChan = {"log"}
  MayFail = {"b", "w"}
  InterruptBefore = {}
  InterruptAfter = {}
  RecursionLimit = 6
  Threshold = 4
  UpdateChan = {"log", "mode"}
  MaxUpdates = 1
  MaxAnswers = 0
INVARIANTS
  DeliveredInOrder
  GapsOnlyAtNewRun
  VersionsConsistent
  CommittedTriggersRun
  NoRerunWithoutNewInput
PROPERTIES
  FirstRunDelivered
  ImplementsSupersteps
  VersionsTrackValues
  ReadsNeverGoBack
