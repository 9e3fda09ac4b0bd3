SPECIFICATION FairSpec
CONSTANTS
  Node <- FanNode
  Chan <- FanChan
  Kind <- FanKind
  Members <- NoMembers
  Triggers <- FanTriggers
  Rank <- FanRank
  StartChan = "__start__"
  Messages = "log"
  End = "__end__"
  Body <- FanBody
  Interrupts <- FanInterrupts
  Subgraph = {}
  SubgraphChan = {}
  MayFail = {"b"}
  InterruptBefore = {}
  InterruptAfter = {}
  RecursionLimit = 5
  Threshold = 2
  UpdateChan = {"log"}
  MaxUpdates = 2
  MaxAnswers = 1
INVARIANTS
  StreamTellsTheState
  ConcurrentChildrenHaveDistinctIds
  EveryChildReports
PROPERTIES
  ImplementsSupersteps
  NodeInterruptPauses
  Terminates
