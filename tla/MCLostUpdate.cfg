SPECIFICATION Spec
CONSTANTS
  Node <- LoopNode
  Chan <- LoopChan
  Kind <- LoopKind
  Members <- NoMembers
  Triggers <- LoopTriggers
  Rank <- LoopRank
  StartChan = "__start__"
  Messages = "log"
  End = "__end__"
  Body <- LoopBody
  Interrupts <- LoopInterrupts
  Subgraph = {"w"}
  SubgraphChan = {"log"}
  MayFail = {"b"}
  InterruptBefore = {}
  InterruptAfter = {}
  RecursionLimit = 5
  Threshold = 2
  UpdateChan = {"log", "mode"}
  MaxUpdates = 2
  MaxAnswers = 0
INVARIANTS
  UpdatesReachTheState
