SPECIFICATION Spec
CONSTANTS
  Node <- HumanNode
  Chan <- HumanChan
  Kind <- HumanKind
  Members <- HumanMembers
  Triggers <- HumanTriggers
  Rank <- HumanRank
  StartChan = "__start__"
  Messages = "log"
  End = "__end__"
  Body <- HumanBody
  Interrupts <- HumanInterrupts
  Subgraph = {}
  SubgraphChan = {}
  MayFail = {}
  InterruptBefore = {"j"}
  InterruptAfter = {"__start__"}
  RecursionLimit = 4
  Threshold = 2
  UpdateChan = {"log"}
  MaxUpdates = 1
  MaxAnswers = 2
PROPERTIES
  EveryInterruptPauses
