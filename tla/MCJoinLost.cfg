SPECIFICATION Spec
CONSTANTS
  Node <- HumanNode
  Chan <- HumanChan
  Kind <- HumanKind
  Members <- HumanMembers
  Triggers <- HumanTriggers
  Rank <- HumanRank
  StartChan = "__start__"
  Messages = "log"
  End = "__end__"
  Body <- HumanBody
  Interrupts <- NoInterrupts
  Subgraph = {}
  SubgraphChan = {}
  MayFail = {}
  InterruptBefore = {}
  InterruptAfter = {}
  RecursionLimit = 4
  Threshold = 2
  UpdateChan = {"log"}
  MaxUpdates = 1
  MaxAnswers = 0
INVARIANTS
  JoinsSurviveANewRun
