SPECIFICATION FairSpec
CONSTANTS
  Node <- HumanNode
  Chan <- HumanChan
  Kind <- HumanKind
  Members <- HumanMembers
  Triggers <- HumanTriggers
  Rank <- HumanRank
  StartChan = "__start__"
  Messages = "log"
  End = "__end__"
  Body <- HumanBody
  Interrupts <- HumanInterrupts
  Subgraph = {}
  SubgraphChan = {}
  MayFail = {}
  InterruptBefore = {"j"}
  InterruptAfter = {"__start__"}
  RecursionLimit = 4
  Threshold = 3
  UpdateChan = {"log"}
  MaxUpdates = 2
  MaxAnswers = 2
INVARIANTS
  CommittedTriggersRun
  LiveUpdatesAreKept
  TypeOK
  NoPartialSuperstep
  StatusTellsThePause
  ResumedWithAnswer
PROPERTIES
  ImplementsSupersteps
  Terminates
