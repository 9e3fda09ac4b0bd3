SPECIFICATION Spec
CONSTANTS
  Process = {"p", "q"}
  Deployed = {"p", "q"}
  None = None
  MayPause = TRUE
  MaxVisits = 2
  MaxSteps = 2
  MaxEvictions = 2
  MaxCrashes = 2
INVARIANTS
  TypeOK
  NoReferenceLeaks
  StarterKeepsReference
PROPERTIES
  ReferencesAreReleased
  ReturnsWhileGraphIsKnown
