SPECIFICATION FairDeliverySpec
CONSTANTS
  read = read
  write = write
  pay = pay
  broken = broken
  None = None
  Call = {read, write, pay, broken}
  RiskOf <- MCRisk
  Rule <- MCRule
  Invalid = {broken}
  Write = {write}
  Path = {"file"}
  PathOf <- MCPath
  Other = Other
  MaxSteps = 3
  MaxCalls = 2
  Chains <- MCChains
  Keys = {"dashscope"}
CHECK_DEADLOCK FALSE
INVARIANTS
  TypeOK
  OnlyPermitted
  NoConsentToDenied
  ExecutedOnce
  StepLimit
  ConversationAnswered
  UsageComplete
  LastRunRecorded
  RoutedInOrder
  ArtifactsAreStored
PROPERTIES
  RunEnds
