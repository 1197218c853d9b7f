SPECIFICATION DeliverySpec
CONSTANTS
  read = read
  write = write
  pay = pay
  broken = broken
  None = None
  Call = {read, write, pay, broken}
  RiskOf <- MCRisk
  Rule = {}
  Invalid = {broken}
  Write = {write}
  Path = {"file"}
  PathOf <- MCPath
  Other = Other
  MaxSteps = 3
  MaxCalls = 2
  Chains <- MCChains
  Keys = {"dashscope"}
CHECK_DEADLOCK FALSE
INVARIANTS
  EveryWriteRecorded
