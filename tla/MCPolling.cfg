SPECIFICATION PollingSpec
CONSTANTS
  fast = fast
  slow = slow
  calc = calc
  sum = sum
  meter = meter
  NoKey = NoKey
  Groups = {fast, slow}
  Enabled = {fast, slow}
  Calcs = {calc, sum}
  Device <- MCDevice
  PollInterval <- MCPollInterval
  DefaultInterval = 3
  CheckDivisor = 3
  LeastCheck = 1
  Execution <- MCExecution
  Publishing = 0
  Inputs <- MCInputs
  TTL = 5
PROPERTY MissingOnlyIfUnread
CHECK_DEADLOCK FALSE
