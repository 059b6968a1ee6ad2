SPECIFICATION FairSpec
CONSTANTS
  fast = fast
  slow = slow
  off = off
  calc = calc
  meter = meter
  NoKey = NoKey
  Groups = {fast, slow, off}
  Enabled = {fast, slow}
  Calcs = {calc}
  Device <- MCDevice
  PollInterval <- MCPollInterval
  DefaultInterval = 4
  CheckDivisor = 3
  LeastCheck = 1
  Execution <- MCExecution
  Publishing = 1
INVARIANT TypeOK
PROPERTIES NoRetryStorm PollsPeriodically KeepsPolling StopsAfterCancel
CHECK_DEADLOCK FALSE
