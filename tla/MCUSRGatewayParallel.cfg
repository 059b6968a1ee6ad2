SPECIFICATION FairSpec
CONSTANTS
  Callers = {c1, c2}
  Slaves = {s1, s2}
  Codes = {3}
  ReadHolding = 3
  DiagSlave = s1
  NoSlave = NoSlave
  NoCode = 0
  NoCaller = NoCaller
  ChanCap = 2
  StartModes = {"bridge"}
  MaxRequests = 2
INVARIANTS OneTransactionPerSlave
PROPERTIES KeepsPromise CallReturns
CHECK_DEADLOCK FALSE
