SPECIFICATION Spec
CONSTANTS
  Callers = {c1}
  Slaves = {s1, s2}
  Codes = {3, 4}
  ReadHolding = 3
  DiagSlave = s1
  NoSlave = NoSlave
  NoCode = 0
  NoCaller = NoCaller
  ChanCap = 2
  StartModes = {"bridge", "diagnostic"}
  MaxRequests = 4
INVARIANTS TypeOK LagBoundedByUnanswered HoldingRequestsOnly
PROPERTIES KeepsPromise OwnAnswerNotRejected
CHECK_DEADLOCK FALSE
