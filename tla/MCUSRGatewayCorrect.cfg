SPECIFICATION Spec
CONSTANTS
  Callers = {c1}
  Slaves = {s1, s2}
  Codes = {3}
  ReadHolding = 3
  DiagSlave = s1
  NoSlave = NoSlave
  NoCode = 0
  NoCaller = NoCaller
  ChanCap = 2
  StartModes = {"bridge"}
  MaxRequests = 3
INVARIANT CorrectResponse
