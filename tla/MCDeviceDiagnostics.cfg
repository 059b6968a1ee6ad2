SPECIFICATION Spec
CONSTANTS
  instant = instant
  energy = energy
  reactive = reactive
  status = status
  Groups = {instant, status}
  Calcs = {reactive}
  Device <- MCDevice
  Sensors <- MCSensors
  Inputs <- MCInputs
  Interval <- MCInterval
  Deadline <- MCDeadline
  Duration <- MCDuration
  NoKey = NoKey
  TTL = 1
  OfflineTimeout = 3
  ErrorRate = 80
  WarningRate = 90
  PublishInterval <- MCPublishInterval
  LoopPeriod = 1
  Lag <- MCLag
  SilentCap = 5
INVARIANTS TypeOK SilentDeviceNoticed NoFalseAlarm RepublishedInTime ErrorMeansUnheard
PROPERTIES ChangeGetsThrough
