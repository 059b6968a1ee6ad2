SPECIFICATION Spec
CONSTANTS
  GracePeriod = 2
  Wirings = {TRUE, FALSE}
INVARIANTS GoneIsOffline GatewayOfflineShown
PROPERTIES ComesBackOnline StopHeard
