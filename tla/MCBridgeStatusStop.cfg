SPECIFICATION Spec
CONSTANTS
  GracePeriod = 1
  Wirings = {FALSE}
PROPERTY StopsDuringRetry
