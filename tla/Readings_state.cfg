SPECIFICATION Spec
CONSTANTS
  Half <- MCHalf
  Exact32 = 32
  Exact64 = 128
  Ulps = {1, 2, 4, 8, 16, 32, 64}
  MaxFloat32 = 992
  Inf = 2000
  NaN = 2001
  dev = dev
  Devices = {dev}
  Profiles <- MCSensors
  Updates <- MCSensors
  Reports <- MCReports
  Requests <- MCRequests
  None = None
  MaxTime = 4
  MaxCallbacks = 0
PROPERTY
  StateJudged
CHECK_DEADLOCK FALSE
