SPECIFICATION Spec
CONSTANTS
  Half <- MCHalf
  Exact32 = 32
  Exact64 = 128
  Ulps = {1, 2, 4, 8, 16, 32, 64}
  MaxFloat32 = 992
  Inf = 2000
  NaN = 2001
  dev = dev
  Devices = {dev}
  Profiles <- MCProfiles
  Updates <- MCUpdates
  Reports <- MCReports
  Requests <- MCRequests
  None = None
  MaxTime = 2
  MaxCallbacks = 1
INVARIANTS
  AnswersOfOneMoment
  NothingMissing
  ReadFaithful
  RefusedForAReason
CHECK_DEADLOCK FALSE
