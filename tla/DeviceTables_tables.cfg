SPECIFICATION Spec
CONSTANTS
  demo = demo
  sink = sink
  proxy = proxy
  e1 = e1
  e2 = e2
  e3 = e3
  None = None
  Devices = {demo, sink, proxy}
  Eids = {e1, e2, e3}
  Profile <- MCProfile
  EidOf <- MCEidOf
  Listed = {demo, proxy}
  Preset <- MCPreset
  MaxCallbacks = 3
INVARIANTS
  TypeOK
  StartMapsEveryDevice
  OnlyLeftovers
  KilledOnlyByRemove
  NamelessOnlyIfRemoved
PROPERTIES
  QuietAfterRemove
CHECK_DEADLOCK FALSE
