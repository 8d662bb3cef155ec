CONSTANTS
  NP = 2
  ND = 2
  NS = 2
  Push = {2}
  Stopper = {s1, s2}
  Starter = main
  Nobody = Nobody
  r0 = r0
  r1 = r1
  r2 = r2
  Request = {r0, r1, r2}
  Origin <- MCOrigin
  ControlCapacity = 2
  RawCapacity = 1
  MaxBatches = 2
SYMMETRY Symmetry
SPECIFICATION Spec
INVARIANTS
  DriverCallsLive
  PublisherCallsLive
  SourceCallbacksLive
  NoBatchRefusedByStop
  Drained
  StopIsComplete
PROPERTIES
  PluginLifecycle
