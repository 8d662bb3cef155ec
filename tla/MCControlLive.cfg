CONSTANTS
  Request = {r1, r2}
  Stopper = {s1, s2}
  d1 = d1
  d2 = d2
  Device <- MCDevice
  NoDevice = NoDevice
  Registered = {d1}
  Removable = {d1}
  Gated = {d1}
  Shapes <- LiveShapes
  TimeMax = 2
  DriverStatus = {"Succeeded"}
  Capacity = 1
  Nobody = Nobody
SPECIFICATION FairSpec
PROPERTIES
  AcceptedCompletes
  StopReturns
