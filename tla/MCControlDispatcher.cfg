CONSTANTS
  Request = {r1, r2, r3}
  Stopper = {s1, s2}
  d1 = d1
  d2 = d2
  Device <- MCDevice
  NoDevice = NoDevice
  Registered = {d1}
  Removable = {d1}
  Gated = {d1}
  Shapes <- MCShapes
  TimeMax = 3
  DriverStatus = {"Succeeded"}
  Capacity = 2
  Nobody = Nobody
SYMMETRY Symmetry
SPECIFICATION Spec
PROPERTIES
  ImplementsService
INVARIANTS
  ExactlyOnce
  StopBarrier
  DriverExclusive
  CallbacksRunUnlocked
  SleepersAreWoken
  OneJoiner
  TimeoutJustified
  SummaryBalanced
