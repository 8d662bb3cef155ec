CONSTANTS
  MaxU64 = 63
  MaxI64 = 31
  MaxUInt = 15
  MaxInt = 7
  MaxPort = 3
  Wild = {"a+"}
  NoPath = NoPath
  PerMillisecond = 2
  MaxNow = 3
  Documents <- MCDocuments
SPECIFICATION Spec
INVARIANTS
  AcceptedIsValid
  NumbersExact
