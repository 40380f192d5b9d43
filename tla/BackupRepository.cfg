SPECIFICATION Spec
CONSTANTS
  i1 = i1
  i2 = i2
  k1 = k1
  k2 = k2
  d1 = d1
  d2 = d2
  small = small
  large = large
  p1 = p1
  p2 = p2
  p3 = p3
  Nothing = Nothing
  Ids = {i1, i2}
  Keys = {k1, k2}
  Digests = {d1, d2}
  Data = {small, large}
  Procs = {p1, p2, p3}
  Kinds = {"local", "s3"}
  MaxBundle = 2
  MaxRepository = 2
  SizeOf <- MCSizeOf
  Requests <- MCRequests
SYMMETRY Symmetry
INVARIANTS
  TypeOK
  QuotaKept
  TornOnlyByDelete
PROPERTIES
  KeepsPromise
  RecoveryLeavesNothing
