CONSTANTS
  Tasks = {t1, t2}
  Nodes = {n1}
  Slots = {s1, s2}
  NoExec = NoExec
  LeaseDuration = 2
  Timeout = 1
  Skew = 0
  MaxFaults = 2
SPECIFICATION Spec
SYMMETRY Symmetry
INVARIANTS
  TypeOK
  AtMostOnce
  StoredResultIsReal
  AckedResultIsStored
  RetryOnlyFailures
