CONSTANTS
  Tasks = {t1, t2}
  Nodes = {n1}
  Slots = {s1, s2}
  NoExec = NoExec
  LeaseDuration = 3
  Timeout = 2
  Skew = 0
  MaxFaults = 1
SPECIFICATION Spec
SYMMETRY Symmetry
INVARIANT OneCommandPerDevice
