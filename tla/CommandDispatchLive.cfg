CONSTANTS
  Tasks = {t1}
  Nodes = {n1}
  Slots = {s1, s2}
  NoExec = NoExec
  LeaseDuration = 2
  Timeout = 1
  Skew <- Behind
  MaxFaults = 2
SPECIFICATION FairSpec
PROPERTIES
  EventuallyDecided
  ImplementsOnce
