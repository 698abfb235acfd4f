SPECIFICATION MCSpec
SYMMETRY Symmetry
CHECK_DEADLOCK FALSE
CONSTANTS
  m1 = m1
  k1 = k1
  h1 = h1
  h2 = h2
  Request = {1, 2}
  Machine = {m1}
  Token = {k1}
  Handler = {h1, h2}
  Blank = Blank
  Nobody = Nobody
  Lifetime = 1
  Retention = 1
  EnrolLife = 1
  MaxUses = 1
  LastCall = 1
  MaxTime = 3
  d1 = d1
  d2 = d2
  a1 = a1
  a2 = a2
  Device = {d1, d2}
  Address = {a1, a2}
  Caller = {h1, h2}
  NoReading = NoReading
  RateWindow = 2
  RateLimit = 2
  MaxWindows = 3
  MaxPassed = 5
  MaxClock = 4
INVARIANTS
  TypeOK
  VerdictIsFinal
  CredentialIsGranted
  OneNodePerMachine
  TokenUses
  NoLockCycle
  RateBound
