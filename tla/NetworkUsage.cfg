SPECIFICATION MCSpec
CONSTANTS
  w1 = w1
  w2 = w2
  Worker = {w1, w2}
  First = w1
  MaxDay = 2
  DaysPerMonth = 2
  MaxBytes <- MCMaxBytes
  MaxCounter = 2
  MaxFaults = 1
  MaxStarts = 1
  LastReportDay = 1
  MaxReportTotal = 1
  MaxFailures = 2
  MaxRestarts = 1
INVARIANTS
  TypeOK
  TodayWithinMonth
  NoByteTwice
  EveryByteCounted
PROPERTIES
  ServerCatchesUp
