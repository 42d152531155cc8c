CONSTANTS
  k1 = k1
  k2 = k2
  r1 = r1
  r2 = r2
  Keys <- TwoKeys
  Readers <- TwoReaders
  Deltas <- UnitDeltas
  MaxEpoch = 2
  MaxGeneration = 2
  Budget = 1
  MaxFlights = 1
  MaxWaiters = 1
  CapEpochs = 0
  CapRows = 0
  Full = TRUE
  SplitKeys = {}
SPECIFICATION EngineSpec
INVARIANT ReportExact
