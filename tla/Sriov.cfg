SPECIFICATION FairSpec
CONSTANTS
  Vms = {a, b}
  Sizes <- AllSizes
  GbMb = 4
  IntMax = 7
  InitNr = 1
  HostPages = 6
  MaxWait = 2
  TotalVfs = 3
  Garbage <- SomeInts
INVARIANTS TypeOK PoolBounded SoloPages SoloVf
PROPERTIES SetupReturns
