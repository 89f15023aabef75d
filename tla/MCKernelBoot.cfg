SPECIFICATION Spec
CONSTANTS
  TableSize = 5
  KernelDirectory = 20480
  LowMemory = 8192
  KernelStart = 16384
  KernelEnd = 45156
  IntLimit = 69632
  XPage = 4
  HandlersBase = 70000
  StubAddress = 66000
  ScanCodes = {1, 30, 65, 127, 200}
  Samples <- Numbers
  MemoryMaps <- Maps
INVARIANTS TypeOK InterruptsReturn IdentityMapped FreePageIsFree PrintedAsMeant
