SPECIFICATION MCSpec
CONSTANTS
  Threads = {"render", "client"}
  Images <- MCImages
  Stores <- MCStores
  StoreOf <- MCStoreOf
  InitiallyMapped = {"d"}
  Uncreated = {"owned", "second"}
  Solid = {"color"}
  Reenters = {"second"}
  MaxBatch = 2
  MaxHandles = 3
  MaxInFlight = 1
  MaxRetained = 1
  SpareBudget = 2
  SnapshotBudget = 1
  MaxFaults = 1
  Workloads <- MCWorkloads
INVARIANTS DrawsReadTheirSource MemoryIsShared
PROPERTIES ChangesAreMeant LauncherKeepsItsWord
