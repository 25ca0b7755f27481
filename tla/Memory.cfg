SPECIFICATION MCSpec
CONSTANTS
    c1 = c1
    c2 = c2
    d1 = d1
    NoOne = NoOne
    CPUs = {c1, c2}
    Devices = {d1}
    PageCount = 3
    GranulesPerPage = 2
    StripeCount = 2
    SlotCount = 2
    Ranges <- AccessRanges
    Workloads <- AccessWorkloads
    VCPUs = {c1, c2}
    VirtualPages = {0, 1}
    HighPages = {1}
    GroupPages = 2
    BlockPages = 2
    ASIDs = {0, 1}
    Stages <- MCStages
    Descriptors <- MCDescriptors
    Ways = 2
    VASlots = 3
    JournalCount = 1
    EpochLimit = 3
    CounterBits = 3
    ValueBits = 2
    Programs <- TranslationPrograms
    FileSize = 3
    Vectors <- MCVectors
    StackVectors = 2
    ZeroChunk = 2
    MaxRequests = 3
INVARIANTS NoCircularWait ObservedAccessesAtomic DirtyPagesReported HitsAreCurrent RegistersAgree TransfersExact FlushedSurvives
