SPECIFICATION MCSpec
CONSTANTS
    A = A
    B = B
    C = C
    D = D
    E = E
    v1 = v1
    v2 = v2
    p1 = p1
    p2 = p2
    p3 = p3
    NoBlock = NoBlock
    NoPage = NoPage
    Blocks = {A, B, C, D, E}
    VPages = {v1, v2}
    PPages = {p1, p2, p3}
    Configured = {p1, p2}
    Barriers = {D}
    NeedsMemory = {B}
    Recognised = {E}
    Starts <- EveryStart
    SpanOf <- MCSpanOf
    SetOf <- MCSetOf
    Fallthrough <- MCFallthrough
    BytesOf <- MCBytesOf
    Device = Device
    VCPUs = {0, 1, 2}
    SharedLines = {32}
    Timers = {}
    SGIs = {}
    Routes = {{0}, {1, 2}}
    Ways = 1
    Budget = 4
    ProtectedBudget = 2
    MaxRetirements = 2
    PoolSize = 1
    MaxTraceBlocks = 3
    AdaptationWindow = 2
    Workloads <- CodeWorkloads
    XBits = 8
    Cells = 16
    PageCells = 8
    Granule = 4
    Targets = {0, 1, 31}
    Sources = {1, 31}
    Seconds = {2}
    Immediates = {0, 1, 15, 128}
    Offsets <- MCOffsets
    Keys = {"CurrentEL", "NZCV", "DAIF", "FPCR", "FPSR", "SP_EL0", "SPSR_EL1", "ELR_EL1"}
    InstructionWorkloads <- AllWorkloads
INVARIANTS NoStaleCode ProgramsAccounted LoopsAreExact ClusterAwake FormsAgree ResultsAreRight RefusalIsRetriable
PROPERTY ExclusiveStoresAreExact
CHECK_DEADLOCK FALSE
