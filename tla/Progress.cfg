SPECIFICATION MCSpec
CONSTANTS
    WaitIds = {1, 2, 3, 4, 5}
    NoWait = NoWait
    Inputs = {"serial", "keys"}
    MaxSignals = 3
    Device = Device
    Code <- GuestCode
    Succ <- Follows
    Joined = {"a", "b", "c", "g"}
    First = "a"
    MaxSteps = 7
    MaxBlocks = 5
    Interval = 3
    Limits = {3}
    MaxTrace = 2
    Deadlines = {0, 4, 20}
    Poll = 3
INVARIANTS ExactlyOneResumer NoActivitySleptThrough SliceAccounts
PROPERTIES TasksProgress ClusterProgress SlicesEnd
CHECK_DEADLOCK FALSE
