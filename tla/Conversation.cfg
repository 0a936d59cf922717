CONSTANTS
    r1 = r1
    r2 = r2
    r3 = r3
    p1 = p1
    p2 = p2
    ask = ask
    transform = transform
    save = save
    badSave = badSave
    direct = direct
    tea = tea
    Requests <- MCRequests
    Processes <- TwoProcesses
    Queries <- MCQueries
    KindOf <- MCKindOf
    MemoryOf <- MCMemoryOf
    Memories = {tea}
    MessageLimit = 3
    MaxForget = 1
    NoContent = NoContent
    None = None
CHECK_DEADLOCK FALSE
SPECIFICATION Spec
SYMMETRY Symmetry
INVARIANTS
    TypeOK
    LogHonest
    StoredBeforeUse
    CalmInOneProcess
PROPERTIES
    ReusesUnanswered
    ImplementsLog
