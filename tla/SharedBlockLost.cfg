SPECIFICATION Spec
CONSTANTS
    Run = {1, 2}
    Client = {}
    Job = {files}
    VmJob = {}
    Repo = {r1}
    RepoOf <- OneRepo
    Capacity <- Tight
    Block = {b1, b2}
    Source <- MCSource
    Holdable = {}
    HoldQueryFails = FALSE
    NoJob = NoJob
    NoClient = NoClient
    b1 = b1  b2 = b2  r1 = r1  r2 = r2
    files = files  vm = vm  other = other
INVARIANT EveryRowRestorable
CHECK_DEADLOCK FALSE
