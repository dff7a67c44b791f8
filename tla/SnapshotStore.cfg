SPECIFICATION Spec
CONSTANTS
    Run = {1, 2}
    Client = {c1}
    Job = {vm, other}
    VmJob = {vm}
    Repo = {r1, r2}
    RepoOf <- TwoRepos
    Capacity <- Tight
    Block = {b1, b2}
    Source <- MCSourceSmall
    Holdable = {1}
    HoldQueryFails = TRUE
    NoJob = NoJob
    NoClient = NoClient
    b1 = b1  b2 = b2  r1 = r1  r2 = r2
    files = files  vm = vm  other = other
INVARIANTS
    TypeOK RowHasManifest LossExplained LeaksExplained
PROPERTY RefinesCatalog
CHECK_DEADLOCK FALSE
