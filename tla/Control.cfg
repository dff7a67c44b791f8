SPECIFICATION ControlSpec
CONSTANTS
    n1 = n1  n2 = n2  a1 = a1  r1 = r1  v = v  w = w  c1 = c1  c2 = c2  j1 = j1
    t1 = t1  t2 = t2  w1 = w1  w2 = w2  w3 = w3
    Node = {n1, n2}
    Client = {c1, c2}
    Job = {j1}
    Later = {j1}
    Period = 2
    MaxTime = 3
    NoNode = NoNode
    NoJob = NoJob
    Portal = {n1, n2}
    Req = {r1}
    Caller <- Callers
    SubmittedBy <- Submitter
    PortalBoots = 3
    PortalCopies = 2
    DrVm = {v, w}
    Plan <- Plans
    DrCall = {c1, c2}
    TenantNode = {n1, n2}
    TenantId = {t1, t2}
    Settled = {t1}
    TenantCall = {c1, c2}
    Hypervisor = {r1}
    MoRef = {v}
    InvCall = {w1, w2, w3}
    Versions = 1
    SessNode = {n1, n2}
    Token = {t1, t2}
    SignedTill <- FirstTill
    SessCall = {w1, w2, w3}
    TokenLife = 2
    Leeway = 0
    FlowLife = 1
    FailWindow = 2
    MaxFailures = 1
    KeptFailures = 2
    MaxRevoked = 1
    DropBatch = 0
    LastTick = 2
    SessFaults = 1
    Agent = {a1}
    Adopting = {a1}
    Task = {t1, t2}
    NoTask = NoTask
    PollLimit = 1
    Losses = 2
INVARIANTS
    ControlTypeOK TableSound SubmitDurable TenantsSound
    InventorySound SessionsSound RepeatExplained
PROPERTIES
    OnlyDueSpawned VerdictStands CommittedRuns
CHECK_DEADLOCK FALSE
