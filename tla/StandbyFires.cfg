SPECIFICATION Spec
CONSTANTS
    Node = {n1, n2}
    Client = {c1}
    Job = {j1}
    Later = {}
    Period = 2
    MaxTime = 3
    NoNode = NoNode
    NoJob = NoJob
INVARIANT OneNodePerSlot
CHECK_DEADLOCK FALSE
