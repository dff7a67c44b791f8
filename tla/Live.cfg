SPECIFICATION LoopsSpec
CONSTANTS
    Node = {n1}
    Client = {c1}
    Job = {j1, j2}
    Later = {}
    Period = 2
    MaxTime = 3
    Run = {1, 2}
    RunJob = {files}
    VmJob = {}
    MaxFaults = 1
    NoNode = NoNode
    NoJob = NoJob
PROPERTIES DueFires SessionEnds
CHECK_DEADLOCK FALSE
