SPECIFICATION Spec
CONSTANTS
    Run = {1, 2}
    Job = {vm}
    VmJob = {vm}
    MaxFaults = 2
    NoJob = NoJob
INVARIANTS
    TypeOK ExclusiveRun RunsAccounted NothingLeftBehind
PROPERTY OutcomeFinal
CHECK_DEADLOCK FALSE
