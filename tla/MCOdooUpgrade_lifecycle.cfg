SPECIFICATION Spec
CONSTANTS
    Names = {1}
    Instances = {shop}
    InstanceOf <- OneInstance
    InstanceStates = {"absent", "db", "nodb"}
    Specs = {"own", "inherit", "invalid"}
    LegacyPhases = {"Pending", "Running", "Succeeded", "Failed"}
    MaxUid = 1
    MaxFaults = 1
    Shared = {1}
    Ties = FALSE
    Reuse = FALSE
INVARIANTS SucceededRanJob
PROPERTIES Progress ConditionsBackfilled
CHECK_DEADLOCK FALSE
