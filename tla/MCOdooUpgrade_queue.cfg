SPECIFICATION Spec
CONSTANTS
    Names = {1, 2}
    Instances = {shop}
    InstanceOf <- OneInstance
    InstanceStates = {"db"}
    Specs = {"own"}
    LegacyPhases = {}
    MaxUid = 2
    MaxFaults = 1
    Shared = {}
    Ties = FALSE
    Reuse = FALSE
INVARIANTS TypeOK OneRunning OneExecuting QueueInv
PROPERTIES NeverGoesBack Progress ImplementsQueue
CHECK_DEADLOCK FALSE
