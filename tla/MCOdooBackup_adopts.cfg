SPECIFICATION Spec
CONSTANTS
    Names = {1}
    Instances = {shop}
    InstanceOf <- OneInstance
    InstanceStates = {"a"}
    SpecsOf <- OneShots
    Shared = {1}
    Reuse = {}
    Ties = FALSE
    MaxUid = 1
    MaxFaults = 1
INVARIANTS SucceededRanOwnJob
CHECK_DEADLOCK FALSE
