SPECIFICATION Spec
CONSTANTS
    Names = {1, 2}
    Instances = {shop}
    InstanceOf <- OneInstance
    InstanceStates = {"a"}
    SpecsOf <- OneShots
    Shared = {2}
    Reuse = {}
    Ties = FALSE
    MaxUid = 2
    MaxFaults = 1
PROPERTIES NeverGoesBack ImplementsQueue
CHECK_DEADLOCK FALSE
