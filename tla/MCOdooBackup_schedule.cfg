SPECIFICATION Spec
CONSTANTS
    Names = {1}
    Instances = {shop}
    InstanceOf <- OneInstance
    InstanceStates = {"absent", "nodb", "a", "b"}
    SpecsOf <- Schedules
    Shared = {}
    Reuse = {}
    Ties = FALSE
    MaxUid = 1
    MaxFaults = 1
PROPERTIES ScheduleFollows
CHECK_DEADLOCK FALSE
