SPECIFICATION Spec
CONSTANTS
    Names = {1}
    Instances = {shop}
    InstanceOf <- OneInstance
    InstanceStates = {"absent", "nodb", "a", "b"}
    SpecsOf <- Schedules
    Shared = {1}
    Reuse = {1}
    Ties = FALSE
    MaxUid = 2
    MaxFaults = 1
INVARIANTS TypeOK SucceededRanJob
PROPERTIES TemplateSettles Progress
CHECK_DEADLOCK FALSE
