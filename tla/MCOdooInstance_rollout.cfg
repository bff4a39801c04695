SPECIFICATION Spec
CONSTANTS
    Revisions = {1, 2}
    Replicas = 1
    Initialize = FALSE
    Deletable = {}
    MaxEdits = 1
    MaxFaults = 0
PROPERTIES RolloutFollowsUpgrade
CHECK_DEADLOCK FALSE
