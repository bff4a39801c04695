SPECIFICATION Spec
CONSTANTS
    Revisions = {1, 2}
    Replicas = 1
    Initialize = TRUE
    Deletable = {"failed"}
    MaxEdits = 1
    MaxFaults = 1
INVARIANTS TypeOK NoPodsOnEmptyDatabase
PROPERTIES NeverScaledToZero GateHolds Settles
CHECK_DEADLOCK FALSE
