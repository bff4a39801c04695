SPECIFICATION Spec
CONSTANTS
    Created = {"branch", "invalid"}
    Edited = {"pinned", "other namespace"}
    Volumes = {"absent", "unbound", "bound"}
    MaxUid = 1
    MaxFaults = 1
INVARIANTS TypeOK ReadyIsBacked
PROPERTIES RecordedForCurrentSpec ForeignJobsKept DeletionEnds Settles
CHECK_DEADLOCK FALSE
