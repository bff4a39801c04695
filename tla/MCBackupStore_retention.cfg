CONSTANTS
    Pods = {p1, p2, p3}
    MaxStamp = 3
    Destinations = {"pvc", "s3"}
    Overlapping <- MCOverlapping
    Retentions = {0, 1, 2}
    Ties = {"pvc"}
    MaxFaults = 2
SYMMETRY PodSymmetry
SPECIFICATION Spec
INVARIANTS TypeOK NewestKept OldOnesPruned NeverTorn ArchiveFollowsDump LeftoversRemoved
CHECK_DEADLOCK FALSE
