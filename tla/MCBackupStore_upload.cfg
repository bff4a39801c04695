CONSTANTS
    Pods = {p1, p2, p3}
    MaxStamp = 3
    Destinations = {"s3"}
    Overlapping <- NoOverlap
    Retentions = {0}
    Ties = {}
    MaxFaults = 0
SYMMETRY PodSymmetry
SPECIFICATION Spec
INVARIANT SucceededMeansStored
CHECK_DEADLOCK FALSE
