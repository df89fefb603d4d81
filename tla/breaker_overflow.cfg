CONSTANTS
    p1 = p1  p2 = p2  p3 = p3
    Requests <- ThreeRequests
    NumResources = 1
    Unreachable <- FirstResource
    Leavers <- Nobody
    Width = 5
    Second = 1
    CBMaxFailures = 2
    StartTime = 2
    MaxFailTime = 2
    MaxTime = 2
    MaxFailures = 4
SPECIFICATION Spec
SYMMETRY SymmetryOfThree
INVARIANT TriesAgain
