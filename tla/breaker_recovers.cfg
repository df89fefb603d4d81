CONSTANTS
    p1 = p1  p2 = p2  p3 = p3
    Requests <- TwoRequests
    NumResources = 1
    Unreachable <- FirstResource
    Leavers <- TwoRequests
    Width = 8
    Second = 1
    CBMaxFailures = 1
    StartTime = 3
    MaxFailTime = 6
    MaxTime = 15
    MaxFailures = 3
SPECIFICATION FairSpec
PROPERTY FirstRecovers
INVARIANTS TypeOK FailuresAreDated OvershootBounded
PROPERTY ClosedOnlyByProbe
