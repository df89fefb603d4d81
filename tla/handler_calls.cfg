CONSTANTS
    c1 = c1  c2 = c2  c3 = c3
    Calls <- ThreeCalls
    MaxActive = 2
    Parts = {1}
    Original = Original
CHECK_DEADLOCK FALSE
SPECIFICATION FairSpec
INVARIANTS TypeOK PostsWholeBody
PROPERTIES CallsReturn PlainConnectionsReturn
