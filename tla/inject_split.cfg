CONSTANTS
    PageLen = 6
    MaxTags = 1
    MinTagLen = 2
    MaxTagLen = 5
    FirstTag = 1
    MinChunk = 1
SPECIFICATION Spec
CHECK_DEADLOCK FALSE
INVARIANT PageReplaced
