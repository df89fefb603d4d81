CONSTANTS
    PageLen = 7
    MaxTags = 3
    MinTagLen = 2
    MaxTagLen = 3
    FirstTag = 0
    MinChunk = 1
    DataLens <- ShortAndLong
    Codes = {200, 404}
SPECIFICATION WriterSpec
CHECK_DEADLOCK FALSE
INVARIANTS WritersTypeOK PanicsOnlyOnOverlap TagsOnceInOrder PageAsItShouldBe StatusKept LengthMatches
