CONSTANTS
    q1 = q1  q2 = q2
    home = home  other = other  plain = plain  broken = broken
    None = None
    Requests <- TwoRequests
    Versions <- TwoVersions
    Tagless <- NoVersion
    Malformed <- NoVersion
    MaxEdits = 1
    MaxPurges = 1
SPECIFICATION Spec
INVARIANT PurgeWorks
